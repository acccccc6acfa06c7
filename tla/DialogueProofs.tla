--------------------------- MODULE DialogueProofs ---------------------------
(***************************************************************************)
(* Proofs about what goes on between the event loop and a client that      *)
(* waits for each answer before it asks again: the loop takes a request    *)
(* for complete only when it is, waits to write exactly when it has taken  *)
(* one, and closes no connection without a cause; it implements the safety *)
(* part of HttpSession.                                                    *)
(*                                                                         *)
(* The requests are those that findReqEnd can tell the end of (Framed in  *)
(* Framing).  Sends may be cut short.  That each request is taken in the   *)
(* end is liveness, and not so after an upload (eventloop_keepalive).      *)
(***************************************************************************)
EXTENDS EventLoopProofs

-----------------------------------------------------------------------------
(* A request in three pieces: what the server has read, what has arrived,  *)
(* what the client has yet to send.                                        *)

LEMMA ConcatAt ==
  ASSUME NEW S, NEW s \in Seq(S), NEW t \in Seq(S)
  PROVE  /\ s \o t \in Seq(S) /\ Len(s \o t) = Len(s) + Len(t)
         /\ \A i \in 1..Len(s) : (s \o t)[i] = s[i]
         /\ \A i \in 1..Len(t) : (s \o t)[Len(s) + i] = t[i]
<1>1. /\ s \o t \in Seq(S) /\ Len(s \o t) = Len(s) + Len(t)
      /\ \A i \in 1..Len(s) + Len(t) : (s \o t)[i] = IF i <= Len(s) THEN s[i] ELSE t[i - Len(s)]
      /\ Len(s) \in Nat /\ Len(t) \in Nat
  BY ConcatProperties, LenProperties
<1>2. ASSUME NEW i \in 1..Len(s) PROVE (s \o t)[i] = s[i]
  BY <1>1
<1>3. ASSUME NEW i \in 1..Len(t) PROVE (s \o t)[Len(s) + i] = t[i]
  <2> DEFINE p == Len(s)
             q == Len(t)
  <2>1. p \in Nat /\ q \in Nat /\ i \in 1..q
    BY <1>1
  <2> HIDE DEF p, q
  <2>2. p + i \in 1..p + q /\ ~(p + i <= p) /\ (p + i) - p = i
    BY <2>1
  <2> QED BY <1>1, <2>2 DEF p, q
<1> QED BY <1>1, <1>2, <1>3

LEMMA CutType ==
  ASSUME NEW S, NEW w \in Seq(S), NEW a \in Nat, NEW b \in Nat, a <= b, b <= Len(w)
  PROVE  /\ SubSeq(w, a + 1, b) \in Seq(S) /\ Len(SubSeq(w, a + 1, b)) = b - a
         /\ \A i \in 1..b - a : SubSeq(w, a + 1, b)[i] = w[a + i]
<1>1. Len(w) \in Nat /\ \A i \in a + 1..b : w[i] \in S
  BY LenProperties, ElementOfSeq
<1>2. /\ SubSeq(w, a + 1, b) \in Seq(S)
      /\ Len(SubSeq(w, a + 1, b)) = IF a + 1 <= b THEN b - (a + 1) + 1 ELSE 0
      /\ \A i \in 1..b - (a + 1) + 1 : SubSeq(w, a + 1, b)[i] = w[(a + 1) + i - 1]
  BY <1>1, SubSeqProperties
<1>3. b - (a + 1) + 1 = b - a /\ \A i \in 1..b - a : (a + 1) + i - 1 = a + i
  OBVIOUS
<1> QED BY <1>2, <1>3

\* The server reads the first m units of what has arrived.
LEMMA CutRead ==
  ASSUME NEW S, NEW w \in Seq(S), NEW a \in Nat, NEW b \in Nat, a <= b, b <= Len(w),
         NEW m, m \in 0..b - a
  PROVE  /\ SubSeq(w, 1, a) \o SubSeq(SubSeq(w, a + 1, b), 1, m) = SubSeq(w, 1, a + m)
         /\ SubSeq(SubSeq(w, a + 1, b), m + 1, b - a) = SubSeq(w, a + m + 1, b)
<1> DEFINE x == SubSeq(w, a + 1, b)
           y == SubSeq(w, 1, a)
           z == SubSeq(w, 1, a + m)
           h == SubSeq(x, 1, m)
           t == SubSeq(x, m + 1, b - a)
           u == SubSeq(w, a + m + 1, b)
<1>1. Len(w) \in Nat /\ m \in Nat /\ m <= b - a
  BY LenProperties
<1>2. x \in Seq(S) /\ Len(x) = b - a /\ \A i \in 1..b - a : x[i] = w[a + i]
  BY CutType
<1>3. y \in Seq(S) /\ Len(y) = a /\ \A i \in 1..a : y[i] = w[i]
  BY <1>1, CutType, 0 \in Nat, 0 + 1 = 1
<1>4. z \in Seq(S) /\ Len(z) = a + m /\ \A i \in 1..a + m : z[i] = w[i]
  BY <1>1, CutType, 0 \in Nat, 0 + 1 = 1, a + m <= Len(w), a + m \in Nat
<1>5. u \in Seq(S) /\ Len(u) = b - (a + m) /\ \A i \in 1..b - (a + m) : u[i] = w[(a + m) + i]
  BY <1>1, CutType, a + m \in Nat, a + m <= b
<1> HIDE DEF x, y, z, u
<1>6. h \in Seq(S) /\ Len(h) = m /\ \A i \in 1..m : h[i] = x[i]
  BY <1>2, CutType, 0 \in Nat, 0 + 1 = 1, m <= Len(x)
<1>7. t \in Seq(S) /\ Len(t) = (b - a) - m /\ \A i \in 1..(b - a) - m : t[i] = x[m + i]
  BY <1>2, CutType, b - a \in Nat, b - a <= Len(x)
<1> HIDE DEF h, t
<1>8. y \o h = z
  <2>1. /\ y \o h \in Seq(S) /\ Len(y \o h) = a + m
        /\ \A i \in 1..a : (y \o h)[i] = y[i]
        /\ \A i \in 1..m : (y \o h)[a + i] = h[i]
    <3>1. /\ y \o h \in Seq(S) /\ Len(y \o h) = Len(y) + Len(h)
          /\ \A i \in 1..Len(y) : (y \o h)[i] = y[i]
          /\ \A i \in 1..Len(h) : (y \o h)[Len(y) + i] = h[i]
      <4>1. y \in Seq(S) /\ h \in Seq(S)
        BY <1>3, <1>6
      <4> QED BY <4>1, ConcatAt
    <3>2. Len(y) = a /\ Len(h) = m
      BY <1>3, <1>6
    <3> QED BY <3>1, <3>2
  <2>2. ASSUME NEW i \in 1..a PROVE (y \o h)[i] = z[i]
    BY <1>3, <1>4, <2>1, i \in 1..a + m
  <2>3. ASSUME NEW i \in 1..m PROVE (y \o h)[a + i] = z[a + i]
    <3>1. a + i \in 1..a + m /\ i \in 1..b - a
      OBVIOUS
    <3> QED BY <1>2, <1>4, <1>6, <2>1, <3>1
  <2>4. ASSUME NEW i \in 1..a + m PROVE (y \o h)[i] = z[i]
    <3>1. i \in 1..a \/ (i - a \in 1..m /\ a + (i - a) = i)
      OBVIOUS
    <3> QED BY <2>2, <2>3, <3>1
  <2> QED BY <1>4, <2>1, <2>4, SeqEqual
<1>9. t = u
  <2>1. ASSUME NEW i \in 1..(b - a) - m PROVE t[i] = u[i]
    <3>1. m + i \in 1..b - a /\ a + (m + i) = (a + m) + i /\ i \in 1..b - (a + m)
      OBVIOUS
    <3> QED BY <1>2, <1>5, <1>7, <3>1
  <2>2. (b - a) - m = b - (a + m)
    OBVIOUS
  <2> QED BY <1>5, <1>7, <2>1, <2>2, SeqEqual
<1> QED BY <1>8, <1>9 DEF x, y, z, u, h, t

LEMMA UnitsRead ==
  \A w \in Seq(Unit) : \A a, b \in Nat : \A m \in 0..b - a :
     a <= b /\ b <= Len(w) =>
       /\ SubSeq(w, 1, a) \o SubSeq(SubSeq(w, a + 1, b), 1, m) = SubSeq(w, 1, a + m)
       /\ SubSeq(SubSeq(w, a + 1, b), m + 1, b - a) = SubSeq(w, a + m + 1, b)
BY CutRead

\* The next unit arrives.
LEMMA CutSend ==
  ASSUME NEW S, NEW w \in Seq(S), NEW a \in Nat, NEW b \in Nat, a <= b, b < Len(w)
  PROVE  /\ Append(SubSeq(w, a + 1, b), Head(SubSeq(w, b + 1, Len(w)))) = SubSeq(w, a + 1, b + 1)
         /\ Tail(SubSeq(w, b + 1, Len(w))) = SubSeq(w, b + 2, Len(w))
<1> DEFINE n == Len(w)
           x == SubSeq(w, a + 1, b)
           y == SubSeq(w, b + 1, n)
           z == SubSeq(w, a + 1, b + 1)
           u == SubSeq(w, b + 2, n)
<1>1. n \in Nat
  BY LenProperties
<1>2. x \in Seq(S) /\ Len(x) = b - a /\ \A i \in 1..b - a : x[i] = w[a + i]
  BY CutType
<1>3. y \in Seq(S) /\ Len(y) = n - b /\ \A i \in 1..n - b : y[i] = w[b + i]
  BY <1>1, CutType
<1>4. z \in Seq(S) /\ Len(z) = (b + 1) - a /\ \A i \in 1..(b + 1) - a : z[i] = w[a + i]
  BY <1>1, CutType, b + 1 \in Nat, a <= b + 1, b + 1 <= Len(w)
<1>5. u \in Seq(S) /\ Len(u) = n - (b + 1) /\ \A i \in 1..n - (b + 1) : u[i] = w[(b + 1) + i]
  BY <1>1, CutType, b + 1 \in Nat, b + 1 <= n, (b + 1) + 1 = b + 2
<1> HIDE DEF n, x, y, z, u
<1>6. b < n /\ y # <<>>
  BY <1>1, <1>3 DEF n
<1>7. Head(y) = w[b + 1] /\ Head(y) \in S
  BY <1>1, <1>3, <1>6, HeadTailProperties
<1>8. Append(x, Head(y)) = z
  <2>1. /\ Append(x, Head(y)) \in Seq(S) /\ Len(Append(x, Head(y))) = (b - a) + 1
        /\ \A i \in 1..b - a : Append(x, Head(y))[i] = x[i]
        /\ Append(x, Head(y))[(b - a) + 1] = Head(y)
    BY <1>2, <1>7, AppendProperties, SMTT(30)
  <2>2. ASSUME NEW i \in 1..(b - a) + 1 PROVE Append(x, Head(y))[i] = z[i]
    <3>1. CASE i \in 1..b - a
      <4>1. i \in 1..(b + 1) - a
        BY <3>1
      <4>2. Append(x, Head(y))[i] = w[a + i]
        BY <1>2, <2>1, <3>1
      <4>3. z[i] = w[a + i]
        BY <1>4, <4>1
      <4> QED BY <4>2, <4>3
    <3>2. CASE i = (b - a) + 1
      <4>1. a + i = b + 1 /\ i \in 1..(b + 1) - a
        BY <3>2
      <4>2. Append(x, Head(y))[i] = w[b + 1]
        BY <1>7, <2>1, <3>2
      <4>3. z[i] = w[b + 1]
        BY <1>4, <4>1
      <4> QED BY <4>2, <4>3
    <3>3. i \in 1..b - a \/ i = (b - a) + 1
      OBVIOUS
    <3> QED BY <3>1, <3>2, <3>3
  <2> QED BY <1>4, <2>1, <2>2, SeqEqual
<1>9. Tail(y) = u
  <2>1. /\ Tail(y) \in Seq(S) /\ Len(Tail(y)) = n - (b + 1)
        /\ \A i \in 1..n - (b + 1) : Tail(y)[i] = y[i + 1]
    BY <1>1, <1>3, <1>6, HeadTailProperties
  <2>2. ASSUME NEW i \in 1..n - (b + 1) PROVE Tail(y)[i] = u[i]
    <3>1. i + 1 \in 1..n - b /\ b + (i + 1) = (b + 1) + i
      BY <1>1
    <3> QED BY <1>3, <1>5, <2>1, <3>1
  <2> QED BY <1>5, <2>1, <2>2, SeqEqual
<1> QED BY <1>8, <1>9 DEF x, y, z, u, n

\* The units of a request: the end of its headers is the second, and only the last
\* of a body with an end of its own is marked as such.
LEMMA WireFacts ==
  ASSUME NEW k \in Kind, Framed(k), NEW n \in 1..MaxReqs, NEW w, w = Wire(k, n)
  PROVE  /\ w \in Seq(Unit) /\ Len(w) \in Nat /\ Len(w) >= 2
         /\ \A i \in 1..Len(w) : w[i].kind = k /\ w[i].n = n
         /\ w[1].part = "line" /\ w[2].part = "endh"
         /\ \A i \in 1..Len(w) : w[i].part = "endh" => i = 2
         /\ \A i \in 1..Len(w) : w[i].part = "last" => i = Len(w)
         /\ k.coding \notin {"chunked", "multipart"} => Len(w) = 2
<1> DEFINE unit(p) == [kind |-> k, n |-> n, part |-> p]
           head == <<unit("line"), unit("endh")>>
           body == [i \in 1..k.body |-> unit("data")]
           ends == k.coding \in {"chunked", "multipart"}
           last == IF ends THEN <<unit("last")>> ELSE <<>>
<1>1. w \in Seq(Unit)
  BY WireType
<1>2. \A p \in {"line", "endh", "data", "last"} :
        unit(p) \in Unit /\ unit(p).kind = k /\ unit(p).n = n /\ unit(p).part = p
  BY DEF Unit
<1>3. k.body \in Nat
  BY DEF Kind
<1>4. w = head \o body \o last
  BY DEF Wire
<1>5. ~ends => k.body = 0
  BY DEF Framed
<1> HIDE DEF unit
<1>6. head \in Seq(Unit) /\ Len(head) = 2 /\ head[1] = unit("line") /\ head[2] = unit("endh")
  BY <1>2
<1>7. body \in Seq(Unit) /\ Len(body) = k.body /\ \A i \in 1..k.body : body[i] = unit("data")
  BY <1>2, <1>3
<1>8. last \in Seq(Unit) /\ Len(last) = (IF ends THEN 1 ELSE 0) /\ (ends => last[1] = unit("last"))
  BY <1>2
<1> HIDE DEF head, body, last, ends
<1>9. /\ head \o body \in Seq(Unit) /\ Len(head \o body) = 2 + k.body
      /\ \A i \in 1..2 : (head \o body)[i] = head[i]
      /\ \A i \in 1..k.body : (head \o body)[2 + i] = body[i]
  BY <1>3, <1>6, <1>7, ConcatAt, 2 \in Nat
<1> DEFINE m == 2 + k.body
           e == IF ends THEN 1 ELSE 0
           hb == head \o body
<1>10. m \in Nat /\ m >= 2 /\ e \in {0, 1} /\ e \in Nat
  BY <1>3
<1>11. /\ hb \in Seq(Unit) /\ Len(hb) = m /\ Len(last) = e
       /\ w = hb \o last
  BY <1>4, <1>8, <1>9
<1>12. hb[1] = unit("line") /\ hb[2] = unit("endh")
  BY <1>6, <1>9, 1 \in 1..2, 2 \in 1..2
<1>13. ASSUME NEW i \in 3..m PROVE hb[i] = unit("data")
  <2>1. i - 2 \in 1..k.body /\ 2 + (i - 2) = i
    BY <1>3
  <2> QED BY <1>7, <1>9, <2>1
<1>14. ~ends => m = 2
  BY <1>5
<1>15. (ends <=> e = 1) /\ (~ends <=> e = 0)
  OBVIOUS
<1> HIDE DEF m, e, hb
<1>16. /\ Len(w) = m + e
       /\ \A i \in 1..m : w[i] = hb[i]
       /\ \A i \in 1..e : w[m + i] = last[i]
  BY <1>8, <1>10, <1>11, ConcatAt
<1>17. w[1] = unit("line") /\ w[2] = unit("endh")
  BY <1>16, <1>10, <1>12
<1>18. ASSUME NEW i \in 3..m PROVE w[i] = unit("data")
  BY <1>16, <1>10, <1>13
<1>19. ASSUME NEW i \in m + 1..m + e PROVE i = m + e /\ w[i] = unit("last")
  <2>1. e = 1 /\ i = m + 1 /\ 1 \in 1..e
    BY <1>10
  <2> QED BY <1>8, <1>16, <1>15, <2>1
<1>20. ASSUME NEW i \in 1..m + e
       PROVE  \/ i = 1 /\ w[i] = unit("line")
              \/ i = 2 /\ w[i] = unit("endh")
              \/ w[i] = unit("data")
              \/ i = m + e /\ w[i] = unit("last")
  <2>1. i = 1 \/ i = 2 \/ i \in 3..m \/ i \in m + 1..m + e
    BY <1>10
  <2>2. CASE i = 1
    BY <1>17, <2>2
  <2>3. CASE i = 2
    BY <1>17, <2>3
  <2>4. CASE i \in 3..m
    BY <1>18, <2>4
  <2>5. CASE i \in m + 1..m + e
    BY <1>19, <2>5
  <2> QED BY <2>1, <2>2, <2>3, <2>4, <2>5
<1>21. ~ends => m + e = 2
  BY <1>14, <1>15
<1>22. \A i \in 1..Len(w) : w[i].kind = k /\ w[i].n = n
  BY <1>2, <1>16, <1>20
<1>23. \A i \in 1..Len(w) : w[i].part = "endh" => i = 2
  BY <1>2, <1>16, <1>20
<1>24. \A i \in 1..Len(w) : w[i].part = "last" => i = Len(w)
  BY <1>2, <1>16, <1>20
<1>25. w[1].part = "line" /\ w[2].part = "endh"
  BY <1>2, <1>17
<1>26. Len(w) \in Nat /\ Len(w) >= 2
  BY <1>16, <1>10
<1>27. ~ends => Len(w) = 2
  BY <1>16, <1>21
<1>28. k.coding \notin {"chunked", "multipart"} => Len(w) = 2
  BY <1>27 DEF ends
<1> HIDE DEF ends
<1> QED BY <1>1, <1>22, <1>25, <1>26, <1>28, <1>23, <1>24, Zenon

-----------------------------------------------------------------------------
(* findReqEnd *)

\* What the record of a client tells of request k when a of its units have been read.
Knows(req, k, a) ==
  /\ req.foundHeaders <=> a >= 2
  /\ req.foundHeaders => /\ req.method = k.method
                         /\ k.coding = "chunked" => req.isTransfer
                         /\ k.coding = "multipart" => req.isMultipart

\* The units read are the first of the request.
LEMMA PrefixType ==
  ASSUME NEW w \in Seq(Unit), NEW a \in 0..Len(w), NEW s, s = SubSeq(w, 1, a)
  PROVE  s \in Seq(Unit) /\ Len(s) = a /\ a \in Nat /\ \A i \in 1..a : s[i] = w[i]
<1>1. Len(w) \in Nat
  BY LenProperties
<1>2. a \in Nat /\ a <= Len(w) /\ 0 \in Nat /\ 0 <= a /\ 0 + 1 = 1 /\ a - 0 = a
  BY <1>1
<1>3. /\ SubSeq(w, 0 + 1, a) \in Seq(Unit) /\ Len(SubSeq(w, 0 + 1, a)) = a - 0
      /\ \A i \in 1..a - 0 : SubSeq(w, 0 + 1, a)[i] = w[0 + i]
  BY <1>2, CutType
<1>4. \A i \in 1..a : 0 + i = i
  OBVIOUS
<1> QED BY <1>2, <1>3, <1>4

\* The search for the end of the headers finds the second unit as soon as it is there.
LEMMA HeadersEndSecond ==
  ASSUME NEW s \in Seq(Unit), NEW c \in Nat, Len(s) = c, c >= 2, s[1].part = "line", s[2].part = "endh"
  PROVE  HeadersEnd(s) = 2 /\ HasEndh(s[2])
<1>1. HasEndh(s[2]) /\ ~HasEndh(s[1])
  BY DEF HasEndh
<1> DEFINE P(i) == HasEndh(s[i]) /\ \A j \in 1..(i - 1) : ~HasEndh(s[j])
<1>2. 2 \in 1..Len(s) /\ \A j \in 1..(2 - 1) : j = 1
  OBVIOUS
<1>3. P(2)
  BY <1>1, <1>2
<1>4. ASSUME NEW i \in 1..Len(s), P(i) PROVE i = 2
  <2>1. i # 1
    BY <1>1, <1>4
  <2>2. i > 2 => 2 \in 1..(i - 1)
    OBVIOUS
  <2> QED BY <1>1, <1>4, <2>1, <2>2
<1>5. HeadersEnd(s) = CHOOSE i \in 1..Len(s) : P(i)
  BY DEF HeadersEnd
<1> HIDE DEF P
<1> QED BY <1>1, <1>2, <1>3, <1>4, <1>5

\* isChunked learns the coding.
LEMMA IsChunkedLearns ==
  ASSUME NEW u, NEW req \in ReqData
  PROVE  LET r == IsChunked(u, req) IN
         /\ r.reqString = req.reqString /\ r.method = req.method
         /\ AnnouncedBy(u) = "chunked" => r.isTransfer
         /\ AnnouncedBy(u) = "multipart" => r.isMultipart
<1> DEFINE c == AnnouncedBy(u)
           t == IF c \in {"chunked", "identity"} THEN c = "chunked" ELSE req.isTransfer
           m == req.isMultipart \/ c = "multipart"
           b == IF c = "multipart" THEN BoundOf(u) ELSE req.finalBound
<1>1. IsChunked(u, req) = [req EXCEPT !.isTransfer = t, !.isMultipart = m, !.finalBound = b]
  BY DEF IsChunked
<1>2. (c = "chunked" => t = TRUE) /\ (c = "multipart" => m = TRUE)
  OBVIOUS
<1> HIDE DEF c, t, m, b
<1>3. /\ IsChunked(u, req).reqString = req.reqString /\ IsChunked(u, req).method = req.method
      /\ IsChunked(u, req).isTransfer = t /\ IsChunked(u, req).isMultipart = m
  BY <1>1 DEF ReqData
<1> QED BY <1>2, <1>3 DEF c

\* Having read c units, the first half of findReqEnd knows what there is to know.
LEMMA ScannedKnows ==
  ASSUME NEW k \in Kind, Framed(k), NEW n \in 1..MaxReqs, NEW w, w = Wire(k, n),
         NEW c \in 0..Len(w), NEW a \in 0..c,
         NEW req \in ReqData, req.reqString = SubSeq(w, 1, c), Knows(req, k, a)
  PROVE  Scanned(req).reqString = SubSeq(w, 1, c) /\ Knows(Scanned(req), k, c)
<1> DEFINE s == req.reqString
<1>1. /\ w \in Seq(Unit) /\ Len(w) \in Nat /\ Len(w) >= 2
      /\ w[1].part = "line" /\ w[2].part = "endh" /\ w[1].kind = k /\ w[2].kind = k
  BY WireFacts
<1>2. s \in Seq(Unit) /\ Len(s) = c /\ c \in Nat /\ \A i \in 1..c : s[i] = w[i]
  BY <1>1, PrefixType
<1>3. a \in Nat /\ a <= c
  BY <1>2
<1>4. CASE req.foundHeaders
  BY <1>3, <1>2, <1>4 DEF Scanned, Knows
<1>5. CASE ~req.foundHeaders /\ c < 2
  <2>1. \A i \in 1..Len(s) : i = 1 /\ s[i].part = "line"
    BY <1>1, <1>2, <1>5
  <2>2. \A i \in 1..Len(s) : ~HasEndh(s[i])
    BY <2>1 DEF HasEndh
  <2>3. Scanned(req) = req
    BY <2>2 DEF Scanned
  <2> QED BY <1>2, <1>5, <2>3 DEF Knows
<1>6. CASE ~req.foundHeaders /\ c >= 2
  <2> DEFINE u == s[2]
             r == [req EXCEPT !.foundHeaders = TRUE, !.method = MethodOf(s)]
  <2>1. s[1].part = "line" /\ u.part = "endh" /\ s[1].kind = k /\ u.kind = k
    BY <1>1, <1>2, <1>6
  <2>2. HeadersEnd(s) = 2 /\ HasEndh(s[2]) /\ 2 \in 1..Len(s)
    <3> HIDE DEF s
    <3> QED BY <1>2, <1>6, <2>1, HeadersEndSecond
  <2>3. Scanned(req) = IsChunked(u, r)
    BY <1>6, <2>2 DEF Scanned
  <2>4. MethodOf(s) = k.method /\ k.method \in Methods
    <3>1. s # <<>>
      BY <1>2, <1>6
    <3> QED BY <2>1, <3>1 DEF MethodOf, Kind
  <2>5. r \in ReqData /\ r.reqString = s /\ r.foundHeaders /\ r.method = k.method
    BY <2>4 DEF ReqData
  <2>6. AnnouncedBy(u) = k.coding
    BY <2>1 DEF AnnouncedBy
  <2>7. u.n \in 1..MaxReqs
    <3>1. u \in Unit
      BY <1>2, <2>2, ElementOfSeq
    <3> QED BY <3>1 DEF Unit
  <2> HIDE DEF u, r, s
  <2>8. IsChunked(u, r).foundHeaders
    BY <2>5, <2>7, IsChunkedType
  <2>9. /\ IsChunked(u, r).reqString = s /\ IsChunked(u, r).method = k.method
        /\ k.coding = "chunked" => IsChunked(u, r).isTransfer
        /\ k.coding = "multipart" => IsChunked(u, r).isMultipart
    BY <2>5, <2>6, IsChunkedLearns
  <2> QED BY <1>6, <2>3, <2>8, <2>9 DEF Knows, s
<1> QED BY <1>2, <1>4, <1>5, <1>6

\* What findReqEnd takes for the end is the end.
LEMMA EndIsTheEnd ==
  ASSUME NEW k \in Kind, Framed(k), NEW n \in 1..MaxReqs, NEW w, w = Wire(k, n),
         NEW a \in 0..Len(w),
         NEW req \in ReqData, req.reqString = SubSeq(w, 1, a), Knows(req, k, a), ReqEnd(req)
  PROVE  a = Len(w)
<1> DEFINE s == req.reqString
           coded == k.coding \in {"chunked", "multipart"}
<1>1. /\ w \in Seq(Unit) /\ Len(w) \in Nat
      /\ \A i \in 1..Len(w) : w[i].kind = k
      /\ \A i \in 1..Len(w) : w[i].part = "last" => i = Len(w)
      /\ ~coded => Len(w) = 2
  BY WireFacts
<1>2. s \in Seq(Unit) /\ Len(s) = a /\ a \in Nat /\ \A i \in 1..a : s[i] = w[i]
  BY <1>1, PrefixType
<1>3. req.foundHeaders /\ a >= 2
  BY DEF ReqEnd, Knows
<1>4. CASE ~coded
  BY <1>1, <1>2, <1>3, <1>4
<1>5. CASE coded
  <2>1. k.method \in {"POST", "PUT"} /\ ~k.zero /\ k.data # "end"
    BY <1>5 DEF Framed
  <2>2. req.method = k.method /\ (req.isTransfer \/ req.isMultipart)
    BY <1>3, <1>5 DEF Knows
  <2>3. PICK u \in InWindow(s) : HasZero(u) \/ HasBound(u, req.finalBound)
    BY <2>1, <2>2 DEF ReqEnd
  <2>4. PICK i \in 1..Len(s) : u = s[i]
    BY <2>3 DEF InWindow
  <2>5. i \in 1..a /\ i \in 1..Len(w) /\ u = w[i]
    BY <1>1, <1>2, <2>4
  <2>6. u.kind = k
    BY <1>1, <2>5
  <2>7. u.part = "last"
    BY <2>1, <2>3, <2>6 DEF HasZero, HasBound
  <2>8. i = Len(w)
    BY <1>1, <2>5, <2>7
  <2> QED BY <1>1, <1>2, <2>5, <2>8
<1> QED BY <1>4, <1>5

\* A request that has been read to its end.
LEMMA WholeRequest ==
  ASSUME NEW k \in Kind, Framed(k), NEW n \in 1..MaxReqs, NEW w, w = Wire(k, n)
  PROVE  IsWhole(w) /\ w[1].kind = k /\ MethodOf(w) = k.method /\ SubSeq(w, 1, Len(w)) = w
<1>1. /\ w \in Seq(Unit) /\ Len(w) \in Nat /\ Len(w) >= 2 /\ w[1].part = "line"
      /\ w[1].kind = k /\ w[1].n = n
  BY WireFacts
<1>2. w # <<>>
  BY <1>1
<1>3. SubSeq(w, 1, Len(w)) = w
  <2>1. Len(w) \in 0..Len(w)
    BY <1>1
  <2> DEFINE s == SubSeq(w, 1, Len(w))
  <2>2. s \in Seq(Unit) /\ Len(s) = Len(w) /\ \A i \in 1..Len(w) : s[i] = w[i]
    BY <1>1, <2>1, PrefixType
  <2> HIDE DEF s
  <2>3. s = w
    BY <1>1, <2>2, SeqEqual
  <2> QED BY <2>3 DEF s
<1> QED BY <1>1, <1>2, <1>3 DEF IsWhole, MethodOf

-----------------------------------------------------------------------------
(* One connection: its record, its socket, its history. *)

\* All that the client has asked for has been read and parsed.
Silent(req, l, st) ==
  /\ l.asked = st.built
  /\ req.reqString = <<>> /\ ~req.foundHeaders
  /\ l.inbox = <<>> /\ l.todo = <<>>

\* Of the request w, a units have been read and b have been sent.
Cut(s, l, w, a, b) ==
  /\ a <= b /\ b <= Len(w)
  /\ s = SubSeq(w, 1, a) /\ l.inbox = SubSeq(w, a + 1, b) /\ l.todo = SubSeq(w, b + 1, Len(w))

\* Its latest request is somewhere on its way to the parser.
Asking(req, l, st) ==
  /\ l.asked = st.built + 1 /\ req.response = NULL
  /\ \E k \in Kinds, a \in Nat, b \in Nat :
       Cut(req.reqString, l, Wire(k, l.asked), a, b) /\ Knows(req, k, a)

Talks(req, l, st) == Silent(req, l, st) \/ Asking(req, l, st)

\* The clients wait for their answers, and the server can tell the end of what they ask.
Orderly == ~Pipelining /\ \A k \in Kinds : Framed(k)

\* A request that is being sent, taken apart.
LEMMA AskingFacts ==
  ASSUME Orderly, NEW req, NEW l \in Link, NEW st \in Stream, Asking(req, l, st)
  PROVE  \E k \in Kinds, a \in Nat, b \in Nat, w \in Seq(Unit) :
           /\ w = Wire(k, l.asked) /\ k \in Kind /\ Framed(k) /\ l.asked \in 1..MaxReqs
           /\ Len(w) \in Nat /\ Cut(req.reqString, l, w, a, b) /\ Knows(req, k, a)
<1>1. PICK k \in Kinds, a \in Nat, b \in Nat :
        Cut(req.reqString, l, Wire(k, l.asked), a, b) /\ Knows(req, k, a)
  BY DEF Asking
<1>2. k \in Kind /\ Framed(k)
  BY KindsAssumption DEF Orderly
<1>3. l.asked \in 1..MaxReqs
  BY MaxReqsAssumption DEF Asking, Link, Stream
<1> DEFINE w == Wire(k, l.asked)
<1>4. w \in Seq(Unit)
  BY <1>2, <1>3, WireType
<1>5. Len(w) \in Nat
  BY <1>4, LenProperties
<1>6. w = Wire(k, l.asked)
  OBVIOUS
<1> HIDE DEF w
<1> QED BY <1>1, <1>2, <1>3, <1>4, <1>5, <1>6

\* When findReqEnd sees the end, the request is there from its first unit to its
\* last, and nothing of it is still on its way.
LEMMA CompleteIsWhole ==
  ASSUME Orderly, NEW req \in ReqData, NEW l \in Link, NEW st \in Stream,
         Talks(req, l, st), ReqEnd(req)
  PROVE  /\ Asking(req, l, st) /\ l.inbox = <<>> /\ l.todo = <<>>
         /\ IsWhole(req.reqString)
         /\ MethodOf(req.reqString) = req.reqString[1].kind.method
<1>1. Asking(req, l, st)
  BY DEF Talks, Silent, ReqEnd
<1>2. PICK k \in Kinds, a \in Nat, b \in Nat, w \in Seq(Unit) :
        /\ w = Wire(k, l.asked) /\ k \in Kind /\ Framed(k) /\ l.asked \in 1..MaxReqs
        /\ Len(w) \in Nat /\ Cut(req.reqString, l, w, a, b) /\ Knows(req, k, a)
  BY <1>1, AskingFacts
<1> DEFINE n == Len(w)
<1>3. a <= b /\ b <= n /\ n \in Nat /\ a \in 0..n
  BY <1>2 DEF Cut
<1>4. req.reqString = SubSeq(w, 1, a)
  BY <1>2 DEF Cut
<1>5. a = n
  BY <1>2, <1>3, <1>4, EndIsTheEnd
<1>6. b = n
  BY <1>3, <1>5
<1>7. IsWhole(w) /\ w[1].kind = k /\ MethodOf(w) = k.method /\ SubSeq(w, 1, n) = w
  BY <1>2, WholeRequest
<1>8. SubSeq(w, n + 1, n) = <<>>
  <2>1. SubSeq(w, n + 1, n) \in Seq(Unit) /\ Len(SubSeq(w, n + 1, n)) = n - n
    BY <1>3, CutType, n <= n, n <= Len(w)
  <2> DEFINE e == SubSeq(w, n + 1, n)
  <2> HIDE DEF e
  <2>2. e \in Seq(Unit) /\ Len(e) = 0
    BY <1>3, <2>1 DEF e
  <2>3. e = <<>>
    BY <2>2, EmptySeq
  <2> QED BY <2>3 DEF e
<1>9. l.inbox = SubSeq(w, n + 1, n) /\ l.todo = SubSeq(w, n + 1, n)
  BY <1>2, <1>5, <1>6 DEF Cut
<1> QED BY <1>1, <1>4, <1>5, <1>7, <1>8, <1>9

\* receiveRequest moves the cut, and learns what the new units tell.
LEMMA TalksOnReceive ==
  ASSUME Orderly, NEW req \in ReqData, NEW l \in Link, NEW st \in Stream,
         Talks(req, l, st), l.inbox # <<>>,
         NEW size, size = Minimum(Len(l.inbox), BufferUnits),
         NEW l2, l2.inbox = SubSeq(l.inbox, size + 1, Len(l.inbox)),
         l2.todo = l.todo, l2.asked = l.asked
  PROVE  Asking(Received(req, SubSeq(l.inbox, 1, size)), l2, st)
<1>1. Asking(req, l, st)
  BY DEF Talks, Silent
<1>2. PICK k \in Kinds, a \in Nat, b \in Nat, w \in Seq(Unit) :
        /\ w = Wire(k, l.asked) /\ k \in Kind /\ Framed(k) /\ l.asked \in 1..MaxReqs
        /\ Len(w) \in Nat /\ Cut(req.reqString, l, w, a, b) /\ Knows(req, k, a)
  BY <1>1, AskingFacts
<1>3. /\ a <= b /\ b <= Len(w) /\ req.reqString = SubSeq(w, 1, a)
      /\ l.inbox = SubSeq(w, a + 1, b) /\ l.todo = SubSeq(w, b + 1, Len(w))
  BY <1>2 DEF Cut
<1>4. Len(l.inbox) = b - a
  BY <1>2, <1>3, CutType
<1>5. size \in Nat /\ size <= b - a
  BY <1>3, <1>4, BufferAssumption, SMTT(30) DEF Minimum
<1> DEFINE c    == a + size
           tail == SubSeq(l.inbox, 1, size)
           str  == SubSeq(w, 1, c)
           app  == [req EXCEPT !.reqString = req.reqString \o tail]
<1>6. c \in Nat /\ a <= c /\ c <= b /\ c \in 0..Len(w) /\ a \in 0..c
  <2> DEFINE n == Len(w)
  <2>1. n \in Nat /\ b <= n /\ a \in Nat /\ b \in Nat /\ size \in Nat /\ size <= b - a
    BY <1>2, <1>3, <1>5
  <2> HIDE DEF n
  <2>2. c \in Nat /\ a <= c /\ c <= b /\ c \in 0..n /\ a \in 0..c
    BY <2>1
  <2> QED BY <2>2 DEF n
<1>7. req.reqString \o tail = str /\ l2.inbox = SubSeq(w, c + 1, b)
  <2>1. /\ SubSeq(w, 1, a) \o SubSeq(SubSeq(w, a + 1, b), 1, size) = SubSeq(w, 1, a + size)
        /\ SubSeq(SubSeq(w, a + 1, b), size + 1, b - a) = SubSeq(w, a + size + 1, b)
    <3>1. w \in Seq(Unit) /\ a \in Nat /\ b \in Nat /\ a <= b /\ b <= Len(w)
          /\ size \in Nat /\ size <= b - a
      BY <1>2, <1>3, <1>5
    <3>2. size \in 0..b - a
      BY <3>1
    <3> HIDE DEF c, tail, str, app
    <3> QED BY <3>1, <3>2, UnitsRead, Zenon
  <2>2. l2.inbox = SubSeq(l.inbox, size + 1, b - a)
    BY <1>4
  <2> QED BY <1>3, <2>1, <2>2
<1>8. str \in Seq(Unit)
  BY <1>2, <1>6, PrefixType
<1> HIDE DEF c, tail, str
<1>9. /\ app \in ReqData /\ app.reqString = str /\ app.foundHeaders = req.foundHeaders
      /\ app.method = req.method /\ app.isTransfer = req.isTransfer
      /\ app.isMultipart = req.isMultipart /\ app.response = req.response
  BY <1>7, <1>8 DEF ReqData
<1>10. Received(req, tail) = Scanned(app)
  BY DEF Received
<1> HIDE DEF app
<1>11. Knows(app, k, a)
  BY <1>2, <1>9 DEF Knows
<1>12. Scanned(app).reqString = SubSeq(w, 1, c) /\ Knows(Scanned(app), k, c)
  BY <1>2, <1>6, <1>9, <1>11, ScannedKnows DEF str
<1>13. Scanned(app).response = NULL
  BY <1>1, <1>9, ScannedType DEF Asking
<1>14. Cut(Scanned(app).reqString, l2, w, c, b)
  BY <1>3, <1>6, <1>7, <1>12 DEF Cut
<1>15. Asking(Scanned(app), l2, st)
  BY <1>1, <1>2, <1>6, <1>12, <1>13, <1>14 DEF Asking
<1> QED BY <1>10, <1>15 DEF tail

\* A client that has been answered asks again.
LEMMA TalksOnStart ==
  ASSUME Orderly, NEW req, NEW l \in Link, NEW st \in Stream, Silent(req, l, st),
         req.response = NULL, l.asked < MaxReqs, NEW k \in Kinds,
         NEW l2, l2.asked = l.asked + 1, l2.todo = Wire(k, l.asked + 1), l2.inbox = l.inbox
  PROVE  Asking(req, l2, st)
<1>1. l.asked + 1 \in 1..MaxReqs /\ l2.asked = st.built + 1
  BY MaxReqsAssumption DEF Silent, Link
<1>2. k \in Kind /\ Framed(k)
  BY KindsAssumption DEF Orderly
<1> DEFINE w == Wire(k, l.asked + 1)
<1>3. w \in Seq(Unit) /\ Len(w) \in Nat /\ SubSeq(w, 1, Len(w)) = w
  BY <1>1, <1>2, WireFacts, WholeRequest
<1>4. w = Wire(k, l2.asked) /\ l2.todo = w
  OBVIOUS
<1> HIDE DEF w
<1> DEFINE e == SubSeq(w, 1, 0)
<1>5. e \in Seq(Unit) /\ Len(e) = 0
  BY <1>3, PrefixType, 0 \in 0..Len(w)
<1> HIDE DEF e
<1>6. e = <<>>
  BY <1>5, EmptySeq
<1>7. 0 + 1 = 1 /\ 0 \in Nat /\ 0 <= 0 /\ 0 <= Len(w) /\ ~(0 >= 2)
  BY <1>3
<1>8. Cut(req.reqString, l2, w, 0, 0)
  BY <1>3, <1>4, <1>6, <1>7 DEF Cut, Silent, e
<1>9. Knows(req, k, 0)
  BY <1>7 DEF Knows, Silent
<1> QED BY <1>1, <1>4, <1>7, <1>8, <1>9 DEF Asking

\* The next unit of the request arrives.
LEMMA TalksOnSend ==
  ASSUME Orderly, NEW req, NEW l \in Link, NEW st \in Stream, Talks(req, l, st),
         l.todo # <<>>,
         NEW l2, l2.inbox = Append(l.inbox, Head(l.todo)), l2.todo = Tail(l.todo),
         l2.asked = l.asked
  PROVE  Asking(req, l2, st)
<1>1. Asking(req, l, st)
  BY DEF Talks, Silent
<1>2. PICK k \in Kinds, a \in Nat, b \in Nat, w \in Seq(Unit) :
        /\ w = Wire(k, l.asked) /\ k \in Kind /\ Framed(k) /\ l.asked \in 1..MaxReqs
        /\ Len(w) \in Nat /\ Cut(req.reqString, l, w, a, b) /\ Knows(req, k, a)
  BY <1>1, AskingFacts
<1>3. /\ a <= b /\ b <= Len(w) /\ req.reqString = SubSeq(w, 1, a)
      /\ l.inbox = SubSeq(w, a + 1, b) /\ l.todo = SubSeq(w, b + 1, Len(w))
  BY <1>2 DEF Cut
<1>4. b < Len(w)
  <2>1. SUFFICES ASSUME b = Len(w) PROVE FALSE
    BY <1>2, <1>3
  <2> DEFINE t == l.todo
  <2>2. t \in Seq(Unit) /\ Len(t) = Len(w) - b
    BY <1>2, <1>3, CutType, Len(w) <= Len(w)
  <2> HIDE DEF t
  <2>3. Len(t) = 0
    BY <1>2, <2>1, <2>2
  <2>4. t = <<>>
    BY <2>2, <2>3, EmptySeq
  <2> QED BY <2>4 DEF t
<1>5. /\ l2.inbox = SubSeq(w, a + 1, b + 1) /\ l2.todo = SubSeq(w, (b + 1) + 1, Len(w))
  BY <1>2, <1>3, <1>4, CutSend, (b + 1) + 1 = b + 2
<1>6. a <= b + 1 /\ b + 1 <= Len(w) /\ b + 1 \in Nat
  BY <1>2, <1>3, <1>4
<1>7. Cut(req.reqString, l2, w, a, b + 1)
  BY <1>3, <1>5, <1>6 DEF Cut
<1> QED BY <1>1, <1>2, <1>6, <1>7 DEF Asking

\* Talks reads these fields.
LEMMA TalksKept ==
  ASSUME NEW req, NEW l, NEW st, Talks(req, l, st),
         NEW l2, l2.inbox = l.inbox, l2.todo = l.todo, l2.asked = l.asked
  PROVE  Talks(req, l2, st)
  BY Zenon DEF Talks, Silent, Asking, Cut
-----------------------------------------------------------------------------
(* The steps that touch a conversation, each by what it changes. *)

LEMMA ReceiveEffect ==
  ASSUME TypeOK, Books, ReceiveRequest,
         NEW f, f = Here.fd, NEW size, size = Minimum(Len(link[f].inbox), BufferUnits)
  PROVE  /\ f \in Open /\ f \notin fdToDel /\ idx \in 1..Len(fds) /\ fds[idx].fd = f
         /\ link[f].inbox # <<>>
         /\ Open' = Open /\ \A g \in Open \ {f} : clients'[g] = clients[g] /\ link'[g] = link[g]
         /\ clients'[f] = Received(clients[f], SubSeq(link[f].inbox, 1, size))
         /\ clients'[f].response = clients[f].response
         /\ link'[f].inbox = SubSeq(link[f].inbox, size + 1, Len(link[f].inbox))
         /\ link'[f].todo = link[f].todo /\ link'[f].asked = link[f].asked
         /\ link'[f].peer = link[f].peer
         /\ Len(fds') = Len(fds)
         /\ \A i \in 1..Len(fds) :
              /\ fds'[i].fd = fds[i].fd /\ fds'[i].revents = fds[i].revents
              /\ i # idx => fds'[i].events = fds[i].events
         /\ fds'[idx].events = IF ReqEnd(clients'[f]) THEN fds[idx].events \cup {"OUT"}
                                                      ELSE fds[idx].events
<1>1. f \in Open /\ idx \in 1..Len(fds) /\ Here \in PollFd /\ Here = fds[idx]
  BY HereType, HereOpen DEF ReceiveRequest, VisitsReadable, Scanning, Here
<1>2. f \notin fdToDel
  BY <1>1 DEF ReceiveRequest, VisitsReadable, Scanning, Books
<1>3. /\ Open' = Open /\ \A g \in Open \ {f} : clients'[g] = clients[g]
      /\ clients'[f] = Received(clients[f], SubSeq(link[f].inbox, 1, size))
      /\ clients'[f].response = clients[f].response
  BY <1>1, ReceiveKeepsResponse
<1>4. link' = [link EXCEPT ![f].inbox = SubSeq(link[f].inbox, size + 1, Len(link[f].inbox))]
      /\ link[f].inbox # <<>>
  BY DEF ReceiveRequest
<1>5. /\ \A g \in Open \ {f} : link'[g] = link[g]
      /\ link'[f].inbox = SubSeq(link[f].inbox, size + 1, Len(link[f].inbox))
      /\ link'[f].todo = link[f].todo /\ link'[f].asked = link[f].asked
      /\ link'[f].peer = link[f].peer
  <2> DEFINE s == SubSeq(link[f].inbox, size + 1, Len(link[f].inbox))
  <2>1. f \in Open /\ DOMAIN link = Open /\ link[f] \in Link
    BY <1>1 DEF TypeOK
  <2>2. DOMAIN link[f] = {"inbox", "todo", "asked", "peer", "full"}
    BY <2>1 DEF Link
  <2>3. link' = [link EXCEPT ![f] = [link[f] EXCEPT !.inbox = s]]
    BY <1>4
  <2> HIDE DEF s
  <2>4. /\ \A g \in Open \ {f} : link'[g] = link[g]
        /\ link'[f] = [link[f] EXCEPT !.inbox = s]
    BY <2>1, <2>3
  <2> QED BY <2>2, <2>4 DEF s
<1> DEFINE e == IF ReqEnd(clients'[f]) THEN Here.events \cup {"OUT"} ELSE Here.events
<1>6. /\ ReqEnd(clients'[f]) => fds' = [fds EXCEPT ![idx].events = e]
      /\ ~ReqEnd(clients'[f]) => fds' = fds
  <2>1. fds' = IF ReqEnd(clients'[f])
               THEN [fds EXCEPT ![idx].events = Here.events \cup {"OUT"}] ELSE fds
    BY <1>1, <1>3 DEF ReceiveRequest
  <2> QED BY <2>1
<1>7. e \in SUBSET {"IN", "OUT"} /\ (~ReqEnd(clients'[f]) => e = fds[idx].events)
      /\ fds \in Seq(PollFd)
  BY <1>1 DEF PollFd, TypeOK
<1>8. e = IF ReqEnd(clients'[f]) THEN fds[idx].events \cup {"OUT"} ELSE fds[idx].events
  BY <1>1
<1> HIDE DEF e
<1>9. /\ Len(fds') = Len(fds)
      /\ \A i \in 1..Len(fds) :
           /\ fds'[i].fd = fds[i].fd /\ fds'[i].revents = fds[i].revents
           /\ fds'[i].events = IF i = idx THEN e ELSE fds[i].events
  <2>1. CASE ReqEnd(clients'[f])
    <3>1. fds' = [fds EXCEPT ![idx].events = e]
      BY <1>6, <2>1
    <3> QED BY <1>1, <1>7, <3>1, EventsWritten
  <2>2. CASE ~ReqEnd(clients'[f])
    BY <1>6, <1>7, <2>2
  <2> QED BY <2>1, <2>2
<1> QED BY <1>1, <1>2, <1>3, <1>4, <1>5, <1>8, <1>9, Zenon

\* What sendResponse makes of the request and of its entry, whatever send() returns.
LEMMA WriteEffect ==
  ASSUME TypeOK, Books, WriteInterest, SendResponse \/ SendFails, NEW f, f = Here.fd
  PROVE  \E req \in Prepared(f), finished \in BOOLEAN :
         /\ f \in Open /\ f \notin fdToDel /\ idx \in 1..Len(fds) /\ fds[idx].fd = f
         /\ "OUT" \in fds[idx].events /\ Servable(f)
         /\ Open' = Open
         /\ \A g \in Open \ {f} : /\ clients'[g] = clients[g] /\ link'[g] = link[g]
                                  /\ stream'[g] = stream[g]
         /\ clients'[f].reqString = req.reqString /\ clients'[f].foundHeaders = req.foundHeaders
         /\ clients'[f].response = IF finished THEN NULL ELSE req.response
         /\ req.response # NULL
         /\ link'[f].inbox = link[f].inbox /\ link'[f].todo = link[f].todo
         /\ link'[f].asked = link[f].asked /\ link'[f].peer = link[f].peer
         /\ stream'[f].built = IF clients[f].response = NULL THEN stream[f].built + 1
                               ELSE stream[f].built
         /\ Len(fds') = Len(fds)
         /\ \A i \in 1..Len(fds) :
              /\ fds'[i].fd = fds[i].fd /\ fds'[i].revents = fds[i].revents
              /\ i # idx => fds'[i].events = fds[i].events
         /\ fds'[idx].events = IF finished THEN {"IN"} ELSE fds[idx].events
<1>1. /\ f \in Open /\ f \notin fdToDel /\ idx \in 1..Len(fds) /\ Here \in PollFd
      /\ Here = fds[idx] /\ pc = "scan" /\ "OUT" \in Here.revents /\ f # Listener
  <2>1. VisitsWritable
    BY DEF SendResponse, SendFails
  <2> QED BY <2>1, HereType, WritableIsOpen, SMTT(30) DEF VisitsWritable, Scanning, Here
<1>2. "OUT" \in fds[idx].events /\ idx >= idx /\ fds \in Seq(PollFd)
  BY <1>1 DEF WriteInterest, TypeOK
<1>3. /\ stream[f] \in Stream /\ link[f] \in Link /\ clients[f] \in ReqData
      /\ DOMAIN stream = Open /\ DOMAIN link = Open
  BY <1>1 DEF TypeOK
<1>4. ASSUME NEW req \in Prepared(f)
      PROVE  /\ req \in ReqData /\ req.response # NULL
             /\ Owed(stream[f], clients[f].response = NULL, req.response) \in Stream
             /\ Owed(stream[f], clients[f].response = NULL, req.response).built
                  = IF clients[f].response = NULL THEN stream[f].built + 1 ELSE stream[f].built
  <2>1. /\ req \in ReqData /\ req.response # NULL
        /\ [chunked |-> req.response.chunked, ends |-> req.response.ends] \in Shapes
    BY <1>1, <1>4, PreparedType
  <2> DEFINE r == req.response
  <2>2. r.ends[Len(r.ends)] \in Nat
    <3>1. Len(r.ends) \in Nat \ {0} /\ \A i \in 1..Len(r.ends) : r.ends[i] \in Nat
      BY <2>1, ShapeFacts
    <3>2. Len(r.ends) \in 1..Len(r.ends)
      BY <3>1
    <3> HIDE DEF r
    <3> QED BY <3>1, <3>2
  <2> HIDE DEF r
  <2>3. Owed(stream[f], clients[f].response = NULL, r) \in Stream
    BY <1>3, <2>2, OwedType
  <2>4. Owed(stream[f], clients[f].response = NULL, r).built
           = IF clients[f].response = NULL THEN stream[f].built + 1 ELSE stream[f].built
    BY <1>3 DEF Owed, Stream
  <2> QED BY <2>1, <2>3, <2>4 DEF r
<1>5. CASE SendResponse
  <2>1. PICK req \in Prepared(f) :
          \E n \in Accepted(Piece(req).size), finished \in Finished(req) : Sends(f, req, n, finished)
    BY <1>5, SendEffect
  <2>2. PICK n \in Accepted(Piece(req).size), finished \in Finished(req) : Sends(f, req, n, finished)
    BY <2>1
  <2>3. finished \in BOOLEAN
    BY DEF Finished
  <2> DEFINE p  == Piece(req)
             st == Owed(stream[f], clients[f].response = NULL, req.response)
             q  == IF finished THEN NULL ELSE req.response
             e  == EventsAfter(finished)
  <2>4. /\ req \in ReqData /\ req.response # NULL /\ st \in Stream
        /\ st.built = IF clients[f].response = NULL THEN stream[f].built + 1 ELSE stream[f].built
    BY <1>4
  <2>5. /\ clients' = [clients EXCEPT ![f] =
             [req EXCEPT !.responseStr = p.from + n, !.responseSize = p.size - n,
                         !.chunkInd = p.chunkInd, !.response = q]]
        /\ stream' = [stream EXCEPT ![f] = Sent(st, req.response, p, n)]
        /\ fds' = [fds EXCEPT ![idx].events = e]
    BY <2>2 DEF Sends
  <2>6. e \in SUBSET {"IN", "OUT"} /\ e = IF finished THEN {"IN"} ELSE fds[idx].events
    BY <1>1 DEF EventsAfter, PollFd
  <2>7. Sent(st, req.response, p, n).built = st.built
    <3> HIDE DEF st, p
    <3> QED BY <2>4 DEF Sent, Stream
  <2>8. PICK full : link' = [link EXCEPT ![f].full = full]
    BY <1>5 DEF SendResponse
  <2> HIDE DEF p, st, q, e
  <2>9. /\ Open' = Open /\ \A g \in Open \ {f} : clients'[g] = clients[g]
        /\ clients'[f].reqString = req.reqString /\ clients'[f].foundHeaders = req.foundHeaders
        /\ clients'[f].response = q
    BY <1>1, <2>4, <2>5 DEF Open, ReqData
  <2>10. /\ \A g \in Open \ {f} : stream'[g] = stream[g]
         /\ stream'[f].built = st.built
    BY <1>1, <1>3, <2>5, <2>7
  <2>11. /\ \A g \in Open \ {f} : link'[g] = link[g]
         /\ link'[f].inbox = link[f].inbox /\ link'[f].todo = link[f].todo
         /\ link'[f].asked = link[f].asked /\ link'[f].peer = link[f].peer
    BY <1>1, <1>3, <2>8 DEF Link
  <2>12. /\ Len(fds') = Len(fds)
         /\ \A i \in 1..Len(fds) :
              /\ fds'[i].fd = fds[i].fd /\ fds'[i].revents = fds[i].revents
              /\ fds'[i].events = IF i = idx THEN e ELSE fds[i].events
    BY <1>1, <1>2, <2>5, <2>6, EventsWritten
  <2>13. Servable(f)
    BY <1>5 DEF SendResponse
  <2> QED BY <1>1, <1>2, <2>3, <2>4, <2>6, <2>9, <2>10, <2>11, <2>12, <2>13 DEF q
<1>6. CASE SendFails
  <2>1. PICK req \in Prepared(f) :
          /\ clients' = [clients EXCEPT ![f] =
               [req EXCEPT !.responseStr = Piece(req).from - 1,
                           !.responseSize = Piece(req).size + 1,
                           !.chunkInd = Piece(req).chunkInd]]
          /\ stream' = [stream EXCEPT ![f] =
               Owed(stream[f], clients[f].response = NULL, req.response)]
    BY <1>6 DEF SendFails
  <2> DEFINE st == Owed(stream[f], clients[f].response = NULL, req.response)
  <2>2. /\ req \in ReqData /\ req.response # NULL /\ st \in Stream
        /\ st.built = IF clients[f].response = NULL THEN stream[f].built + 1 ELSE stream[f].built
    BY <1>4
  <2>3. stream' = [stream EXCEPT ![f] = st]
    BY <2>1
  <2> HIDE DEF st
  <2>4. /\ Open' = Open /\ \A g \in Open \ {f} : clients'[g] = clients[g]
        /\ clients'[f].reqString = req.reqString /\ clients'[f].foundHeaders = req.foundHeaders
        /\ clients'[f].response = req.response
    BY <1>1, <2>1, <2>2 DEF Open, ReqData
  <2>5. /\ \A g \in Open \ {f} : stream'[g] = stream[g]
        /\ stream'[f].built = st.built
    BY <1>1, <1>3, <2>3
  <2>6. fds' = fds /\ link' = link /\ Servable(f)
    BY <1>6 DEF SendFails
  <2>7. FALSE \in BOOLEAN
    OBVIOUS
  <2> QED BY <1>1, <1>2, <2>2, <2>4, <2>5, <2>6, <2>7
<1> QED BY <1>5, <1>6

-----------------------------------------------------------------------------
(* The inductive invariant, part by part. *)

Dialogue == \A f \in Open : Talks(clients[f], link[f], stream[f])

\* The loop waits to write where a Response is under way or a request complete.
Prompt(e, req) == /\ ReqEnd(req) => "OUT" \in e.events
                  /\ "OUT" \in e.events => req.response # NULL \/ ReqEnd(req)
Ready == \A i \in 1..Len(fds) : fds[i].fd # Listener => Prompt(fds[i], clients[fds[i].fd])

\* What sendResponse goes on with has been taken off the connection.
LEMMA TalksOnWrite ==
  ASSUME Orderly, TypeOK, NEW f \in Open, NEW req \in Prepared(f),
         Talks(clients[f], link[f], stream[f]),
         clients[f].response = NULL => ReqEnd(clients[f])
  PROVE  /\ req.reqString = <<>> /\ ~req.foundHeaders
         /\ link[f].inbox = <<>> /\ link[f].todo = <<>>
         /\ link[f].asked = IF clients[f].response = NULL THEN stream[f].built + 1
                                                          ELSE stream[f].built
<1>1. clients[f] \in ReqData /\ link[f] \in Link /\ stream[f] \in Stream
  BY DEF TypeOK
<1>2. CASE clients[f].response # NULL
  <2>1. Silent(clients[f], link[f], stream[f])
    BY <1>2 DEF Talks, Asking
  <2>2. req = clients[f]
    BY <1>2 DEF Prepared
  <2> QED BY <1>2, <2>1, <2>2 DEF Silent
<1>3. CASE clients[f].response = NULL
  <2>1. /\ Asking(clients[f], link[f], stream[f])
        /\ link[f].inbox = <<>> /\ link[f].todo = <<>>
    BY <1>1, <1>3, CompleteIsWhole
  <2>2. PICK r : req = [Parsed(clients[f]) EXCEPT !.response = r]
    BY <1>3 DEF Prepared
  <2>3. req.reqString = <<>> /\ ~req.foundHeaders
    BY <1>1, <2>2 DEF Parsed, ReqData
  <2> QED BY <1>3, <2>1, <2>3 DEF Asking
<1> QED BY <1>2, <1>3

\* The entry of a descriptor other than the one visited belongs to another connection.
LEMMA OtherEntry ==
  ASSUME TypeOK, Books, idx \in 1..Len(fds), NEW i \in 1..Len(fds), i # idx,
         fds[i].fd # Listener
  PROVE  fds[i].fd \in Open \ {fds[idx].fd}
  BY DEF Books

LEMMA DialogueOnReceive ==
  ASSUME Orderly, TypeOK, Books, Dialogue, Ready, ReceiveRequest
  PROVE  Dialogue' /\ Ready'
<1> DEFINE f    == Here.fd
           size == Minimum(Len(link[f].inbox), BufferUnits)
<1>1. /\ f \in Open /\ idx \in 1..Len(fds) /\ fds[idx].fd = f
      /\ link[f].inbox # <<>>
      /\ Open' = Open /\ \A g \in Open \ {f} : clients'[g] = clients[g] /\ link'[g] = link[g]
      /\ clients'[f] = Received(clients[f], SubSeq(link[f].inbox, 1, size))
      /\ clients'[f].response = clients[f].response
      /\ link'[f].inbox = SubSeq(link[f].inbox, size + 1, Len(link[f].inbox))
      /\ link'[f].todo = link[f].todo /\ link'[f].asked = link[f].asked
      /\ Len(fds') = Len(fds)
      /\ \A i \in 1..Len(fds) :
           fds'[i].fd = fds[i].fd /\ (i # idx => fds'[i].events = fds[i].events)
      /\ fds'[idx].events = IF ReqEnd(clients'[f]) THEN fds[idx].events \cup {"OUT"}
                                                   ELSE fds[idx].events
  BY ReceiveEffect
<1>2. stream' = stream /\ size = Minimum(Len(link[f].inbox), BufferUnits)
  BY DEF ReceiveRequest
<1>3. /\ clients[f] \in ReqData /\ link[f] \in Link /\ stream[f] \in Stream
      /\ Talks(clients[f], link[f], stream[f])
  BY <1>1 DEF TypeOK, Dialogue
<1>4. f # Listener
  BY DEF ReceiveRequest, VisitsReadable
<1> HIDE DEF f, size
<1>5. Asking(clients'[f], link'[f], stream[f])
  BY <1>1, <1>2, <1>3, TalksOnReceive, ZenonT(40)
<1>6. Dialogue'
  BY <1>1, <1>2, <1>5 DEF Dialogue, Talks
<1>7. ~ReqEnd(clients[f]) /\ clients[f].response = NULL
  <2>1. ~ReqEnd(clients[f])
    BY <1>1, <1>3, CompleteIsWhole
  <2> QED BY <1>1, <1>5, <2>1 DEF Asking
<1>8. "OUT" \notin fds[idx].events
  BY <1>1, <1>4, <1>7 DEF Ready, Prompt
<1>9. ASSUME NEW i \in 1..Len(fds), fds[i].fd # Listener
      PROVE  Prompt(fds'[i], clients'[fds[i].fd])
  <2>1. CASE i = idx
    BY <1>1, <1>8, <2>1 DEF Prompt
  <2>2. CASE i # idx
    <3>1. fds[i].fd \in Open \ {f}
      BY <1>1, <1>9, <2>2, OtherEntry
    <3>2. Prompt(fds[i], clients[fds[i].fd])
      BY <1>9 DEF Ready
    <3> QED BY <1>1, <2>2, <3>1, <3>2 DEF Prompt
  <2> QED BY <2>1, <2>2
<1>10. Ready'
  BY <1>1, <1>9 DEF Ready
<1> QED BY <1>6, <1>10

LEMMA DialogueOnWrite ==
  ASSUME Orderly, TypeOK, Books, WriteInterest, Dialogue, Ready, SendResponse \/ SendFails
  PROVE  Dialogue' /\ Ready'
<1> DEFINE f == Here.fd
<1>1. PICK req \in Prepared(f), finished \in BOOLEAN :
         /\ f \in Open /\ f \notin fdToDel /\ idx \in 1..Len(fds) /\ fds[idx].fd = f
         /\ "OUT" \in fds[idx].events /\ Servable(f)
         /\ Open' = Open
         /\ \A g \in Open \ {f} : /\ clients'[g] = clients[g] /\ link'[g] = link[g]
                                  /\ stream'[g] = stream[g]
         /\ clients'[f].reqString = req.reqString /\ clients'[f].foundHeaders = req.foundHeaders
         /\ clients'[f].response = IF finished THEN NULL ELSE req.response
         /\ req.response # NULL
         /\ link'[f].inbox = link[f].inbox /\ link'[f].todo = link[f].todo
         /\ link'[f].asked = link[f].asked /\ link'[f].peer = link[f].peer
         /\ stream'[f].built = IF clients[f].response = NULL THEN stream[f].built + 1
                               ELSE stream[f].built
         /\ Len(fds') = Len(fds)
         /\ \A i \in 1..Len(fds) :
              /\ fds'[i].fd = fds[i].fd /\ fds'[i].revents = fds[i].revents
              /\ i # idx => fds'[i].events = fds[i].events
         /\ fds'[idx].events = IF finished THEN {"IN"} ELSE fds[idx].events
  BY WriteEffect
<1>2. f # Listener
  BY DEF SendResponse, SendFails, VisitsWritable
<1> HIDE DEF f
<1>3. clients[f].response = NULL => ReqEnd(clients[f])
  BY <1>1, <1>2 DEF Ready, Prompt
<1>4. Talks(clients[f], link[f], stream[f])
  BY <1>1 DEF Dialogue
<1>5. /\ req.reqString = <<>> /\ ~req.foundHeaders
      /\ link[f].inbox = <<>> /\ link[f].todo = <<>>
      /\ link[f].asked = IF clients[f].response = NULL THEN stream[f].built + 1
                                                       ELSE stream[f].built
  BY <1>1, <1>3, <1>4, TalksOnWrite
<1>6. Silent(clients'[f], link'[f], stream'[f])
  BY <1>1, <1>5 DEF Silent
<1>7. Dialogue'
  BY <1>1, <1>6 DEF Dialogue, Talks
<1>8. ~ReqEnd(clients'[f])
  BY <1>6 DEF Silent, ReqEnd
<1>9. ASSUME NEW i \in 1..Len(fds), fds[i].fd # Listener
      PROVE  Prompt(fds'[i], clients'[fds[i].fd])
  <2>1. CASE i = idx
    BY <1>1, <1>8, <2>1 DEF Prompt
  <2>2. CASE i # idx
    <3>1. fds[i].fd \in Open \ {f}
      BY <1>1, <1>9, <2>2, OtherEntry
    <3>2. Prompt(fds[i], clients[fds[i].fd])
      BY <1>9 DEF Ready
    <3> QED BY <1>1, <2>2, <3>1, <3>2 DEF Prompt
  <2> QED BY <2>1, <2>2
<1>10. Ready'
  BY <1>1, <1>9 DEF Ready
<1> QED BY <1>7, <1>10

LEMMA DialogueOnAccept ==
  ASSUME TypeOK, Books, Dialogue, Ready, AcceptConnection
  PROVE  Dialogue' /\ Ready'
<1>1. PICK f \in Fds \ Open :
        /\ fds' = Append(fds, NewPollFd(f))
        /\ clients' = With(clients, f, InitReqDataStruct)
        /\ link' = With(link, f, NewLink)
        /\ stream' = With(stream, f, NewStream)
  BY DEF AcceptConnection
<1>2. fds \in Seq(PollFd) /\ Len(fds) \in Nat
  BY LenProperties DEF TypeOK
<1>3. /\ Open' = Open \cup {f} /\ clients'[f] = InitReqDataStruct
      /\ link'[f] = NewLink /\ stream'[f] = NewStream
      /\ \A g \in Open : /\ clients'[g] = clients[g] /\ link'[g] = link[g]
                         /\ stream'[g] = stream[g]
  BY <1>1 DEF With, Open, TypeOK
<1>4. Silent(clients'[f], link'[f], stream'[f])
  BY <1>3 DEF Silent, InitReqDataStruct, NewLink, NewStream
<1>5. Dialogue'
  BY <1>3, <1>4 DEF Dialogue, Talks
<1>6. /\ Len(fds') = Len(fds) + 1
      /\ \A i \in 1..Len(fds) : fds'[i] = fds[i]
      /\ fds'[Len(fds) + 1] = NewPollFd(f)
  BY <1>1, <1>2
<1>7. \A i \in 1..Len(fds) : fds[i].fd # Listener => fds[i].fd \in Open
  BY DEF Books
<1>8. NewPollFd(f).fd = f /\ Prompt(NewPollFd(f), clients'[f])
  BY <1>3 DEF NewPollFd, Prompt, ReqEnd, InitReqDataStruct
<1>9. ASSUME NEW i \in 1..Len(fds'), fds'[i].fd # Listener
      PROVE  Prompt(fds'[i], clients'[fds'[i].fd])
  <2>1. CASE i \in 1..Len(fds)
    BY <1>3, <1>6, <1>7, <1>9, <2>1 DEF Ready
  <2>2. CASE i = Len(fds) + 1
    BY <1>6, <1>8, <2>2
  <2> QED BY <1>2, <1>6, <2>1, <2>2
<1>10. Ready'
  BY <1>9 DEF Ready
<1> QED BY <1>5, <1>10

LEMMA DialogueOnClose ==
  ASSUME TypeOK, Books, Dialogue, Ready, CloseConnection
  PROVE  Dialogue' /\ Ready'
<1>1. idx \in 1..Len(fds) /\ fds \in Seq(PollFd) /\ Len(fds) \in Nat /\ idx \in Nat
  BY HereType, LenProperties DEF CloseConnection, TypeOK
<1>2. /\ Len(fds') = Len(fds) - 1
      /\ \A j \in 1..(Len(fds) - 1) : fds'[j] = IF j < idx THEN fds[j] ELSE fds[j + 1]
  BY <1>1, EraseProperties DEF CloseConnection
<1>3. /\ Open' = Open \ {Here.fd}
      /\ \A g \in Open \ {Here.fd} : /\ clients'[g] = clients[g] /\ link'[g] = link[g]
                                     /\ stream'[g] = stream[g]
  BY DEF CloseConnection, Without, Open, TypeOK
<1>4. Dialogue'
  BY <1>3 DEF Dialogue
<1>5. ASSUME NEW i \in 1..Len(fds'), fds'[i].fd # Listener
      PROVE  Prompt(fds'[i], clients'[fds'[i].fd])
  <2>1. PICK j \in 1..Len(fds) : j # idx /\ fds'[i] = fds[j]
    <3>1. CASE i < idx
      BY <1>1, <1>2, <3>1
    <3>2. CASE ~(i < idx)
      <4>1. i + 1 \in 1..Len(fds) /\ i + 1 # idx /\ fds'[i] = fds[i + 1]
        BY <1>1, <1>2, <3>2
      <4> QED BY <4>1
    <3> QED BY <3>1, <3>2
  <2>2. fds[j].fd \in Open \ {Here.fd}
    BY <1>1, <1>5, <2>1, OtherEntry DEF Here
  <2> QED BY <1>3, <1>5, <2>1, <2>2 DEF Ready
<1>6. Ready'
  BY <1>5 DEF Ready
<1> QED BY <1>4, <1>6

\* poll() has reported what is still the case when the entry is visited.
Reported ==
  pc = "scan" =>
    \A i \in 1..Len(fds) : i >= idx /\ fds[i].fd # Listener =>
      LET l == link[fds[i].fd]
      IN  /\ "IN" \in fds[i].revents => l.inbox # <<>> \/ l.peer # "up"
          /\ "ERR" \in fds[i].revents => l.peer = "rst"

\* What a client does never takes back what poll() has reported of it.
LEMMA ClientEffect ==
  ASSUME TypeOK, ClientStep
  PROVE  /\ UNCHANGED server /\ stream' = stream /\ Open' = Open
         /\ \A g \in Open : /\ link[g].inbox # <<>> => link'[g].inbox # <<>>
                            /\ link'[g].peer = "up" => link[g].peer = "up"
                            /\ link[g].peer = "rst" => link'[g].peer = "rst"
<1>1. UNCHANGED server /\ stream' = stream
  BY DEF ClientStep, Connect, StartRequest, ClientSend, ClientRead, ClientClose
<1>2. CASE link' = link
  BY <1>1, <1>2 DEF server, Open
<1>3. ASSUME NEW f \in Open, StartRequest(f) \/ ClientSend(f) \/ ClientRead(f) \/ ClientClose(f),
             NEW g \in Open
      PROVE  /\ link[g].inbox # <<>> => link'[g].inbox # <<>>
             /\ link'[g].peer = "up" => link[g].peer = "up"
             /\ link[g].peer = "rst" => link'[g].peer = "rst"
  <2>1. link[f] \in Link /\ DOMAIN link = Open /\ link[f].inbox \in Seq(Unit)
    BY DEF TypeOK, Link
  <2>2. CASE StartRequest(f)
    <3>1. PICK k \in Kinds :
            link' = [link EXCEPT ![f].asked = @ + 1, ![f].todo = Wire(k, link[f].asked + 1)]
      BY <2>2 DEF StartRequest
    <3>2. link'[g].inbox = link[g].inbox /\ link'[g].peer = link[g].peer
      BY <2>1, <3>1 DEF Link
    <3> QED BY <3>2
  <2>3. CASE ClientSend(f)
    <3> DEFINE x == Append(link[f].inbox, Head(link[f].todo))
    <3>1. x # <<>>
      <4>1. link[f].todo \in Seq(Unit) /\ link[f].todo # <<>>
        BY <2>1, <2>3 DEF Link, ClientSend
      <4>2. Head(link[f].todo) \in Unit
        BY <4>1, HeadTailProperties
      <4>3. x \in Seq(Unit) /\ Len(x) = Len(link[f].inbox) + 1 /\ Len(link[f].inbox) \in Nat
        BY <2>1, <4>2, AppendProperties, LenProperties
      <4> HIDE DEF x
      <4> QED BY <4>3, EmptySeq
    <3>2. link' = [link EXCEPT ![f].inbox = x, ![f].todo = Tail(@)]
      BY <2>3 DEF ClientSend
    <3> HIDE DEF x
    <3>3. /\ link'[g].peer = link[g].peer
          /\ link'[g].inbox = IF g = f THEN x ELSE link[g].inbox
      BY <2>1, <3>2 DEF Link
    <3> QED BY <3>1, <3>3
  <2>4. CASE ClientRead(f) \/ ClientClose(f)
    <3>1. PICK l \in {[link[f] EXCEPT !.full = FALSE], [link[f] EXCEPT !.peer = "fin"],
                      [link[f] EXCEPT !.peer = "rst"]} :
            /\ link' = [link EXCEPT ![f] = l]
            /\ l.peer = "up" => link[f].peer = "up"
            /\ link[f].peer = "rst" => l.peer = "rst"
      <4>1. CASE ClientRead(f)
        BY <2>1, <4>1 DEF ClientRead, Link
      <4>2. CASE ClientClose(f)
        BY <2>1, <4>2 DEF ClientClose, Link
      <4> QED BY <2>4, <4>1, <4>2
    <3>2. l.inbox = link[f].inbox
      BY <2>1, <3>1 DEF Link
    <3> QED BY <2>1, <3>1, <3>2
  <2> QED BY <1>3, <2>2, <2>3, <2>4
<1>4. CASE Connect
  BY <1>2, <1>4 DEF Connect
<1> QED BY <1>1, <1>3, <1>4 DEF ClientStep, server, Open

\* A chunk that is still to be sent begins before the end of its Response.
LEMMA StartBeforeEnd ==
  ASSUME NEW r, [chunked |-> r.chunked, ends |-> r.ends] \in Shapes,
         NEW i \in Nat, ~(i >= Len(r.ends))
  PROVE  /\ PieceStart(r, i) \in Nat /\ r.ends[Len(r.ends)] \in Nat
         /\ PieceStart(r, i) < r.ends[Len(r.ends)]
<1>1. /\ Len(r.ends) \in Nat \ {0}
      /\ \A j \in 0..(Len(r.ends) - 1) : /\ PieceStart(r, j) \in Nat
                                       /\ PieceStart(r, j) < r.ends[j + 1]
                                       /\ r.ends[j + 1] <= r.ends[Len(r.ends)]
      /\ \A j \in 1..Len(r.ends) : r.ends[j] \in Nat
  BY ShapeFacts
<1>2. i \in 0..(Len(r.ends) - 1) /\ i + 1 \in 1..Len(r.ends) /\ Len(r.ends) \in 1..Len(r.ends)
  BY <1>1
<1> QED BY <1>1, <1>2

LEMMA DialogueOnClient ==
  ASSUME Orderly, TypeOK, StreamSound, Dialogue, ClosedWithCause, ClientStep
  PROVE  Dialogue'
<1>1. UNCHANGED server /\ stream' = stream /\ Open' = Open /\ clients' = clients
  BY ClientEffect DEF server
<1>2. SUFFICES ASSUME NEW g \in Open PROVE Talks(clients[g], link'[g], stream[g])
  BY <1>1 DEF Dialogue
<1>3. /\ clients[g] \in ReqData /\ link[g] \in Link /\ stream[g] \in Stream
      /\ Talks(clients[g], link[g], stream[g]) /\ DOMAIN link = Open
  BY DEF TypeOK, Dialogue
<1>4. ASSUME NEW f \in Open, StartRequest(f)
      PROVE  Talks(clients[g], link'[g], stream[g])
  <2>1. PICK k \in Kinds :
          link' = [link EXCEPT ![f].asked = @ + 1, ![f].todo = Wire(k, link[f].asked + 1)]
    BY <1>4 DEF StartRequest
  <2>2. CASE g # f
    BY <1>3, <2>1, <2>2
  <2>3. CASE g = f
    <3>1. /\ link[g].peer = "up" /\ link[g].asked < MaxReqs
          /\ stream[g].built = link[g].asked /\ stream[g].sent = stream[g].due
      BY <1>4, <2>3 DEF StartRequest, Answered, Orderly
    <3>2. Silent(clients[g], link[g], stream[g])
      BY <1>3, <3>1 DEF Talks, Asking, Stream
    <3>3. g \notin fdToDel
      BY <3>1, <3>2 DEF ClosedWithCause, IsWhole, Silent
    <3>4. clients[g].response = NULL
      <4> DEFINE r == clients[g].response
                 i == clients[g].chunkInd
      <4>1. SUFFICES ASSUME r # NULL PROVE FALSE
        OBVIOUS
      <4> DEFINE size == clients[g].responseSize
                 last == r.ends[Len(r.ends)]
                 done == PieceStart(r, i)
      <4>2. /\ i < Len(r.ends)
            /\ stream[g].sent + size + (last - done) <= stream[g].due
        BY <3>3, <4>1 DEF StreamSound
      <4>3. [chunked |-> r.chunked, ends |-> r.ends] \in Shapes /\ i \in Nat /\ size \in Nat
            /\ stream[g].sent \in Nat
        BY <1>3, <4>1 DEF TypeOK, ReqData, Stream
      <4>4. ~(i >= Len(r.ends))
        <5>1. Len(r.ends) \in Nat
          BY <4>3, ShapeFacts
        <5> QED BY <4>2, <4>3, <5>1
      <4> HIDE DEF r, i
      <4>5. done \in Nat /\ done < last /\ last \in Nat
        BY <4>3, <4>4, StartBeforeEnd
      <4> HIDE DEF size, last, done
      <4> QED BY <3>1, <4>2, <4>3, <4>5
    <3>5. /\ link'[g].asked = link[g].asked + 1 /\ link'[g].inbox = link[g].inbox
          /\ link'[g].todo = Wire(k, link[g].asked + 1)
      BY <1>3, <2>1, <2>3 DEF Link
    <3>6. Asking(clients[g], link'[g], stream[g])
      BY <1>3, <3>1, <3>2, <3>4, <3>5, TalksOnStart
    <3> QED BY <3>6 DEF Talks
  <2> QED BY <2>2, <2>3
<1>5. ASSUME NEW f \in Open, ClientSend(f)
      PROVE  Talks(clients[g], link'[g], stream[g])
  <2>1. /\ link' = [link EXCEPT ![f].inbox = Append(@, Head(link[f].todo)), ![f].todo = Tail(@)]
        /\ link[f].todo # <<>>
    BY <1>5 DEF ClientSend
  <2>2. CASE g # f
    BY <1>3, <2>1, <2>2
  <2>3. CASE g = f
    <3>1. /\ link'[g].inbox = Append(link[g].inbox, Head(link[g].todo))
          /\ link'[g].todo = Tail(link[g].todo) /\ link'[g].asked = link[g].asked
      BY <1>3, <2>1, <2>3 DEF Link
    <3>2. Asking(clients[g], link'[g], stream[g])
      BY <1>3, <2>1, <2>3, <3>1, TalksOnSend
    <3> QED BY <3>2 DEF Talks
  <2> QED BY <2>2, <2>3
<1>6. ASSUME NEW f \in Open, ClientRead(f) \/ ClientClose(f)
      PROVE  Talks(clients[g], link'[g], stream[g])
  <2>1. PICK l \in {[link[f] EXCEPT !.full = FALSE], [link[f] EXCEPT !.peer = "fin"],
                    [link[f] EXCEPT !.peer = "rst"]} : link' = [link EXCEPT ![f] = l]
    BY <1>6 DEF ClientRead, ClientClose
  <2>2. /\ link'[g].inbox = link[g].inbox /\ link'[g].todo = link[g].todo
        /\ link'[g].asked = link[g].asked
    BY <1>3, <2>1 DEF TypeOK, Link
  <2> QED BY <1>3, <2>2, TalksKept
<1>7. CASE Connect
  BY <1>3, <1>7 DEF Connect
<1> QED BY <1>4, <1>5, <1>6, <1>7 DEF ClientStep

LEMMA NextReported ==
  ASSUME TypeOK, Books, WriteInterest, Reported, [Next]_vars
  PROVE  Reported'
<1>1. idx \in Nat /\ Len(fds) \in Nat /\ fds \in Seq(PollFd)
  BY LenProperties DEF TypeOK
<1>2. \A i \in 1..Len(fds) : fds[i].fd # Listener => fds[i].fd \in Open
  BY DEF Books
<1>3. CASE pc' # "scan"
  BY <1>3 DEF Reported
<1>4. CASE /\ UNCHANGED <<fds, link>>
           /\ pc' = "scan" => pc = "scan" /\ idx' \in Nat /\ idx' >= idx
  BY <1>1, <1>4 DEF Reported
<1>5. CASE Poll
  <2>1. /\ Len(fds') = Len(fds)
        /\ \A i \in 1..Len(fds) : fds'[i].fd = fds[i].fd
    BY <1>5, PollEffect
  <2>2. \A i \in 1..Len(fds) : fds'[i].revents = Revents(fds[i])
    <3>1. \A i \in 1..Len(fds) : fds[i] \in PollFd
      BY <1>1, ElementOfSeq
    <3> DEFINE e(i) == [fds[i] EXCEPT !.revents = Revents(fds[i])]
    <3>2. \A i \in 1..Len(fds) : e(i).revents = Revents(fds[i])
      BY <3>1 DEF PollFd
    <3>3. fds' = [i \in 1..Len(fds) |-> e(i)]
      BY <1>5 DEF Poll
    <3> HIDE DEF e
    <3> QED BY <3>2, <3>3
  <2>3. ASSUME NEW i \in 1..Len(fds), fds[i].fd # Listener
        PROVE  /\ "IN" \in Revents(fds[i]) =>
                    link[fds[i].fd].inbox # <<>> \/ link[fds[i].fd].peer # "up"
               /\ "ERR" \in Revents(fds[i]) => link[fds[i].fd].peer = "rst"
    BY <2>3 DEF Revents
  <2>4. link' = link
    BY <1>5 DEF Poll
  <2> QED BY <2>1, <2>2, <2>3, <2>4 DEF Reported
<1>6. CASE AcceptConnection
  <2>1. PICK f \in Fds \ Open : /\ fds' = Append(fds, NewPollFd(f))
                                /\ link' = With(link, f, NewLink)
    BY <1>6 DEF AcceptConnection
  <2>2. /\ Len(fds') = Len(fds) + 1
        /\ \A i \in 1..Len(fds) : fds'[i] = fds[i]
        /\ fds'[Len(fds) + 1].revents = {}
    BY <1>1, <2>1 DEF NewPollFd
  <2>3. \A g \in Open : link'[g] = link[g]
    BY <2>1 DEF With, TypeOK
  <2>4. pc = "scan" /\ idx' = idx + 1
    BY <1>6 DEF AcceptConnection, VisitsListener, Scanning, NextEntry
  <2>5. ASSUME NEW i \in 1..Len(fds'), i >= idx', fds'[i].fd # Listener
        PROVE  LET l == link'[fds'[i].fd]
               IN  /\ "IN" \in fds'[i].revents => l.inbox # <<>> \/ l.peer # "up"
                   /\ "ERR" \in fds'[i].revents => l.peer = "rst"
    <3>1. CASE i \in 1..Len(fds)
      BY <1>1, <1>2, <2>2, <2>3, <2>4, <2>5, <3>1 DEF Reported
    <3>2. CASE i = Len(fds) + 1
      BY <2>2, <3>2
    <3> QED BY <1>1, <2>2, <3>1, <3>2
  <2> QED BY <2>5 DEF Reported
<1>7. ASSUME idx \in 1..Len(fds), pc = "scan", idx' = idx + 1, Len(fds') = Len(fds),
             \A i \in 1..Len(fds) : fds'[i].fd = fds[i].fd /\ fds'[i].revents = fds[i].revents,
             \A g \in Open \ {fds[idx].fd} : link'[g] = link[g]
      PROVE  Reported'
  <2>1. ASSUME NEW i \in 1..Len(fds), i >= idx', fds[i].fd # Listener
        PROVE  LET l == link'[fds[i].fd]
               IN  /\ "IN" \in fds[i].revents => l.inbox # <<>> \/ l.peer # "up"
                   /\ "ERR" \in fds[i].revents => l.peer = "rst"
    <3>1. i # idx /\ i >= idx
      BY <1>1, <1>7, <2>1
    <3>2. fds[i].fd \in Open \ {fds[idx].fd}
      BY <1>7, <2>1, <3>1, OtherEntry
    <3> QED BY <1>7, <2>1, <3>1, <3>2 DEF Reported
  <2> QED BY <1>7, <2>1 DEF Reported
<1>8. CASE ReceiveRequest
  <2>1. pc = "scan" /\ idx' = idx + 1
    BY <1>8 DEF ReceiveRequest, VisitsReadable, Scanning, NextEntry
  <2> QED BY <1>7, <1>8, <2>1, ReceiveEffect
<1>9. CASE SendResponse \/ SendFails
  <2>1. pc = "scan" /\ idx' = idx + 1
    BY <1>9 DEF SendResponse, SendFails, VisitsWritable, Scanning, NextEntry
  <2> QED BY <1>7, <1>9, <2>1, WriteEffect, SMTT(30)
<1>10. CASE ClientStep
  <2>1. /\ UNCHANGED server
        /\ \A g \in Open : /\ link[g].inbox # <<>> => link'[g].inbox # <<>>
                           /\ link'[g].peer = "up" => link[g].peer = "up"
                           /\ link[g].peer = "rst" => link'[g].peer = "rst"
    BY <1>10, ClientEffect
  <2> QED BY <1>2, <2>1 DEF server, Reported
<1>11. CASE Skip \/ AcceptFails \/ ReceiveFails \/ PollError \/ RefuseRequest
  BY <1>1, <1>4, <1>11 DEF Skip, AcceptFails, ReceiveFails, PollError, RefuseRequest, NextEntry,
     VisitsListener, VisitsReadable, VisitsWritable, Scanning
<1>12. CASE SendKills \/ BuildKills \/ EndScan \/ Clear \/ PollFails
  BY <1>3, <1>12 DEF SendKills, BuildKills, EndScan, Clear, CloseConnection, KeepConnection, EndClear,
     PollFails, NextEntry
<1>13. CASE UNCHANGED vars
  BY <1>1, <1>4, <1>13 DEF vars, server
<1> QED BY <1>5, <1>6, <1>8, <1>9, <1>10, <1>11, <1>12, <1>13 DEF Next, ServerStep, Scan

\* What ClosedWithCause says of one connection.
Cause(req, l) == l.peer = "up" => IsWhole(req.reqString) /\ req.reqString[1].kind.method = "OTHER"

\* Each of the visits that give a connection up has a cause.
LEMMA DoomedWithCause ==
  ASSUME Orderly, TypeOK, Books, WriteInterest, Dialogue, Ready, Reported,
         ReceiveFails \/ PollError \/ RefuseRequest
  PROVE  Cause(clients[Here.fd], link[Here.fd])
<1> DEFINE f == Here.fd
<1>1. idx \in 1..Len(fds) /\ Here \in PollFd /\ Here = fds[idx] /\ pc = "scan" /\ idx >= idx
  BY HereType DEF ReceiveFails, PollError, RefuseRequest, VisitsReadable, VisitsWritable,
     Scanning, Here
<1>2. f # Listener
  <2>1. CASE PollError
    <3>1. ~(Here.revents \subseteq {"IN"})
      BY <2>1 DEF PollError
    <3> QED BY <1>1, <3>1 DEF Books
  <2>2. CASE ReceiveFails \/ RefuseRequest
    BY <2>2 DEF ReceiveFails, RefuseRequest, VisitsReadable, VisitsWritable
  <2> QED BY <2>1, <2>2
<1>3. f \in Open
  BY <1>1, <1>2, HereOpen DEF Scanning
<1> HIDE DEF f
<1>4. /\ "IN" \in Here.revents => link[f].inbox # <<>> \/ link[f].peer # "up"
      /\ "ERR" \in Here.revents => link[f].peer = "rst"
  BY <1>1, <1>2 DEF Reported, f
<1>5. CASE ReceiveFails
  <2>1. "IN" \in Here.revents /\ (link[f].peer = "rst" \/ link[f].inbox = <<>>)
    BY <1>5 DEF ReceiveFails, VisitsReadable, f
  <2> QED BY <1>4, <2>1 DEF Cause, f
<1>6. CASE PollError
  <2>1. "ERR" \in Here.revents
    BY <1>1, <1>6 DEF PollError, PollFd
  <2> QED BY <1>4, <2>1 DEF Cause, f
<1>7. CASE RefuseRequest
  <2>1. clients[f].response = NULL /\ MethodOf(clients[f].reqString) \notin Supported
        /\ "OUT" \in Here.revents
    BY <1>7 DEF RefuseRequest, Servable, VisitsWritable, f
  <2>2. "OUT" \in fds[idx].events
    BY <1>1, <1>2, <2>1 DEF WriteInterest, f
  <2>3. ReqEnd(clients[f])
    BY <1>1, <1>2, <2>1, <2>2 DEF Ready, Prompt, f
  <2>4. /\ clients[f] \in ReqData /\ link[f] \in Link /\ stream[f] \in Stream
        /\ Talks(clients[f], link[f], stream[f])
    BY <1>3 DEF TypeOK, Dialogue
  <2>5. /\ IsWhole(clients[f].reqString)
        /\ MethodOf(clients[f].reqString) = clients[f].reqString[1].kind.method
    BY <2>3, <2>4, CompleteIsWhole
  <2>6. MethodOf(clients[f].reqString) \in Methods
    BY <2>4, MethodOfType DEF ReqData
  <2>7. MethodOf(clients[f].reqString) = "OTHER"
    BY <2>1, <2>6 DEF Methods
  <2> QED BY <2>5, <2>7 DEF Cause, f
<1> QED BY <1>5, <1>6, <1>7

LEMMA NextCause ==
  ASSUME Orderly, TypeOK, Books, WriteInterest, Dialogue, Ready, Reported, ClosedWithCause,
         [Next]_vars
  PROVE  ClosedWithCause'
<1>1. fdToDel \subseteq Open /\ \A g \in fdToDel : Cause(clients[g], link[g])
  BY DEF Books, ClosedWithCause, Cause
<1>2. CASE UNCHANGED <<clients, link>> /\ fdToDel' \subseteq fdToDel
  BY <1>2 DEF ClosedWithCause
<1>3. CASE ReceiveFails \/ PollError \/ RefuseRequest
  <2>1. UNCHANGED <<clients, link>> /\ fdToDel' = fdToDel \cup {Here.fd}
    BY <1>3 DEF ReceiveFails, PollError, RefuseRequest
  <2> QED BY <1>1, <1>3, <2>1, DoomedWithCause DEF ClosedWithCause, Cause
<1>4. CASE AcceptConnection
  <2>1. fdToDel' = fdToDel /\ \A g \in Open : clients'[g] = clients[g] /\ link'[g] = link[g]
    BY <1>4 DEF AcceptConnection, With, Open, TypeOK
  <2> QED BY <1>1, <2>1 DEF ClosedWithCause, Cause
<1>5. CASE ReceiveRequest
  <2>1. /\ fdToDel' = fdToDel /\ Here.fd \notin fdToDel
        /\ \A g \in Open \ {Here.fd} : clients'[g] = clients[g] /\ link'[g] = link[g]
    BY <1>5, ReceiveEffect DEF ReceiveRequest
  <2> QED BY <1>1, <2>1 DEF ClosedWithCause, Cause
<1>6. CASE SendResponse \/ SendFails
  <2> DEFINE f == Here.fd
  <2>1. /\ f \notin fdToDel /\ link'[f].peer = link[f].peer
        /\ \A g \in Open \ {f} : clients'[g] = clients[g] /\ link'[g] = link[g]
    BY <1>6, WriteEffect, SMTT(30)
  <2>2. \/ fdToDel' = fdToDel
        \/ fdToDel' = fdToDel \cup {f} /\ link[f].peer = "rst"
    BY <1>6 DEF SendResponse, SendFails
  <2> HIDE DEF f
  <2>3. f \in fdToDel' => Cause(clients'[f], link'[f])
    BY <2>1, <2>2 DEF Cause
  <2>4. \A g \in fdToDel : Cause(clients'[g], link'[g])
    BY <1>1, <2>1
  <2> QED BY <2>2, <2>3, <2>4 DEF ClosedWithCause, Cause
<1>7. CASE CloseConnection
  <2>1. /\ fdToDel' = fdToDel \ {Here.fd}
        /\ \A g \in Open \ {Here.fd} : clients'[g] = clients[g] /\ link'[g] = link[g]
    BY <1>7 DEF CloseConnection, Without, Open, TypeOK
  <2> QED BY <1>1, <2>1 DEF ClosedWithCause, Cause
<1>8. CASE ClientStep
  <2>1. /\ fdToDel' = fdToDel /\ clients' = clients
        /\ \A g \in Open : link'[g].peer = "up" => link[g].peer = "up"
    BY <1>8, ClientEffect DEF server
  <2> QED BY <1>1, <2>1 DEF ClosedWithCause, Cause
<1> QED BY <1>2, <1>3, <1>4, <1>5, <1>6, <1>7, <1>8
        DEF Next, ServerStep, Scan, Clear, Poll, PollFails, Skip, AcceptFails, SendKills,
            BuildKills, EndScan, KeepConnection, EndClear, vars, server

Talking == Dialogue /\ Ready /\ Reported /\ ClosedWithCause

LEMMA NextTalking ==
  ASSUME Orderly, TypeOK, Books, WriteInterest, StreamSound, Talking, [Next]_vars
  PROVE  Talking'
<1> USE DEF Talking
<1>1. Dialogue' /\ Ready'
  <2>1. CASE UNCHANGED <<clients, link, stream, fds>>
    BY <2>1 DEF Dialogue, Ready, Open
  <2>2. CASE Poll
    <3>1. /\ UNCHANGED <<clients, link, stream>> /\ Len(fds') = Len(fds)
          /\ \A i \in 1..Len(fds) : fds'[i].fd = fds[i].fd /\ fds'[i].events = fds[i].events
      BY <2>2, PollEffect DEF Poll
    <3> QED BY <3>1 DEF Dialogue, Ready, Prompt, Open
  <2>3. CASE ClientStep
    <3>1. UNCHANGED <<clients, fds>>
      BY <2>3, ClientEffect DEF server
    <3> QED BY <2>3, <3>1, DialogueOnClient DEF Ready
  <2> QED BY <2>1, <2>2, <2>3, DialogueOnAccept, DialogueOnReceive, DialogueOnWrite,
             DialogueOnClose
          DEF Next, ServerStep, Scan, Clear, PollFails, Skip, AcceptFails, ReceiveFails, PollError,
              RefuseRequest, SendKills, BuildKills, EndScan, KeepConnection, EndClear, vars, server
<1>2. Reported' /\ ClosedWithCause'
  BY NextReported, NextCause
<1> QED BY <1>1, <1>2

LEMMA TalkingAlways ==
  ASSUME Orderly
  PROVE  Spec => []Talking
<1>1. Init => Talking
  BY DEF Init, Talking, Dialogue, Ready, Reported, ClosedWithCause, Open, NewPollFd
<1>2. TypeOK /\ Books /\ WriteInterest /\ StreamSound /\ Talking /\ [Next]_vars => Talking'
  BY NextTalking
<1>3. Spec => [](TypeOK /\ Books) /\ []WriteInterest /\ []StreamSound
  BY TypeAndBooks, NoResponseStuck, StreamsSound DEF Orderly
<1> QED BY <1>1, <1>2, <1>3, PTL DEF Spec

\* With clients that wait for their answers, what sendResponse parses is one request
\* from its first unit to its last: findReqEnd, which looks for patterns in the last
\* 100 bytes, neither stops early nor runs on, whatever was asked before.
THEOREM RequestsTakenWhole ==
  ASSUME Orderly
  PROVE  Spec => []ReadyMeansWhole
<1>1. TypeOK /\ Books /\ Talking => ReadyMeansWhole
  <2> SUFFICES ASSUME TypeOK, Books, Talking, NEW i \in 1..Len(fds), fds[i].fd # Listener,
                      "OUT" \in fds[i].events, clients[fds[i].fd].response = NULL
               PROVE  IsWhole(clients[fds[i].fd].reqString)
    BY DEF ReadyMeansWhole
  <2> DEFINE f == fds[i].fd
  <2>1. f \in Open /\ ReqEnd(clients[f])
    BY DEF Books, Talking, Ready, Prompt
  <2>2. /\ clients[f] \in ReqData /\ link[f] \in Link /\ stream[f] \in Stream
        /\ Talks(clients[f], link[f], stream[f])
    BY <2>1 DEF TypeOK, Talking, Dialogue
  <2> QED BY <2>1, <2>2, CompleteIsWhole
<1> QED BY <1>1, TypeAndBooks, TalkingAlways, PTL

\* The loop waits to write to such a client exactly while a response is under way or
\* there is a request that findReqEnd takes for complete: none that it has seen the end
\* of is forgotten, and POLLOUT is never asked for in vain.
THEOREM NobodyForgotten ==
  ASSUME Orderly
  PROVE  Spec => []NoneForgotten
<1>1. TypeOK /\ Books /\ WriteInterest /\ Talking => NoneForgotten
  <2> SUFFICES ASSUME TypeOK, Books, WriteInterest, Talking, NEW i \in 1..Len(fds),
                      fds[i].fd \in Open \ fdToDel
               PROVE  "OUT" \in fds[i].events <=>
                        clients[fds[i].fd].response # NULL \/ ReqEnd(clients[fds[i].fd])
    BY DEF NoneForgotten
  <2>1. fds[i].fd # Listener
    BY FdsAssumption DEF TypeOK
  <2> QED BY <2>1 DEF Talking, Ready, Prompt, WriteInterest
<1> QED BY <1>1, TypeAndBooks, NoResponseStuck, TalkingAlways, PTL

\* The server gives up a connection whose client is still there only after a complete
\* request with a method it does not support: neither a stale report of poll() nor
\* recv() on an empty socket makes it close one.
THEOREM ClosesWithCause ==
  ASSUME Orderly
  PROVE  Spec => []ClosedWithCause
<1>1. Talking => ClosedWithCause
  BY DEF Talking
<1> QED BY <1>1, TalkingAlways, PTL

-----------------------------------------------------------------------------
(* The refinement of HttpSession. *)

\* A client that has been answered completely before it asks has had its answer begun
\* as soon as there is one, cut sends included.
Pace(l, st, doomed) ==
  /\ l.asked = st.built + 1 => st.sent = st.due
  /\ ~doomed /\ l.asked = st.built => st.sent = st.due \/ st.sent > st.base

Paced == \A f \in Open : Pace(link[f], stream[f], f \in fdToDel)

\* A Response that is still there has bytes left to be sent, so its client has not
\* been answered.
LEMMA NotAnsweredYet ==
  ASSUME TypeOK, StreamSound, NEW f \in Open \ fdToDel, clients[f].response # NULL
  PROVE  stream[f].sent # stream[f].due
<1> DEFINE r    == clients[f].response
           i    == clients[f].chunkInd
           size == clients[f].responseSize
           last == r.ends[Len(r.ends)]
           done == PieceStart(r, i)
<1>1. i < Len(r.ends) /\ stream[f].sent + size + (last - done) <= stream[f].due
  BY DEF StreamSound
<1>2. [chunked |-> r.chunked, ends |-> r.ends] \in Shapes /\ i \in Nat /\ size \in Nat
      /\ stream[f].sent \in Nat /\ stream[f].due \in Nat
  BY DEF TypeOK, ReqData, Stream
<1>3. ~(i >= Len(r.ends))
  <2>1. Len(r.ends) \in Nat
    BY <1>2, ShapeFacts
  <2> QED BY <1>1, <1>2, <2>1
<1> HIDE DEF r, i
<1>4. done \in Nat /\ done < last /\ last \in Nat
  BY <1>2, <1>3, StartBeforeEnd
<1> HIDE DEF size, last, done
<1> QED BY <1>1, <1>2, <1>4

\* A new Response is owed from where what is owed so far ends.
LEMMA OwedPaces ==
  ASSUME TypeOK, NEW f \in Open, NEW q \in Prepared(f),
         NEW o, o = Owed(stream[f], clients[f].response = NULL, q.response)
  PROVE  /\ o \in Stream /\ o.sent = stream[f].sent
         /\ clients[f].response = NULL =>
              /\ o.base = stream[f].due /\ o.due > o.base /\ o.built = stream[f].built + 1
         /\ clients[f].response # NULL => o = stream[f]
<1> DEFINE r == q.response
           n == r.ends[Len(r.ends)]
<1>1. /\ [chunked |-> r.chunked, ends |-> r.ends] \in Shapes /\ stream[f] \in Stream
  BY PreparedType DEF TypeOK
<1>2. n \in Nat /\ n > 0
  <2>1. 0 \in Nat /\ ~(0 >= Len(r.ends)) /\ PieceStart(r, 0) = 0
    BY <1>1, ShapeFacts DEF PieceStart
  <2> HIDE DEF r
  <2> QED BY <1>1, <2>1, StartBeforeEnd DEF r
<1>3. CASE clients[f].response # NULL
  BY <1>1, <1>3 DEF Owed
<1>4. CASE clients[f].response = NULL
  <2>1. o = [stream[f] EXCEPT !.built = @ + 1, !.base = stream[f].due, !.due = @ + n]
    BY <1>4 DEF Owed
  <2> HIDE DEF n
  <2> DEFINE b == stream[f].built + 1
             d == stream[f].due + n
  <2>2. b \in Nat /\ d \in Nat /\ d > stream[f].due /\ stream[f].due \in Nat
    BY <1>1, <1>2 DEF Stream
  <2>3. o = [stream[f] EXCEPT !.built = b, !.base = stream[f].due, !.due = d]
    BY <2>1
  <2> HIDE DEF b, d
  <2>4. /\ o \in Stream /\ o.sent = stream[f].sent
        /\ o.base = stream[f].due /\ o.due = d /\ o.built = b
    BY <1>1, <2>2, <2>3 DEF Stream
  <2>5. o.due > o.base /\ o.built = stream[f].built + 1
    BY <2>2, <2>4 DEF b
  <2> QED BY <1>4, <2>4, <2>5
<1> QED BY <1>3, <1>4

\* What sendResponse does to the history of the connection it writes to: before, its
\* client waits for a response, or the response is under way; after, it has been begun.
LEMMA WritePaces ==
  ASSUME Orderly, TypeOK, Books, WriteInterest, StreamSound, Talking, Paced, SendResponse
  PROVE  LET f == Here.fd IN
         /\ f \in Open \ fdToDel
         /\ stream'[f].built = link'[f].asked
         /\ stream'[f].sent > stream'[f].base
<1> DEFINE f == Here.fd
<1>1. PICK req \in Prepared(f), finished \in BOOLEAN :
         /\ f \in Open /\ f \notin fdToDel
         /\ "OUT" \in fds[idx].events
         /\ stream'[f].built = IF clients[f].response = NULL THEN stream[f].built + 1
                               ELSE stream[f].built
         /\ link'[f].asked = link[f].asked
  BY WriteEffect
<1>2. clients[f].response = NULL => ReqEnd(clients[f])
  <2>1. Here = fds[idx] /\ idx \in 1..Len(fds) /\ f # Listener
    BY HereType DEF SendResponse, VisitsWritable, Scanning, Here
  <2> QED BY <1>1, <2>1 DEF Talking, Ready, Prompt
<1>3. PICK q \in Prepared(f) :
        ~PastEnd(q) /\ \E n \in Accepted(Piece(q).size), done \in Finished(q) : Sends(f, q, n, done)
  BY SendEffect
<1>4. PICK n \in Accepted(Piece(q).size), done \in Finished(q) : Sends(f, q, n, done)
  BY <1>3
<1> DEFINE p == Piece(q)
           o == Owed(stream[f], clients[f].response = NULL, q.response)
<1>5. stream' = [stream EXCEPT ![f] = Sent(o, q.response, p, n)]
  BY <1>4 DEF Sends
<1> HIDE DEF f
<1>6. /\ clients[f] \in ReqData /\ link[f] \in Link /\ stream[f] \in Stream
      /\ DOMAIN stream = Open /\ Talks(clients[f], link[f], stream[f])
      /\ Pace(link[f], stream[f], f \in fdToDel)
  BY <1>1 DEF TypeOK, Talking, Dialogue, Paced
<1>7. n \in Nat \ {0}
  <2>1. p.size \in Nat \ {0}
    BY <1>1, <1>3, PieceType
  <2> HIDE DEF p
  <2> QED BY <2>1, <1>4 DEF Accepted, p
<1>8. link[f].asked = IF clients[f].response = NULL THEN stream[f].built + 1
                                                    ELSE stream[f].built
  BY <1>1, <1>2, <1>6, TalksOnWrite
<1>9. o \in Stream /\ o.sent = stream[f].sent
  BY <1>1, <1>6, OwedPaces DEF TypeOK
<1>10. o.sent >= o.base
  <2>1. CASE clients[f].response = NULL
    <3>1. stream[f].sent = stream[f].due
      BY <1>6, <1>8, <2>1 DEF Pace
    <3>2. o.base = stream[f].due
      BY <1>1, <1>6, <2>1, OwedPaces
    <3> QED BY <1>6, <1>9, <3>1, <3>2 DEF Stream
  <2>2. CASE clients[f].response # NULL
    <3>1. stream[f].sent # stream[f].due
      BY <1>1, <2>2, NotAnsweredYet
    <3>2. stream[f].sent > stream[f].base
      BY <1>1, <1>6, <1>8, <2>2, <3>1 DEF Pace
    <3>3. o = stream[f]
      BY <2>2 DEF Owed
    <3> QED BY <1>6, <3>2, <3>3 DEF Stream
  <2> QED BY <2>1, <2>2
<1> HIDE DEF o, p
<1>11. stream'[f] = Sent(o, q.response, p, n)
  BY <1>1, <1>5, <1>6
<1>12. stream'[f].sent = o.sent + n /\ stream'[f].base = o.base
  BY <1>9, <1>11 DEF Sent, Stream
<1>13. stream'[f].sent > stream'[f].base
  BY <1>7, <1>9, <1>10, <1>12 DEF Stream
<1> QED BY <1>1, <1>8, <1>13 DEF f

LEMMA NextPaced ==
  ASSUME Orderly, TypeOK, Books, WriteInterest, StreamSound, Talking, Paced, [Next]_vars
  PROVE  Paced'
<1>1. CASE UNCHANGED <<clients, link, stream>> /\ fdToDel \subseteq fdToDel'
  BY <1>1 DEF Paced, Pace, Open
<1>2. CASE AcceptConnection
  <2>1. PICK f \in Fds \ Open : /\ clients' = With(clients, f, InitReqDataStruct)
                                /\ link' = With(link, f, NewLink)
                                /\ stream' = With(stream, f, NewStream)
    BY <1>2 DEF AcceptConnection
  <2>2. /\ Open' = Open \cup {f} /\ link'[f] = NewLink /\ stream'[f] = NewStream
        /\ \A g \in Open : link'[g] = link[g] /\ stream'[g] = stream[g]
    BY <2>1 DEF With, Open, TypeOK
  <2>3. fdToDel' = fdToDel
    BY <1>2 DEF AcceptConnection
  <2>4. NewLink.asked = 0 /\ NewStream.built = 0 /\ NewStream.sent = NewStream.due
    BY DEF NewLink, NewStream
  <2> QED BY <2>2, <2>3, <2>4 DEF Paced, Pace
<1>3. CASE ReceiveRequest
  <2>1. fdToDel' = fdToDel /\ stream' = stream /\ Open' = Open
    BY <1>3, ReceiveEffect DEF ReceiveRequest
  <2>2. \A g \in Open : link'[g].asked = link[g].asked
    BY <1>3, ReceiveEffect
  <2> QED BY <2>1, <2>2 DEF Paced, Pace
<1>4. CASE SendResponse
  <2> DEFINE f == Here.fd
  <2>1. /\ stream'[f].built = link'[f].asked /\ stream'[f].sent > stream'[f].base
        /\ f \in Open
    BY <1>4, WritePaces
  <2>2. /\ Open' = Open /\ fdToDel' = fdToDel
        /\ \A g \in Open \ {f} : link'[g] = link[g] /\ stream'[g] = stream[g]
    BY <1>4, WriteEffect DEF SendResponse
  <2>3. stream'[f] \in Stream
    BY <1>4, <2>1, <2>2, NextTypeOK DEF TypeOK
  <2> HIDE DEF f
  <2>4. Pace(link'[f], stream'[f], f \in fdToDel')
    BY <2>1, <2>3 DEF Pace, Stream
  <2>5. \A g \in Open \ {f} : Pace(link'[g], stream'[g], g \in fdToDel')
    BY <2>2 DEF Paced
  <2> QED BY <2>2, <2>4, <2>5 DEF Paced
<1>5. CASE SendFails
  <2> DEFINE f == Here.fd
  <2>1. /\ f \in Open /\ "OUT" \in fds[idx].events /\ Open' = Open
        /\ \A g \in Open \ {f} : link'[g] = link[g] /\ stream'[g] = stream[g]
        /\ stream'[f].built = IF clients[f].response = NULL THEN stream[f].built + 1
                              ELSE stream[f].built
        /\ link'[f].asked = link[f].asked
    BY <1>5, WriteEffect
  <2>2. fdToDel' = fdToDel \cup {f}
    BY <1>5 DEF SendFails
  <2>3. clients[f].response = NULL => ReqEnd(clients[f])
    <3>1. Here = fds[idx] /\ idx \in 1..Len(fds) /\ f # Listener
      BY <1>5, HereType DEF SendFails, VisitsWritable, Scanning, Here
    <3> QED BY <2>1, <3>1 DEF Talking, Ready, Prompt
  <2> HIDE DEF f
  <2>4. /\ clients[f] \in ReqData /\ link[f] \in Link /\ stream[f] \in Stream
        /\ Talks(clients[f], link[f], stream[f]) /\ \E req \in Prepared(f) : TRUE
    BY <1>5, <2>1 DEF TypeOK, Talking, Dialogue, SendFails, f
  <2>5. link'[f].asked = stream'[f].built
    <3>1. link[f].asked = IF clients[f].response = NULL THEN stream[f].built + 1
                                                        ELSE stream[f].built
      BY <2>1, <2>3, <2>4, TalksOnWrite
    <3> QED BY <2>1, <3>1
  <2>6. Pace(link'[f], stream'[f], f \in fdToDel')
    <3>1. link'[f].asked \in Nat
      BY <2>1, <2>4, MaxReqsAssumption DEF Link
    <3> QED BY <2>2, <2>5, <3>1 DEF Pace
  <2>7. \A g \in Open \ {f} : Pace(link'[g], stream'[g], g \in fdToDel')
    BY <2>1, <2>2 DEF Paced
  <2> QED BY <2>1, <2>6, <2>7 DEF Paced
<1>6. CASE CloseConnection
  <2>1. fdToDel' = fdToDel \ {Here.fd} /\ Open' = Open \ {Here.fd}
        /\ \A g \in Open' : link'[g] = link[g] /\ stream'[g] = stream[g]
    BY <1>6 DEF CloseConnection, Without, Open, TypeOK
  <2> QED BY <2>1 DEF Paced, Pace
<1>7. CASE ClientStep
  <2>1. fdToDel' = fdToDel /\ stream' = stream /\ Open' = Open
    BY <1>7, ClientEffect DEF server
  <2>2. ASSUME NEW g \in Open
        PROVE  \/ link'[g].asked = link[g].asked
               \/ link'[g].asked = link[g].asked + 1 /\ Answered(g)
    <3>1. link[g] \in Link /\ DOMAIN link = Open
      BY <2>2 DEF TypeOK
    <3>2. ASSUME NEW f \in Open, StartRequest(f)
          PROVE  \/ link'[g].asked = link[g].asked
                 \/ link'[g].asked = link[g].asked + 1 /\ Answered(g)
      <4>1. PICK k \in Kinds :
              link' = [link EXCEPT ![f].asked = @ + 1, ![f].todo = Wire(k, link[f].asked + 1)]
        BY <3>2 DEF StartRequest
      <4>2. Answered(f)
        BY <3>2 DEF StartRequest, Orderly
      <4>3. CASE g = f
        <5>1. link'[g].asked = link[g].asked + 1
          BY <3>1, <4>1, <4>3 DEF Link
        <5> QED BY <4>2, <4>3, <5>1
      <4>4. CASE g # f
        BY <3>1, <4>1, <4>4
      <4> QED BY <4>3, <4>4
    <3>3. ASSUME NEW f \in Open, ClientSend(f) \/ ClientRead(f) \/ ClientClose(f)
          PROVE  link'[g].asked = link[g].asked
      <4>1. CASE g # f
        BY <3>1, <3>3, <4>1 DEF ClientSend, ClientRead, ClientClose
      <4>2. CASE g = f
        BY <3>1, <3>3, <4>2 DEF ClientSend, ClientRead, ClientClose, Link
      <4> QED BY <4>1, <4>2
    <3>4. CASE Connect
      BY <3>4 DEF Connect
    <3> QED BY <1>7, <3>2, <3>3, <3>4 DEF ClientStep
  <2>3. ASSUME NEW g \in Open PROVE Pace(link'[g], stream[g], g \in fdToDel)
    <3>1. Pace(link[g], stream[g], g \in fdToDel)
      BY DEF Paced
    <3>2. stream[g].built \in Nat
      BY DEF TypeOK, Stream
    <3> QED BY <2>2, <3>1, <3>2 DEF Pace, Answered
  <2> QED BY <2>1, <2>3 DEF Paced
<1> QED BY <1>1, <1>2, <1>3, <1>4, <1>5, <1>6, <1>7
        DEF Next, ServerStep, Scan, Clear, Poll, PollFails, Skip, AcceptFails, ReceiveFails,
            PollError, RefuseRequest, SendKills, BuildKills, EndScan, KeepConnection, EndClear,
            vars, server

\* Where the session of an open connection stands.
Stands(l, st) ==
  IF st.built = l.asked /\ st.sent = st.due THEN "idle"
  ELSE IF st.built = l.asked /\ st.sent > st.base THEN "answering"
  ELSE IF l.todo = <<>> THEN "asked" ELSE "asking"

LEMMA SessionStands ==
  ASSUME TypeOK, NEW f \in Open, Running
  PROVE  Session[f] = Stands(link[f], stream[f])
  BY DEF Session, Stands, Answered, TypeOK

LEMMA SessionStandsAfter ==
  ASSUME TypeOK', NEW f \in Open', Running'
  PROVE  Session'[f] = Stands(link'[f], stream'[f])
<1>1. f \in Fds
  BY DEF TypeOK
<1> QED BY <1>1 DEF Session, Stands, Answered

LEMMA StandsAsking ==
  ASSUME NEW req, NEW l, NEW st \in Stream, Asking(req, l, st)
  PROVE  Stands(l, st) = IF l.todo = <<>> THEN "asked" ELSE "asking"
<1>1. st.built # l.asked
  BY DEF Asking, Stream
<1> QED BY <1>1 DEF Stands

\* A step that touches one connection moves one session.
LEMMA OneSession ==
  ASSUME NEW f \in Fds,
         \A g \in Fds \ {f} : Session'[g] = Session[g]
  PROVE  Session' = [Session EXCEPT ![f] = Session'[f]]
<1>1. DOMAIN Session = Fds /\ Session = [g \in Fds |-> Session[g]]
  BY DEF Session
<1>2. DOMAIN Session' = Fds /\ Session' = [g \in Fds |-> Session'[g]]
  BY DEF Session
<1> HIDE DEF Session
<1> QED BY <1>1, <1>2

\* A session depends on this of its connection.
LEMMA SameSession ==
  ASSUME NEW g \in Fds, Running' <=> Running, (g \in Open') <=> (g \in Open),
         g \in Open => /\ link'[g].asked = link[g].asked
                       /\ (link'[g].todo = <<>>) <=> (link[g].todo = <<>>)
                       /\ stream'[g] = stream[g]
  PROVE  Session'[g] = Session[g]
<1>1. CASE g \notin Open
  BY <1>1 DEF Session
<1>2. CASE g \in Open
  BY <1>2 DEF Session, Answered
<1> QED BY <1>1, <1>2

\* acceptConnection opens a session.
LEMMA SessionOnAccept ==
  ASSUME TypeOK, TypeOK', AcceptConnection
  PROVE  \E f \in Fds : Sessions!Accept(f)
<1>1. PICK f \in Fds \ Open :
        /\ clients' = With(clients, f, InitReqDataStruct)
        /\ link' = With(link, f, NewLink)
        /\ stream' = With(stream, f, NewStream)
  BY DEF AcceptConnection
<1>2. Running /\ Running'
  BY DEF AcceptConnection, VisitsListener, Scanning, NextEntry, Running
<1>3. /\ Open' = Open \cup {f}
      /\ link'[f] = NewLink /\ stream'[f] = NewStream
      /\ \A g \in Open : /\ clients'[g] = clients[g] /\ link'[g] = link[g]
                         /\ stream'[g] = stream[g]
  BY <1>1 DEF With, Open, TypeOK
<1>4. Session[f] = "closed"
  BY <1>1 DEF Session
<1>5. Session'[f] = "idle"
  BY <1>2, <1>3, SessionStandsAfter DEF Stands, NewLink, NewStream
<1>6. ASSUME NEW g \in Fds \ {f} PROVE Session'[g] = Session[g]
  BY <1>2, <1>3, SameSession
<1>7. Session' = [Session EXCEPT ![f] = "idle"]
  BY <1>5, <1>6, OneSession
<1> QED BY <1>4, <1>7 DEF Sessions!Accept, Sessions!Goes

\* clearConnections ends one.
LEMMA SessionOnClose ==
  ASSUME TypeOK, Books, CloseConnection
  PROVE  \E f \in Fds : Sessions!Close(f)
<1> DEFINE f == Here.fd
<1>1. f \in Open /\ f \in Fds
  BY DEF CloseConnection, Books, TypeOK
<1>2. Running /\ Running'
  BY DEF CloseConnection, Running
<1>3. /\ Open' = Open \ {f}
      /\ \A g \in Open' : /\ clients'[g] = clients[g] /\ link'[g] = link[g]
                          /\ stream'[g] = stream[g]
  BY DEF CloseConnection, Without, Open, TypeOK
<1> HIDE DEF f
<1>4. Session[f] # "closed"
  BY <1>1, <1>2 DEF Session
<1>5. Session'[f] = "closed"
  BY <1>1, <1>3 DEF Session
<1>6. ASSUME NEW g \in Fds \ {f} PROVE Session'[g] = Session[g]
  BY <1>2, <1>3, SameSession
<1>7. Session' = [Session EXCEPT ![f] = "closed"]
  BY <1>1, <1>5, <1>6, OneSession
<1> QED BY <1>1, <1>4, <1>7 DEF Sessions!Close

\* What a session was before the visit that writes to it.
LEMMA SessionBeforeWrite ==
  ASSUME Orderly, TypeOK, Books, WriteInterest, StreamSound, Talking, Paced, VisitsWritable,
         "OUT" \in Here.events
  PROVE  /\ Session[Here.fd] = IF clients[Here.fd].response = NULL THEN "asked" ELSE "answering"
         /\ clients[Here.fd].response = NULL =>
              /\ link[Here.fd].todo = <<>> /\ link[Here.fd].asked = stream[Here.fd].built + 1
<1> DEFINE f == Here.fd
<1>1. f \in Open \ fdToDel /\ f # Listener /\ idx \in 1..Len(fds) /\ Here = fds[idx]
  BY WritableIsOpen, HereType DEF VisitsWritable, Scanning, Here
<1>2. Running
  BY DEF VisitsWritable, Scanning, Running
<1> HIDE DEF f
<1>3. /\ clients[f] \in ReqData /\ link[f] \in Link /\ stream[f] \in Stream
      /\ Talks(clients[f], link[f], stream[f]) /\ Pace(link[f], stream[f], f \in fdToDel)
  BY <1>1 DEF TypeOK, Talking, Dialogue, Paced
<1>4. CASE clients[f].response = NULL
  <2>1. ReqEnd(clients[f])
    BY <1>1, <1>4 DEF Talking, Ready, Prompt, f
  <2>2. Asking(clients[f], link[f], stream[f]) /\ link[f].todo = <<>>
    BY <1>3, <2>1, CompleteIsWhole
  <2>3. link[f].asked = stream[f].built + 1
    BY <2>2 DEF Asking
  <2> QED BY <1>1, <1>2, <1>3, <1>4, <2>2, <2>3, SessionStands, StandsAsking DEF f
<1>5. CASE clients[f].response # NULL
  <2>1. stream[f].built = link[f].asked
    BY <1>3, <1>5 DEF Talks, Asking, Silent
  <2>2. stream[f].sent # stream[f].due
    BY <1>1, <1>5, NotAnsweredYet
  <2>3. stream[f].sent > stream[f].base
    BY <1>1, <1>3, <2>1, <2>2 DEF Pace
  <2>4. Stands(link[f], stream[f]) = "answering"
    BY <2>1, <2>2, <2>3 DEF Stands
  <2> QED BY <1>1, <1>2, <1>5, <2>4, SessionStands DEF f
<1> QED BY <1>4, <1>5

\* sendResponse answers: the whole response, or as much of it as send() takes.
LEMMA SessionOnSend ==
  ASSUME Orderly, TypeOK, Books, WriteInterest, StreamSound, Talking, Paced, TypeOK', SendResponse
  PROVE  Session' = Session \/ \E f \in Fds : Sessions!Answer(f)
<1> DEFINE f == Here.fd
<1>1. /\ f \in Open /\ f \in Fds /\ "OUT" \in Here.events /\ Open' = Open
      /\ \A g \in Open \ {f} : link'[g] = link[g] /\ stream'[g] = stream[g]
  BY WriteEffect DEF TypeOK, Here
<1>2. VisitsWritable /\ Running /\ Running'
  BY DEF SendResponse, VisitsWritable, Scanning, NextEntry, Running
<1>3. Session[f] \in {"asked", "answering"}
  BY <1>1, <1>2, SessionBeforeWrite
<1>4. stream'[f].built = link'[f].asked /\ stream'[f].sent > stream'[f].base
  BY WritePaces
<1> HIDE DEF f
<1>5. Session'[f] \in {"idle", "answering"}
  <2>1. Session'[f] = Stands(link'[f], stream'[f])
    BY <1>1, <1>2, SessionStandsAfter
  <2> QED BY <1>4, <2>1 DEF Stands
<1>6. ASSUME NEW g \in Fds \ {f} PROVE Session'[g] = Session[g]
  BY <1>1, <1>2, SameSession
<1>7. Session' = [Session EXCEPT ![f] = Session'[f]]
  BY <1>1, <1>6, OneSession
<1>8. CASE Session'[f] = Session[f]
  <2>1. Session = [g \in Fds |-> Session[g]]
    BY DEF Session
  <2> HIDE DEF Session
  <2> QED BY <1>1, <1>7, <1>8, <2>1
<1>9. CASE Session'[f] # Session[f]
  <2> DEFINE from == Session[f]
             to   == Session'[f]
  <2>1. from \in {"asked", "answering"} /\ to \in {"answering", "idle"} /\ from # to
    BY <1>3, <1>5, <1>9
  <2> QED BY <1>1, <1>7, <2>1 DEF Sessions!Answer, Sessions!Goes
<1> QED BY <1>8, <1>9

\* A send() that fails leaves the answer where it was.
LEMMA SessionOnFailure ==
  ASSUME Orderly, TypeOK, Books, WriteInterest, StreamSound, Talking, Paced, TypeOK', SendFails
  PROVE  Session' = Session
<1> DEFINE f == Here.fd
<1>1. /\ f \in Open /\ f \in Fds /\ "OUT" \in Here.events /\ Open' = Open
      /\ \A g \in Open \ {f} : stream'[g] = stream[g]
  BY WriteEffect DEF TypeOK, Here
<1>2. VisitsWritable /\ Running /\ Running' /\ link' = link
  BY DEF SendFails, VisitsWritable, Scanning, NextEntry, Running
<1>3. /\ Session[f] = IF clients[f].response = NULL THEN "asked" ELSE "answering"
      /\ clients[f].response = NULL => link[f].todo = <<>> /\ link[f].asked = stream[f].built + 1
  BY <1>1, <1>2, SessionBeforeWrite
<1>4. PICK req \in Prepared(f) :
        stream' = [stream EXCEPT ![f] = Owed(stream[f], clients[f].response = NULL, req.response)]
  BY DEF SendFails
<1> HIDE DEF f
<1>5. stream'[f] = Owed(stream[f], clients[f].response = NULL, req.response)
      /\ stream[f] \in Stream
  BY <1>1, <1>4 DEF TypeOK
<1>6. Session'[f] = Session[f]
  <2>1. CASE clients[f].response # NULL
    <3>1. stream'[f] = stream[f]
      BY <1>5, <2>1 DEF Owed
    <3> QED BY <1>1, <1>2, <3>1, SameSession
  <2>2. CASE clients[f].response = NULL
    <3>1. /\ stream'[f].sent = stream[f].sent /\ stream'[f] \in Stream
          /\ stream'[f].base = stream[f].due /\ stream'[f].due > stream'[f].base
      BY <1>1, <1>5, <2>2, OwedPaces
    <3>2. stream[f].sent = stream[f].due
      BY <1>1, <1>3, <2>2 DEF Paced, Pace
    <3>3. stream'[f].sent # stream'[f].due /\ ~(stream'[f].sent > stream'[f].base)
      BY <1>5, <3>1, <3>2 DEF Stream
    <3>4. Session'[f] = "asked"
      BY <1>1, <1>2, <1>3, <2>2, <3>3, SessionStandsAfter DEF Stands
    <3> QED BY <1>3, <2>2, <3>4
  <2> QED BY <2>1, <2>2
<1>7. ASSUME NEW g \in Fds \ {f} PROVE Session'[g] = Session[g]
  BY <1>1, <1>2, SameSession
<1>8. \A g \in Fds : Session'[g] = Session[g]
  BY <1>6, <1>7
<1> QED BY <1>8 DEF Session

\* A client's steps begin a request, finish sending it, or do not show.
LEMMA SessionOnClient ==
  ASSUME Orderly, TypeOK, StreamSound, Talking, TypeOK', ClientStep
  PROVE  Session' = Session \/ \E f \in Fds : Sessions!Ask(f) \/ Sessions!Asked(f)
<1>1. /\ clients' = clients /\ stream' = stream /\ Open' = Open /\ (Running' <=> Running)
      /\ DOMAIN link = Open
  BY ClientEffect DEF server, Running, TypeOK
<1>2. ASSUME NEW f \in Open, NEW l, link' = [link EXCEPT ![f] = l]
      PROVE  /\ f \in Fds /\ link'[f] = l
             /\ \A g \in Fds \ {f} : Session'[g] = Session[g]
             /\ Session' = [Session EXCEPT ![f] = Session'[f]]
  <2>1. f \in Fds /\ link'[f] = l /\ \A g \in Open \ {f} : link'[g] = link[g]
    BY <1>1, <1>2 DEF TypeOK
  <2>2. ASSUME NEW g \in Fds \ {f} PROVE Session'[g] = Session[g]
    BY <1>1, <2>1, SameSession
  <2> QED BY <2>1, <2>2, OneSession
<1>3. ASSUME NEW f \in Open, StartRequest(f)
      PROVE  Sessions!Ask(f)
  <2>1. PICK k \in Kinds :
          link' = [link EXCEPT ![f].asked = @ + 1, ![f].todo = Wire(k, link[f].asked + 1)]
    BY <1>3 DEF StartRequest
  <2>2. link[f] \in Link /\ stream[f] \in Stream /\ Running /\ link[f].asked < MaxReqs
        /\ Answered(f)
    BY <1>3 DEF TypeOK, StartRequest, Orderly
  <2> DEFINE n == link[f].asked + 1
             w == Wire(k, n)
             l == [link[f] EXCEPT !.asked = n, !.todo = w]
  <2>3. l.asked = n /\ l.todo = w
    BY <2>2 DEF Link
  <2>4. n # stream[f].built
    BY <2>2 DEF Answered, Link, Stream
  <2>5. w # <<>>
    <3>1. n \in 1..MaxReqs /\ k \in Kind /\ Framed(k)
      BY <2>2, MaxReqsAssumption, KindsAssumption DEF Link, Orderly
    <3>2. Len(w) >= 2
      BY <3>1, WireFacts
    <3> QED BY <3>2
  <2>6. link' = [link EXCEPT ![f] = l]
    BY <2>1
  <2> HIDE DEF n, w, l
  <2>7. link'[f] = l /\ f \in Fds /\ Session' = [Session EXCEPT ![f] = Session'[f]]
    BY <1>2, <2>6
  <2>8. Session[f] = "idle"
    BY <2>2, SessionStands DEF Stands, Answered
  <2>9. Session'[f] = "asking"
    <3>1. Session'[f] = Stands(l, stream[f])
      BY <1>1, <2>2, <2>7, SessionStandsAfter
    <3>2. stream[f].built # l.asked /\ l.todo # <<>>
      BY <2>3, <2>4, <2>5
    <3> QED BY <3>1, <3>2 DEF Stands
  <2> QED BY <2>7, <2>8, <2>9 DEF Sessions!Ask, Sessions!Goes
<1>4. ASSUME NEW f \in Open, ClientSend(f)
      PROVE  Session' = Session \/ Sessions!Asked(f)
  <2>1. /\ link' = [link EXCEPT ![f].inbox = Append(@, Head(link[f].todo)), ![f].todo = Tail(@)]
        /\ link[f].todo # <<>> /\ Running
    BY <1>4 DEF ClientSend
  <2>2. /\ link[f] \in Link /\ stream[f] \in Stream
        /\ Talks(clients[f], link[f], stream[f])
    BY DEF TypeOK, Talking, Dialogue
  <2>3. Asking(clients[f], link[f], stream[f])
    BY <2>1, <2>2 DEF Talks, Silent
  <2>4. Session[f] = "asking"
    BY <2>1, <2>2, <2>3, SessionStands, StandsAsking
  <2> DEFINE l == [link[f] EXCEPT !.inbox = Append(@, Head(link[f].todo)), !.todo = Tail(@)]
  <2>5. /\ l.inbox = Append(link[f].inbox, Head(link[f].todo)) /\ l.todo = Tail(link[f].todo)
        /\ l.asked = link[f].asked
    BY <2>2 DEF Link
  <2>6. link' = [link EXCEPT ![f] = l]
    BY <2>1
  <2> HIDE DEF l
  <2>7. link'[f] = l /\ f \in Fds /\ Session' = [Session EXCEPT ![f] = Session'[f]]
    BY <1>2, <2>6
  <2>8. Asking(clients[f], l, stream[f])
    BY <2>1, <2>2, <2>5, TalksOnSend
  <2>9. Session'[f] = Stands(l, stream[f])
    BY <1>1, <2>1, <2>7, SessionStandsAfter
  <2>10. Session'[f] \in {"asked", "asking"}
    BY <2>2, <2>8, <2>9, StandsAsking
  <2>11. CASE Session'[f] = "asked"
    BY <2>4, <2>7, <2>11 DEF Sessions!Asked, Sessions!Goes
  <2>12. CASE Session'[f] = "asking"
    <3>1. Session = [g \in Fds |-> Session[g]]
      BY DEF Session
    <3> HIDE DEF Session
    <3> QED BY <2>4, <2>7, <2>12, <3>1
  <2> QED BY <2>10, <2>11, <2>12
<1>5. ASSUME NEW f \in Open, ClientRead(f) \/ ClientClose(f)
      PROVE  Session' = Session
  <2>1. PICK l \in {[link[f] EXCEPT !.full = FALSE], [link[f] EXCEPT !.peer = "fin"],
                    [link[f] EXCEPT !.peer = "rst"]} : link' = [link EXCEPT ![f] = l]
    BY <1>5 DEF ClientRead, ClientClose
  <2>2. l.todo = link[f].todo /\ l.asked = link[f].asked
    BY <2>1 DEF TypeOK, Link
  <2>3. link'[f] = l /\ f \in Fds /\ \A g \in Fds \ {f} : Session'[g] = Session[g]
    BY <1>2, <2>1
  <2>4. Session'[f] = Session[f]
    BY <1>1, <2>2, <2>3, SameSession
  <2>5. \A g \in Fds : Session'[g] = Session[g]
    BY <2>3, <2>4
  <2> QED BY <2>5 DEF Session
<1>6. CASE Connect
  <2>1. \A g \in Fds : Session'[g] = Session[g]
    BY <1>1, <1>6, SameSession DEF Connect
  <2> QED BY <2>1 DEF Session
<1>7. Open \subseteq Fds
  BY DEF TypeOK
<1> QED BY <1>3, <1>4, <1>5, <1>6, <1>7 DEF ClientStep

\* The other steps do not show, but for those that end the thread or the process.
LEMMA SessionOnOthers ==
  ASSUME TypeOK, Books,
         \/ Poll \/ PollFails \/ Skip \/ AcceptFails \/ ReceiveRequest \/ ReceiveFails
         \/ RefuseRequest \/ SendKills \/ BuildKills \/ PollError \/ EndScan \/ KeepConnection
         \/ EndClear \/ UNCHANGED vars
  PROVE  Session' = Session \/ Sessions!Stop
<1>1. CASE PollFails \/ SendKills \/ BuildKills
  <2>1. ~Running'
    BY <1>1 DEF PollFails, SendKills, BuildKills, Running
  <2> QED BY <2>1 DEF Session, Sessions!Stop
<1>2. CASE UNCHANGED <<clients, link, stream>> /\ (Running' <=> Running)
  <2>1. \A g \in Fds : Session'[g] = Session[g]
    BY <1>2, SameSession DEF Open
  <2> QED BY <2>1 DEF Session
<1>3. CASE ReceiveRequest
  <2>1. Running /\ Running'
    BY <1>3 DEF ReceiveRequest, VisitsReadable, Scanning, NextEntry, Running
  <2>2. stream' = stream /\ Open' = Open
    BY <1>3, ReceiveEffect DEF ReceiveRequest
  <2>3. \A g \in Open : /\ link'[g].asked = link[g].asked /\ link'[g].todo = link[g].todo
    BY <1>3, ReceiveEffect
  <2>4. \A g \in Fds : Session'[g] = Session[g]
    BY <2>1, <2>2, <2>3, SameSession
  <2> QED BY <2>4 DEF Session
<1> QED BY <1>1, <1>2, <1>3
        DEF Poll, Skip, AcceptFails, ReceiveFails, RefuseRequest, PollError, EndScan,
            KeepConnection, EndClear, VisitsListener, VisitsReadable, VisitsWritable, Scanning,
            NextEntry, Running, vars, server

\* Seen from outside, the event loop holds request/answer sessions: on each
\* connection requests and answers alternate, and no answer begins before its
\* request has been sent completely, whatever part of its bytes each send() takes.
\* (That every session is served in the end, the fairness of HttpSession, is left to
\* the model checker.)
THEOREM SessionsImplemented ==
  ASSUME Orderly
  PROVE  Spec => KeepsSessions
<1>1. Init => Sessions!Init
  BY DEF Init, Sessions!Init, Session, Open
<1>2. TypeOK /\ Books /\ WriteInterest /\ StreamSound /\ Talking /\ Paced /\ TypeOK'
      /\ [Next]_vars => [Sessions!Next]_Session
  <2> SUFFICES ASSUME TypeOK, Books, WriteInterest, StreamSound, Talking, Paced,
                      TypeOK', [Next]_vars
               PROVE  [Sessions!Next]_Session
    OBVIOUS
  <2>1. CASE AcceptConnection
    BY <2>1, SessionOnAccept DEF Sessions!Next
  <2>2. CASE CloseConnection
    BY <2>2, SessionOnClose DEF Sessions!Next
  <2>3. CASE SendResponse
    BY <2>3, SessionOnSend DEF Sessions!Next
  <2>4. CASE SendFails
    BY <2>4, SessionOnFailure
  <2>5. CASE ClientStep
    BY <2>5, SessionOnClient DEF Sessions!Next
  <2>6. CASE ~(AcceptConnection \/ CloseConnection \/ SendResponse \/ SendFails \/ ClientStep)
    BY <2>6, SessionOnOthers DEF Sessions!Next, Next, ServerStep, Scan, Clear
  <2> QED BY <2>1, <2>2, <2>3, <2>4, <2>5, <2>6
<1>3. Init => Paced
  BY DEF Init, Paced, Open
<1>4. TypeOK /\ Books /\ WriteInterest /\ StreamSound /\ Talking /\ Paced /\ [Next]_vars => Paced'
  BY NextPaced
<1>5. Spec => [](TypeOK /\ Books) /\ []WriteInterest /\ []StreamSound /\ []Talking
  BY TypeAndBooks, NoResponseStuck, StreamsSound, TalkingAlways
<1> QED BY <1>1, <1>2, <1>3, <1>4, <1>5, PTL DEF Spec, Sessions!Safety, KeepsSessions
=============================================================================
