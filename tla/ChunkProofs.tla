----------------------------- MODULE ChunkProofs -----------------------------
(***************************************************************************)
(* Proofs about the two chunked codings: how ChunkSplitter cuts an answer,  *)
(* for answers, chunks and limits of any size; and what ChunkedBody decodes, *)
(* for bodies of any length in chunks of any size that an int can hold.     *)
(***************************************************************************)
EXTENDS ChunkSplitter, ChunkedBody, Orders, SequenceTheorems, TLAPS

-----------------------------------------------------------------------------
(* Cutting *)


\* The inductive invariant: until the split the answer is as the script left it;
\* then every chunk ends before pos, and only the last one may be empty.
CutSoFar ==
  /\ pc = "cgi" => /\ size = answer.headers + Blank + answer.body
                   /\ headersEnd = answer.headers + Blank
  /\ pc \in {"cgi", "whole"} => chunks = <<>>
  /\ \A i \in 1..Len(chunks) : chunks[i].from + chunks[i].size <= pos
  /\ pc \in {"split", "done"} => pos <= size
  /\ pc = "split" => \A i \in 1..Len(chunks) : chunks[i].announced # 0

Inv == TypeOK /\ CutSoFar /\ EveryByteOnce /\ EndsWhereItShould

\* The lengths that the assumptions speak of.
LEMMA AnswerLengths ==
  ASSUME NEW a \in Answers
  PROVE  /\ a.headers \in Nat /\ a.body \in Nat
         /\ a.headers + Inserted + Blank < Chunk
         /\ a.headers + Blank \in Nat
         /\ Chunk \in Nat \ {0} /\ Need \in Nat /\ Chunk <= Need /\ Inserted \in Nat
  BY AnswersAssumption, ChunkAssumption, NeedAssumption, InsertedAssumption DEF Blank

\* A substring that is there is taken as a whole.
LEMMA SubstrWithin ==
  ASSUME NEW length \in Nat, NEW from \in Nat, NEW n \in Nat, n <= length - from
  PROVE  Taken(length, from, n) = n
  BY DEF Taken

LEMMA InitInv == Init => Inv
<1> SUFFICES ASSUME Init PROVE Inv
  OBVIOUS
<1>1. size \in Nat /\ headersEnd \in Nat
  BY AnswerLengths DEF Init, Blank
<1>2. chunks \in Seq(Piece) /\ Len(chunks) = 0
  BY EmptySeq DEF Init
<1> QED BY <1>1, <1>2 DEF Init, Inv, TypeOK, CutSoFar, EveryByteOnce, EndsWhereItShould

\* The first chunk: the body is longer than what is left of CHUNK_SIZE, so the
\* chunk holds what it announces.
LEMMA FirstChunk ==
  ASSUME Inv, SplitFirst
  PROVE  Inv'
<1> DEFINE left == Chunk - headersEnd'
           c == [announced |-> left, from |-> headersEnd', size |-> left]
<1>1. /\ answer \in Answers /\ headersEnd' \in Nat /\ size' \in Nat
      /\ left \in Nat \ {0} /\ headersEnd' + left = Chunk
      /\ Chunk \in Nat /\ Chunk <= size' /\ left <= size' - headersEnd'
  <2>1. /\ answer \in Answers /\ size = answer.headers + Blank + answer.body
        /\ headersEnd = answer.headers + Blank
        /\ size' = size + Inserted /\ headersEnd' = headersEnd + Inserted
        /\ answer.body >= Need
    BY DEF Inv, TypeOK, CutSoFar, SplitFirst
  <2> QED BY <2>1, AnswerLengths DEF Blank
<1>2. chunks' = <<c>> /\ pos' = Chunk /\ pc' = "split" /\ answer' = answer
  <2>1. Taken(size', headersEnd', left) = left
    <3> HIDE DEF left
    <3>1. left \in Nat /\ size' \in Nat /\ headersEnd' \in Nat
      BY <1>1
    <3>2. left <= size' - headersEnd'
      BY <1>1
    <3> QED BY <3>1, <3>2, SubstrWithin
  <2>2. chunks' = <<[announced |-> left, from |-> headersEnd', size |-> Taken(size', headersEnd', left)]>>
    BY DEF SplitFirst, FirstSize
  <2> QED BY <2>1, <2>2 DEF SplitFirst
<1>3. c \in Piece /\ c.announced = left /\ c.from = headersEnd' /\ c.size = left
  BY <1>1 DEF Piece
<1> HIDE DEF c, left
<1>4. /\ chunks' \in Seq(Piece) /\ Len(chunks') = 1 /\ chunks'[1] = c
      /\ \A i \in 1..Len(chunks') : i = 1
  BY <1>2, <1>3
<1>5. TypeOK'
  BY <1>1, <1>2, <1>4 DEF TypeOK
<1>6. CutSoFar'
  <2>1. c.from + c.size = Chunk /\ c.announced # 0
    BY <1>1, <1>3
  <2>2. \A i \in 1..Len(chunks') : /\ chunks'[i].from + chunks'[i].size <= pos'
                                  /\ chunks'[i].announced # 0
    BY <1>1, <1>2, <1>4, <2>1
  <2> QED BY <1>1, <1>2, <2>2 DEF CutSoFar
<1>7. EveryByteOnce'
  <2>1. ASSUME NEW p \in headersEnd'..(pos' - 1) PROVE Holds(chunks'[1], p)
    <3>1. p \in Int /\ headersEnd' <= p /\ p < Chunk
      BY <1>1, <1>2, <2>1
    <3>2. c.from <= p /\ p < c.from + c.size
      BY <1>1, <1>3, <3>1
    <3> QED BY <1>4, <3>2 DEF Holds
  <2> QED BY <1>1, <1>2, <1>4, <2>1 DEF EveryByteOnce
<1>8. EndsWhereItShould'
  BY <1>1, <1>2, <1>3, <1>4 DEF EndsWhereItShould
<1> QED BY <1>5, <1>6, <1>7, <1>8 DEF Inv

\* A later chunk takes up where the last one ended.
LEMMA LaterChunk ==
  ASSUME Inv, SplitNext
  PROVE  Inv'
<1> DEFINE left == NextSize
           c == [announced |-> left, from |-> pos, size |-> left]
           n == Len(chunks)
<1>1. /\ pos \in Nat /\ size \in Nat /\ headersEnd \in Nat /\ pos <= size
      /\ left \in Nat /\ left <= size - pos /\ (left = 0 => pos = size)
  BY ChunkAssumption DEF Inv, TypeOK, CutSoFar, SplitNext, NextSize
<1>2. /\ chunks' = Append(chunks, c) /\ pos' = pos + left /\ size' = size
      /\ headersEnd' = headersEnd /\ answer' = answer
      /\ pc' = IF left = 0 THEN "done" ELSE "split"
      /\ pc = "split"
  BY DEF SplitNext, Ends
<1>3. c \in Piece /\ c.announced = left /\ c.from = pos /\ c.size = left
  BY <1>1 DEF Piece
<1> HIDE DEF c, left
<1>4. /\ chunks \in Seq(Piece) /\ n \in Nat
      /\ chunks' \in Seq(Piece) /\ Len(chunks') = n + 1
      /\ \A i \in 1..n : chunks'[i] = chunks[i]
      /\ chunks'[n + 1] = c
  <2>1. chunks \in Seq(Piece)
    BY DEF Inv, TypeOK
  <2> QED BY <1>2, <1>3, <2>1, AppendProperties, LenProperties
<1>5. \A i \in 1..n : chunks[i] \in Piece
  BY <1>4, ElementOfSeq
<1> HIDE DEF n
<1>6. TypeOK'
  BY <1>1, <1>2, <1>4 DEF Inv, TypeOK
<1>7. CutSoFar'
  <2>1. ASSUME NEW i \in 1..(n + 1)
        PROVE  chunks'[i].from + chunks'[i].size <= pos'
    <3>1. CASE i = n + 1
      BY <1>1, <1>2, <1>3, <1>4, <3>1
    <3>2. CASE i # n + 1
      <4>1. i \in 1..n /\ chunks[i].from + chunks[i].size <= pos
        BY <1>4, <3>2 DEF Inv, CutSoFar, n
      <4> QED BY <1>1, <1>2, <1>4, <1>5, <4>1, SMTT(30) DEF Piece
    <3> QED BY <3>1, <3>2
  <2>2. ASSUME left # 0, NEW i \in 1..(n + 1)
        PROVE  chunks'[i].announced # 0
    <3>1. i \in 1..n => chunks[i].announced # 0
      BY <1>2 DEF Inv, CutSoFar, n
    <3> QED BY <1>3, <1>4, <2>2, <3>1
  <2> QED BY <1>1, <1>2, <1>4, <2>1, <2>2 DEF CutSoFar
<1>8. EveryByteOnce'
  <2>1. pos' <= size' /\ (pc' = "done" => pos' = size')
    BY <1>1, <1>2
  <2>2. ASSUME NEW p \in headersEnd'..(pos' - 1)
        PROVE  \E i \in 1..Len(chunks') : Holds(chunks'[i], p)
    <3>1. CASE p < pos
      <4>1. PICK i \in 1..n : Holds(chunks[i], p)
        BY <1>1, <1>2, <3>1 DEF Inv, EveryByteOnce, n
      <4> QED BY <1>4, <4>1
    <3>2. CASE p >= pos
      <4>1. Holds(chunks'[n + 1], p)
        BY <1>1, <1>2, <1>3, <1>4, <3>2 DEF Holds
      <4> QED BY <1>4, <4>1
    <3> QED BY <1>1, <3>1, <3>2
  <2>3. ASSUME NEW i \in 1..(n + 1), NEW j \in 1..(n + 1), i < j
        PROVE  chunks'[i].from + chunks'[i].size <= chunks'[j].from
    <3>1. i \in 1..n /\ chunks'[i] = chunks[i]
      BY <1>4, <2>3
    <3>2. CASE j = n + 1
      BY <1>3, <1>4, <3>1, <3>2 DEF Inv, CutSoFar, n
    <3>3. CASE j # n + 1
      <4>1. j \in 1..n
        BY <1>4, <3>3
      <4> QED BY <1>2, <1>4, <2>3, <3>1, <4>1 DEF Inv, EveryByteOnce, n
    <3> QED BY <3>2, <3>3
  <2> QED BY <1>4, <2>1, <2>2, <2>3 DEF EveryByteOnce
<1>9. EndsWhereItShould'
  <2>1. ASSUME NEW i \in 1..(n + 1)
        PROVE  /\ chunks'[i].announced = chunks'[i].size
               /\ chunks'[i].announced = 0 => pc' = "done" /\ i = n + 1
    <3>1. CASE i = n + 1
      BY <1>2, <1>3, <1>4, <3>1
    <3>2. CASE i # n + 1
      <4>1. i \in 1..n /\ chunks'[i] = chunks[i]
        BY <1>4, <3>2
      <4> QED BY <1>2, <4>1 DEF Inv, CutSoFar, EndsWhereItShould, n
    <3> QED BY <3>1, <3>2
  <2>2. pc' = "done" => Len(chunks') > 0 /\ chunks'[Len(chunks')].announced = 0
    BY <1>2, <1>3, <1>4
  <2> QED BY <1>4, <2>1, <2>2 DEF EndsWhereItShould
<1> QED BY <1>6, <1>7, <1>8, <1>9 DEF Inv

LEMMA NextInv == Inv /\ [Next]_vars => Inv'
<1> SUFFICES ASSUME Inv, [Next]_vars PROVE Inv'
  OBVIOUS
<1>1. CASE KeepWhole
  BY <1>1 DEF KeepWhole, Inv, TypeOK, CutSoFar, EveryByteOnce, EndsWhereItShould, Holds
<1>2. CASE SplitFirst
  BY <1>2, FirstChunk
<1>3. CASE SplitNext
  BY <1>3, LaterChunk
<1>4. CASE UNCHANGED vars
  BY <1>4 DEF vars, Inv, TypeOK, CutSoFar, EveryByteOnce, EndsWhereItShould, Holds
<1> QED BY <1>1, <1>2, <1>3, <1>4 DEF Next

\* Whatever the length of a script's answer, splitTo_chunks loses no byte of it,
\* doubles none and changes the order of none, and the client's reading ends where
\* the body ends: provided that the script's headers fit into the first chunk.
THEOREM SplittingIsFaithful == Spec => [](EveryByteOnce /\ EndsWhereItShould)
<1>1. Inv => EveryByteOnce /\ EndsWhereItShould
  BY DEF Inv
<1> QED BY <1>1, InitInv, NextInv, PTL DEF Spec

\* The part of it that the client's reading rests on: a chunk of size zero ends the
\* answer, and comes last.
THEOREM SplittingEnds == Spec => []EndsWhereItShould
<1> QED BY SplittingIsFaithful, PTL

-----------------------------------------------------------------------------
(* Decoding *)

\* What a text is made of.
Symbols == Range(Digits) \cup {"CR", "LF"} \cup UNION {Range(s) : s \in Bodies}

LEMMA SymbolsType ==
  /\ "CR" \in Symbols /\ "LF" \in Symbols
  /\ \A s \in Bodies : s \in Seq(Symbols)
<1>1. ASSUME NEW s \in Bodies PROVE s \in Seq(Symbols)
  <2>1. s \in Seq(Range(s)) /\ Range(s) \subseteq Symbols
    BY BodiesAssumption DEF Symbols
  <2> QED BY <2>1
<1> QED BY <1>1 DEF Symbols

LEMMA DigitsType ==
  /\ DOMAIN Digits = 1..16
  /\ \A i \in 1..16 : Digits[i] \in Symbols \ {"CR", "LF"} /\ Digits[i] \in Range(Digits)
  /\ \A i, j \in 1..16 : Digits[i] = Digits[j] => i = j
<1>1. Len(Digits) = 16 /\ DOMAIN Digits = 1..Len(Digits)
  BY DEF Digits
<1>2. \A i \in 1..16 : Digits[i] \notin {"CR", "LF"}
  BY DEF Digits
<1>3. \A i \in 1..16 : Digits[i] \in Range(Digits)
  BY <1>1 DEF Range
<1>4. \A i, j \in 1..16 : Digits[i] = Digits[j] => i = j
  BY DEF Digits
<1>5. \A i \in 1..16 : Digits[i] \in Symbols
  BY <1>3 DEF Symbols
<1> QED BY <1>1, <1>2, <1>3, <1>4, <1>5

LEMMA DigitOfDigit == ASSUME NEW v \in 0..15 PROVE DigitOf(Digits[v + 1]) = v
<1>1. \A u \in 0..15 : Digits[u + 1] = Digits[v + 1] => u = v
  <2>1. \A u \in 0..15 : u + 1 \in 1..16 /\ (u + 1 = v + 1 => u = v)
    OBVIOUS
  <2> QED BY <2>1, DigitsType
<1> QED BY <1>1 DEF DigitOf

\* An int holds the natural numbers below half of its values.
LEMMA SignedSmall == ASSUME NEW x \in Nat, x < Half PROVE Signed(x) = x
<1>1. Word \in Nat \ {0} /\ Half \in Nat /\ Word = 2 * Half
  BY WordAssumption DEF Half
<1>2. x + Half \in Nat /\ x + Half < Word
  BY <1>1
<1>3. (x + Half) % Word = x + Half
  BY <1>1, <1>2
<1> QED BY <1>1, <1>3 DEF Signed

LEMMA SignedType == ASSUME NEW x \in Int PROVE Signed(x) \in Int
<1>1. Word \in Nat \ {0} /\ Half \in Nat
  BY WordAssumption DEF Half
<1>2. x + Half \in Int
  BY <1>1
<1> DEFINE y == x + Half
<1> HIDE DEF y
<1>3. y % Word \in Int
  BY <1>1, <1>2 DEF y
<1> QED BY <1>1, <1>3 DEF Signed, y

\* Striking a digit.
LEMMA Halved ==
  ASSUME NEW x \in Nat
  PROVE  /\ x \div 16 \in Nat /\ x % 16 \in 0..15
         /\ x = 16 * (x \div 16) + (x % 16)
         /\ (x > 0 => x \div 16 < x)
<1>1. x \div 16 \in Nat
  OBVIOUS
<1>2. x % 16 \in 0..15
  OBVIOUS
<1>3. x = 16 * (x \div 16) + (x % 16)
  OBVIOUS
<1>4. x > 0 => x \div 16 < x
  OBVIOUS
<1> QED BY <1>1, <1>2, <1>3, <1>4

\* What is struck from n becomes less with every digit, until nothing is left.
LEMMA Striking ==
  ASSUME NEW n \in Nat
  PROVE  /\ Struck(n)[0] = n
         /\ \A i \in 1..n : Struck(n)[i] = Struck(n)[i - 1] \div 16
         /\ \A i \in 0..n : Struck(n)[i] \in Nat /\ Struck(n)[i] <= n - i
<1> DEFINE Is(f) == f = [i \in 0..n |-> IF i = 0 THEN n ELSE f[i - 1] \div 16]
           rest  == CHOOSE f : Is(f)
           step  == [i \in 1..n |-> [x \in Nat |-> x \div 16]]
           Low(i) == rest[i] \in Nat /\ rest[i] <= n - i
           Bad   == {i \in 0..n : ~ Low(i)}
<1>1. Struck(n) = rest
  BY DEF Struck
<1>2. Is(rest)
  <2>1. step \in [1..n -> [Nat -> Nat]]
    BY Halved
  <2>2. PICK f \in [0..n -> Nat] : f[0] = n /\ \A i \in 1..n : f[i] = step[i][f[i - 1]]
    <3> DEFINE All   == Nat
               first == n
    <3>1. n \in Nat /\ first \in All /\ step \in [1..n -> [All -> All]]
      BY <2>1
    <3> HIDE DEF step, All, first
    <3>2. \E f \in [0..n -> All] : f[0] = first /\ \A i \in 1..n : f[i] = step[i][f[i - 1]]
      BY <3>1, Recursion
    <3> QED BY <3>2 DEF All, first
  <2>3. ASSUME NEW i \in 0..n PROVE f[i] = IF i = 0 THEN n ELSE f[i - 1] \div 16
    <3>1. i # 0 => i \in 1..n /\ i - 1 \in 0..n
      BY <2>3
    <3>2. i # 0 => f[i - 1] \in Nat
      BY <2>2, <3>1
    <3> QED BY <2>2, <3>1, <3>2
  <2>4. Is(f)
    BY <2>2, <2>3
  <2> HIDE DEF Is
  <2> QED BY <2>4
<1> HIDE DEF rest
<1>3. rest[0] = n /\ \A i \in 1..n : rest[i] = rest[i - 1] \div 16
  BY <1>2
<1> HIDE DEF Is
<1>4. Bad = {}
  <2> SUFFICES ASSUME Bad # {} PROVE FALSE
    OBVIOUS
  <2>1. PICK m \in Bad : \A i \in Bad : m <= i
    <3>1. Bad \subseteq Nat
      OBVIOUS
    <3> HIDE DEF Bad
    <3> QED BY <3>1, LeastNatural
  <2>2. m # 0
    BY <1>3, <2>1
  <2> DEFINE k == m - 1
  <2>3. k \in 0..n /\ m \in 1..n /\ m = k + 1 /\ ~ m <= k
    BY <2>1, <2>2
  <2> HIDE DEF k
  <2>4. rest[k] \in Nat /\ rest[k] <= n - k
    BY <2>1, <2>3
  <2>5. rest[m] = rest[k] \div 16
    <3>1. m - 1 = k
      BY <2>3
    <3> QED BY <1>3, <2>3, <3>1
  <2> DEFINE x == rest[k]
             y == x \div 16
  <2>6. y \in Nat /\ (x > 0 => y < x)
    BY <2>4, Halved
  <2>7. x = 0 => y = 0
    OBVIOUS
  <2>8. rest[m] = y /\ x \in Nat /\ x <= n - k
    BY <2>4, <2>5
  <2> HIDE DEF y, x
  <2>9. y <= n - m
    BY <2>3, <2>6, <2>7, <2>8
  <2> QED BY <2>1, <2>6, <2>8, <2>9
<1> QED BY <1>1, <1>3, <1>4

\* A number has at least one digit, and its first one is no zero unless it is zero.
LEMMA Widths ==
  ASSUME NEW n \in Nat
  PROVE  /\ Width(n) \in Nat \ {0} /\ Width(n) - 1 \in 0..n
         /\ n > 0 => Width(n) \in 1..n /\ Struck(n)[Width(n)] = 0
         /\ n = 0 => Width(n) = 1
         /\ \A i \in 1..(Width(n) - 1) : Struck(n)[i] # 0
<1> DEFINE Fits(w) == w = n + 1 \/ Struck(n)[w] = 0
           W       == {w \in 1..(n + 1) : Fits(w)}
<1>1. \E w \in W : \A v \in W : w <= v
  <2>1. n + 1 \in W /\ W \subseteq Nat
    OBVIOUS
  <2> HIDE DEF W
  <2> QED BY <2>1, LeastNatural
<1>2. \E w \in 1..(n + 1) : Fits(w) /\ \A i \in 1..(w - 1) : Struck(n)[i] # 0
  <2>1. PICK w \in W : \A v \in W : w <= v
    BY <1>1
  <2>2. ASSUME NEW i \in 1..(w - 1) PROVE Struck(n)[i] # 0
    <3>1. i \in 1..(n + 1) /\ ~ w <= i
      BY <2>1, <2>2
    <3> QED BY <2>1, <3>1
  <2> QED BY <2>1, <2>2
<1>3. Width(n) = CHOOSE w \in 1..(n + 1) : Fits(w) /\ \A i \in 1..(w - 1) : Struck(n)[i] # 0
  BY DEF Width
<1> HIDE DEF Fits
<1>4. /\ Width(n) \in 1..(n + 1) /\ Fits(Width(n))
      /\ \A i \in 1..(Width(n) - 1) : Struck(n)[i] # 0
  BY <1>2, <1>3
<1>5. n > 0 => Width(n) \in 1..n
  <2> SUFFICES ASSUME n > 0, Width(n) = n + 1 PROVE FALSE
    BY <1>4
  <2>1. n \in 1..(Width(n) - 1) /\ n \in 0..n
    OBVIOUS
  <2>2. Struck(n)[n] \in Nat /\ Struck(n)[n] <= n - n
    BY <2>1, Striking
  <2> QED BY <1>4, <2>1, <2>2
<1>6. n > 0 => Struck(n)[Width(n)] = 0
  BY <1>4, <1>5 DEF Fits
<1> QED BY <1>4, <1>5, <1>6

\* The digits that the client writes.
LEMMA HexDigits ==
  ASSUME NEW n \in Nat
  PROVE  /\ HexOf(n) \in Seq(Symbols) /\ Len(HexOf(n)) = Width(n)
         /\ \A i \in 1..Width(n) :
              /\ HexOf(n)[i] \notin {"CR", "LF"}
              /\ HexOf(n)[i] = Digits[(Struck(n)[Width(n) - i] % 16) + 1]
              /\ Width(n) - i \in 0..n
<1> DEFINE w == Width(n)
<1>1. w \in Nat /\ w - 1 \in 0..n
  BY Widths
<1> HIDE DEF w
<1>2. ASSUME NEW i \in 1..w
      PROVE  w - i \in 0..n /\ (Struck(n)[w - i] % 16) + 1 \in 1..16
  <2>1. w - i \in 0..n
    BY <1>1, <1>2
  <2> DEFINE x == Struck(n)[w - i]
  <2>2. x \in Nat
    BY <2>1, Striking
  <2> HIDE DEF x
  <2>3. x % 16 \in 0..15
    BY <2>2, Halved
  <2> DEFINE d == x % 16
  <2> HIDE DEF d
  <2>4. d \in 0..15
    BY <2>3 DEF d
  <2>5. d + 1 \in 1..16
    BY <2>4
  <2> QED BY <2>1, <2>5 DEF d, x
<1>3. HexOf(n) = [i \in 1..w |-> Digits[(Struck(n)[w - i] % 16) + 1]]
  BY DEF HexOf, w
<1>4. ASSUME NEW i \in 1..w PROVE HexOf(n)[i] \in Symbols \ {"CR", "LF"}
  <2> DEFINE d == (Struck(n)[w - i] % 16) + 1
  <2>1. HexOf(n)[i] = Digits[d] /\ d \in 1..16
    BY <1>2, <1>3
  <2> HIDE DEF d
  <2> QED BY <2>1, DigitsType
<1>5. HexOf(n) \in Seq(Symbols) /\ Len(HexOf(n)) = w
  <2>1. DOMAIN HexOf(n) = 1..w /\ HexOf(n) \in [1..w -> Symbols]
    BY <1>3, <1>4
  <2> HIDE DEF HexOf
  <2> QED BY <1>1, <2>1
<1>6. \A i \in 1..w : HexOf(n)[i] = Digits[(Struck(n)[w - i] % 16) + 1]
  BY <1>3
<1> QED BY <1>2, <1>4, <1>5, <1>6 DEF w

\* hexToDec goes from digit to digit.
LEMMA Summing ==
  ASSUME NEW s \in Seq(Symbols)
  PROVE  /\ Sums(s)[0] = [dec |-> 0, base |-> 1]
         /\ \A i \in 1..Len(s) : Sums(s)[i] = WithDigit(Sums(s)[i - 1], s[Len(s) + 1 - i])
<1> DEFINE zero  == [dec |-> 0, base |-> 1]
           n     == Len(s)
           Sum   == [dec : Int, base : Int]
           Is(f) == f = [i \in 0..n |-> IF i = 0 THEN zero ELSE WithDigit(f[i - 1], s[n + 1 - i])]
           sum   == CHOOSE f : Is(f)
           step  == [i \in 1..n |-> [x \in Sum |-> WithDigit(x, s[n + 1 - i])]]
<1>1. Sums(s) = sum
  BY DEF Sums
<1>2. ASSUME NEW x \in Sum, NEW c PROVE WithDigit(x, c) \in Sum
  <2>1. CASE c \in Range(Digits)
    <3>1. DigitOf(c) \in 0..15
      <4>1. PICK i \in 1..16 : Digits[i] = c
        BY <2>1, DigitsType DEF Range
      <4>2. i - 1 \in 0..15 /\ (i - 1) + 1 = i
        OBVIOUS
      <4>3. \E v \in 0..15 : Digits[v + 1] = c
        BY <4>1, <4>2
      <4> QED BY <4>3 DEF DigitOf
    <3> DEFINE v == DigitOf(c)
               p == x.dec + v * x.base
               q == x.base * 16
    <3>2. v \in Int /\ x.dec \in Int /\ x.base \in Int
      BY <3>1
    <3>3. p \in Int /\ q \in Int
      <4> HIDE DEF v
      <4> QED BY <3>2
    <3>4. WithDigit(x, c) = [dec |-> Signed(p), base |-> Signed(q)]
      BY <2>1 DEF WithDigit
    <3> HIDE DEF p, q
    <3> QED BY <3>3, <3>4, SignedType
  <2>2. CASE c \notin Range(Digits)
    BY <2>2 DEF WithDigit
  <2> QED BY <2>1, <2>2
<1>3. n \in Nat /\ zero \in Sum
  OBVIOUS
<1>4. step \in [1..n -> [Sum -> Sum]]
  <2> HIDE DEF Sum
  <2> QED BY <1>2
<1>5. Is(sum)
  <2>1. PICK f \in [0..n -> Sum] : f[0] = zero /\ \A i \in 1..n : f[i] = step[i][f[i - 1]]
    <3> HIDE DEF step, Sum, zero, n
    <3> QED BY <1>3, <1>4, Recursion
  <2> HIDE DEF Sum, zero, n
  <2>2. ASSUME NEW i \in 0..n PROVE f[i] = IF i = 0 THEN zero ELSE WithDigit(f[i - 1], s[n + 1 - i])
    <3>1. i # 0 => i \in 1..n /\ i - 1 \in 0..n
      BY <1>3, <2>2
    <3>2. CASE i = 0
      BY <2>1, <3>2
    <3>3. CASE i # 0
      <4>1. i \in 1..n /\ f[i - 1] \in Sum
        BY <2>1, <3>1, <3>3
      <4>2. step[i][f[i - 1]] = WithDigit(f[i - 1], s[n + 1 - i])
        BY <4>1
      <4> HIDE DEF step
      <4> QED BY <2>1, <3>3, <4>2
    <3> QED BY <3>2, <3>3
  <2>3. Is(f)
    BY <2>1, <2>2
  <2> HIDE DEF Is
  <2> QED BY <2>3
<1> HIDE DEF sum
<1>6. sum[0] = zero /\ \A i \in 1..n : sum[i] = WithDigit(sum[i - 1], s[n + 1 - i])
  <2> HIDE DEF zero, n
  <2> QED BY <1>3, <1>5
<1> QED BY <1>1, <1>6

\* After i digits what is read and what is left make up n, in powers that fit an int.
ReadSo(n, i) ==
  LET sum == Sums(HexOf(n))[i]  rest == Struck(n)[i]
  IN  /\ sum.dec \in Nat
      /\ rest = 0 => sum.dec = n
      /\ rest > 0 => sum.base \in Nat \ {0} /\ sum.dec + rest * sum.base = n

\* A round of hexToDec on such a digit.
LEMMA RoundReads ==
  ASSUME NEW n \in Nat, n < Half, NEW i \in 0..n, i + 1 \in 1..Width(n),
         Struck(n)[i] > 0, i + 1 <= n, ReadSo(n, i)
  PROVE  ReadSo(n, i + 1)
<1> DEFINE s    == HexOf(n)
           w    == Width(n)
           x    == Struck(n)[i]
           q    == Struck(n)[i + 1]
           d    == x % 16
           dec  == Sums(s)[i].dec
           base == Sums(s)[i].base
<1>1. w \in Nat /\ i \in Nat /\ s \in Seq(Symbols) /\ Len(s) = w
  BY HexDigits, Widths
<1>2. x \in Nat \ {0} /\ q \in Nat /\ q = x \div 16
  <2>1. i + 1 \in 1..n /\ i + 1 \in 0..n /\ (i + 1) - 1 = i
    BY <1>1
  <2>2. Struck(n)[i + 1] = Struck(n)[i] \div 16
    BY <2>1, Striking
  <2> QED BY <2>1, <2>2, Striking
<1>3. d \in 0..15 /\ x = 16 * q + d
  <2> HIDE DEF x, q
  <2>1. x % 16 \in 0..15 /\ x = 16 * (x \div 16) + (x % 16)
    BY <1>2, Halved
  <2> QED BY <1>2, <2>1
<1>4. Sums(s)[i + 1] = WithDigit(Sums(s)[i], Digits[d + 1])
  <2>1. w - i \in 1..w /\ w + 1 - (i + 1) = w - i /\ w - (w - i) = i /\ (i + 1) - 1 = i
    BY <1>1
  <2>2. s[w - i] = Digits[(Struck(n)[w - (w - i)] % 16) + 1]
    BY <2>1, HexDigits
  <2>3. s[w - i] = Digits[d + 1]
    BY <2>1, <2>2
  <2>4. Sums(s)[i + 1] = WithDigit(Sums(s)[(i + 1) - 1], s[Len(s) + 1 - (i + 1)])
    <3> HIDE DEF s
    <3> QED BY <1>1, Summing
  <2> HIDE DEF s, w, d
  <2> QED BY <1>1, <2>1, <2>3, <2>4
<1> HIDE DEF d
<1>5. Sums(s)[i + 1] = [dec |-> Signed(dec + d * base), base |-> Signed(base * 16)]
  <2>1. DigitOf(Digits[d + 1]) = d /\ Digits[d + 1] \in Range(Digits)
    <3>1. d + 1 \in 1..16
      BY <1>3
    <3> QED BY <1>3, <3>1, DigitOfDigit, DigitsType
  <2> QED BY <1>4, <2>1 DEF WithDigit
<1>6. dec \in Nat /\ base \in Nat \ {0} /\ dec + x * base = n
  BY <1>2 DEF ReadSo
<1> DEFINE r == Sums(s)[i + 1]
<1>7. r.dec = Signed(dec + d * base) /\ r.base = Signed(base * 16)
  BY <1>5
<1> HIDE DEF s, w, x, q, dec, base, r
<1>8. /\ r.dec \in Nat
      /\ q = 0 => r.dec = n
      /\ q > 0 => r.base \in Nat \ {0} /\ r.dec + q * r.base = n
  \* Of what is left, D is the last digit and Q the rest; u and v are what this round makes.
  <2>1. PICK Q \in Nat, D \in 0..15, e \in Nat, b \in Nat \ {0} :
           Q = q /\ D = d /\ e = dec /\ b = base
    BY <1>2, <1>3, <1>6
  <2> DEFINE a == D * b
             v == b * 16
             c == Q * v
             u == e + a
             p == (16 * Q + D) * b
  <2>2. a \in Nat /\ v \in Nat \ {0} /\ c \in Nat /\ p = a + c
    OBVIOUS
  <2>3. Q > 0 => v <= c
    <3>1. ASSUME NEW y \in Nat \ {0}, NEW z \in Nat PROVE z <= y * z
      OBVIOUS
    <3> HIDE DEF v
    <3> QED BY <2>2, <3>1
  <2>4. Q = 0 => c = 0
    OBVIOUS
  <2>5. e + p = n
    BY <1>3, <1>6, <2>1
  <2>6. r.dec = Signed(u) /\ r.base = Signed(v)
    BY <1>7, <2>1
  <2> HIDE DEF a, v, c, p
  <2>7. u \in Nat /\ u < Half /\ u + c = n /\ (Q > 0 => v < Half) /\ Half \in Nat
    <3>1. Half \in Nat
      BY WordAssumption DEF Half
    <3> QED BY <2>2, <2>3, <2>5, <3>1
  <2> HIDE DEF u
  <2>8. r.dec = u /\ (Q > 0 => r.base = v)
    BY <2>2, <2>6, <2>7, SignedSmall
  <2>9. u \in Nat /\ (Q = 0 => u = n) /\ (Q > 0 => u + Q * v = n)
    BY <2>2, <2>4, <2>7 DEF c
  <2> QED BY <2>1, <2>2, <2>8, <2>9
<1> QED BY <1>8 DEF ReadSo, r, s, q

\* So n is read when the last of its digits is.
LEMMA AllRead == ASSUME NEW n \in Nat \ {0}, n < Half PROVE ReadSo(n, Width(n))
<1> DEFINE w   == Width(n)
           Bad == {i \in 0..w : ~ ReadSo(n, i)}
<1>1. w \in 1..n
  BY Widths
<1>2. ReadSo(n, 0)
  <2>1. Sums(HexOf(n))[0] = [dec |-> 0, base |-> 1] /\ Struck(n)[0] = n
    BY HexDigits, Summing, Striking
  <2>2. 0 + n * 1 = n
    OBVIOUS
  <2> QED BY <2>1, <2>2 DEF ReadSo
<1>3. Bad = {}
  <2> SUFFICES ASSUME Bad # {} PROVE FALSE
    OBVIOUS
  <2>1. PICK m \in Bad : \A i \in Bad : m <= i
    <3>1. Bad \subseteq Nat
      BY <1>1
    <3> HIDE DEF Bad
    <3> QED BY <3>1, LeastNatural
  <2>2. m # 0 /\ m \in 0..w
    BY <1>2, <2>1
  <2> DEFINE k == m - 1
  <2> HIDE DEF w
  <2>3. k \in 0..w /\ k \in 0..n /\ m = k + 1 /\ ~ m <= k /\ k + 1 \in 1..w /\ k + 1 <= n
    BY <1>1, <2>2
  <2> HIDE DEF k
  <2>4. ReadSo(n, k)
    BY <2>1, <2>3
  <2>5. Struck(n)[k] > 0
    <3>1. k = 0 \/ k \in 1..(w - 1)
      BY <1>1, <2>3
    <3>2. Struck(n)[k] \in Nat /\ Struck(n)[0] = n /\ \A i \in 1..(w - 1) : Struck(n)[i] # 0
      BY <2>3, Striking, Widths DEF w
    <3> QED BY <3>1, <3>2
  <2>6. ReadSo(n, k + 1)
    BY <2>3, <2>4, <2>5, RoundReads DEF w
  <2> QED BY <2>1, <2>3, <2>6
<1>4. w \in 0..w
  BY <1>1
<1> QED BY <1>3, <1>4

\* hexToDec reads what the client has written, if an int can hold it.
LEMMA HexInverts == ASSUME NEW n \in Nat, n < Half PROVE HexToDec(HexOf(n)) = n
<1>1. CASE n > 0
  <2>1. Struck(n)[Width(n)] = 0 /\ Len(HexOf(n)) = Width(n)
    BY <1>1, Widths, HexDigits
  <2>2. ReadSo(n, Width(n))
    BY <1>1, AllRead
  <2> QED BY <2>1, <2>2 DEF ReadSo, HexToDec
<1>2. CASE n = 0
  <2> DEFINE s == HexOf(n)
  <2>1. s \in Seq(Symbols) /\ Len(s) = 1 /\ s[1] = Digits[(Struck(n)[1 - 1] % 16) + 1]
    <3>1. Width(n) = 1 /\ 1 \in 1..Width(n)
      BY <1>2, Widths
    <3>2. s \in Seq(Symbols) /\ Len(s) = 1
      BY <3>1, HexDigits
    <3>3. s[1] = Digits[(Struck(n)[Width(n) - 1] % 16) + 1]
      BY <3>1, HexDigits
    <3> QED BY <3>1, <3>2, <3>3
  <2>2. Struck(n)[0] = 0 /\ 1 - 1 = 0 /\ 0 % 16 = 0
    BY <1>2, Striking
  <2>3. s[1] = Digits[1]
    BY <2>1, <2>2
  <2>4. DigitOf(Digits[1]) = 0 /\ Digits[1] \in Range(Digits)
    <3>1. 0 \in 0..15 /\ 0 + 1 = 1 /\ 1 \in 1..16
      OBVIOUS
    <3> QED BY <3>1, DigitOfDigit, DigitsType
  <2> HIDE DEF s
  <2>5. Sums(s)[0] = [dec |-> 0, base |-> 1] /\ Sums(s)[1] = WithDigit(Sums(s)[0], s[1])
    <3>1. 1 \in 1..Len(s) /\ Len(s) + 1 - 1 = 1 /\ 1 - 1 = 0
      BY <2>1
    <3>2. Sums(s)[1] = WithDigit(Sums(s)[1 - 1], s[Len(s) + 1 - 1])
      BY <2>1, <3>1, Summing
    <3> QED BY <2>1, <3>1, <3>2, Summing
  <2>6. Sums(s)[1].dec = Signed(0 + 0 * 1)
    BY <2>3, <2>4, <2>5 DEF WithDigit
  <2>7. Signed(0) = 0
    BY <1>2, SignedSmall
  <2>8. 0 + 0 * 1 = 0
    OBVIOUS
  <2>9. HexToDec(s) = 0
    BY <2>1, <2>6, <2>7, <2>8 DEF HexToDec
  <2> QED BY <1>2, <2>9 DEF s
<1> QED BY <1>1, <1>2
-----------------------------------------------------------------------------
\* The lengths that an int can hold.
Ints == {n \in Nat : n < Half}

\* In text t a chunk stands behind the first b symbols: it has the n symbols of s that
\* follow the first c, after a size line with w digits.
Stands(t, s, b, c, n, w) ==
  /\ b + w + n + 4 <= Len(t) /\ c + n <= Len(s)
  /\ w = Len(HexOf(n)) /\ \A i \in 1..w : t[b + i] = HexOf(n)[i]
  /\ t[b + w + 1] = "CR" /\ t[b + w + 2] = "LF"
  /\ \A i \in 1..n : t[b + w + 2 + i] = s[c + i]

\* The places of t where a size line begins: each is how many symbols of t are before
\* it, and how many of s are in the chunks before it.
Chunked(t, s, g, C) ==
  /\ C \subseteq Nat \X Nat /\ <<0, 0>> \in C
  /\ \A b, c \in Nat : <<b, c>> \in C =>
       \/ b = Len(t) /\ c = g
       \/ \E n \in Ints, w \in Nat \ {0} : Stands(t, s, b, c, n, w) /\ <<b + w + n + 4, c + n>> \in C

\* The inductive invariant: the parser is always at such a place, and has read as
\* many symbols as are before it.
Reading ==
  /\ sent \in Seq(Symbols) /\ text \in Seq(Symbols) /\ given \in 0..Len(sent)
  /\ coded \in BOOLEAN /\ stale \in BOOLEAN /\ isChunked \in BOOLEAN
  /\ state \in {"send", "parse", "loop", "done"}
  /\ coded =>
       /\ state # "send" => given = Len(sent) /\ text # <<>>
       /\ \E C \in SUBSET (Nat \X Nat) :
            Chunked(text, sent, given, C) /\ <<lineStart - 1, Len(body)>> \in C
       /\ state \in {"send", "parse"} => lineStart = 1 /\ body = <<>>
       /\ lineStart \in Nat \ {0} /\ Len(body) <= Len(sent) /\ body = SubSeq(sent, 1, Len(body))
       /\ state = "done" => Len(body) = Len(sent)
  /\ ~coded => text = sent /\ state # "send"
  /\ ~coded /\ ~stale => ~isChunked /\ body = IF state = "done" THEN sent ELSE <<>>
  /\ ~coded /\ ~stale => state # "loop"

LEMMA BodyInitReading == BodyInit => Reading
<1> SUFFICES ASSUME BodyInit PROVE Reading
  OBVIOUS
<1>1. sent \in Seq(Symbols) /\ Len(sent) \in Nat /\ given \in 0..Len(sent)
  BY SymbolsType DEF BodyInit
<1>2. CASE coded
  <2>1. text = <<>> /\ state = "send" /\ lineStart = 1 /\ body = <<>> /\ given = 0
    BY <1>2 DEF BodyInit
  <2>2. Len(<<>>) = 0 /\ SubSeq(sent, 1, 0) = <<>> /\ <<>> \in Seq(Symbols)
    BY <1>1
  <2>3. Chunked(text, sent, given, {<<0, 0>>})
    BY <2>1, <2>2 DEF Chunked
  <2>4. {<<0, 0>>} \in SUBSET (Nat \X Nat)
    OBVIOUS
  <2> QED BY <1>1, <1>2, <2>1, <2>2, <2>3, <2>4 DEF BodyInit, Reading
<1>3. CASE ~coded
  BY <1>1, <1>3 DEF BodyInit, Reading
<1> QED BY <1>2, <1>3

\* A text behind another.
LEMMA Joined ==
  ASSUME NEW p \in Seq(Symbols), NEW q \in Seq(Symbols)
  PROVE  /\ p \o q \in Seq(Symbols) /\ Len(p) \in Nat /\ Len(q) \in Nat
         /\ Len(p \o q) = Len(p) + Len(q)
         /\ \A i \in 1..Len(p) : (p \o q)[i] = p[i]
         /\ \A i \in 1..Len(q) : (p \o q)[Len(p) + i] = q[i]
<1>1. Len(p) \in Nat /\ Len(q) \in Nat
  OBVIOUS
<1>2. ASSUME NEW i \in 1..Len(p) PROVE (p \o q)[i] = p[i]
  BY <1>1, ConcatProperties
<1>3. ASSUME NEW i \in 1..Len(q) PROVE (p \o q)[Len(p) + i] = q[i]
  BY <1>1, ConcatProperties
<1> QED BY <1>1, <1>2, <1>3, ConcatProperties

\* Text v begins with t.
Longer(t, v) == Len(t) <= Len(v) /\ \A i \in 1..Len(t) : v[i] = t[i]

\* It has, behind t, a chunk of the n symbols of d, with w digits in its size line.
Behind(t, d, n, w, v) ==
  /\ v \in Seq(Symbols) /\ Len(v) = Len(t) + w + n + 4 /\ w = Len(HexOf(n))
  /\ Longer(t, v)
  /\ \A i \in 1..w : v[Len(t) + i] = HexOf(n)[i]
  /\ v[Len(t) + w + 1] = "CR" /\ v[Len(t) + w + 2] = "LF"
  /\ \A i \in 1..n : v[Len(t) + w + 2 + i] = d[i]

\* A chunk that the client adds to the text stands behind what was there.
LEMMA ChunkAdded ==
  ASSUME NEW t \in Seq(Symbols), NEW d \in Seq(Symbols), NEW n \in Ints, Len(d) = n,
         NEW v, v = t \o ChunkOf(d)
  PROVE  \E w \in Nat \ {0} : Behind(t, d, n, w, v)
<1> DEFINE h  == HexOf(n)
           w  == Len(h)
           u1 == h \o CRLF
           u2 == u1 \o d
           u3 == u2 \o CRLF
           u  == t \o u3
<1>0. n \in Nat
  BY DEF Ints
<1>1. HexOf(n) \in Seq(Symbols) /\ Len(HexOf(n)) \in Nat \ {0}
  <2> HIDE DEF h, u1, u2, u3, u, w
  <2> QED BY <1>0, HexDigits, Widths
<1>2. CRLF \in Seq(Symbols) /\ Len(CRLF) = 2 /\ CRLF[1] = "CR" /\ CRLF[2] = "LF"
  BY SymbolsType DEF CRLF
<1> HIDE DEF h
<1>3. /\ u1 \in Seq(Symbols) /\ Len(u1) = w + 2
      /\ \A i \in 1..w : u1[i] = h[i]
      /\ u1[w + 1] = "CR" /\ u1[w + 2] = "LF"
  <2>1. h \in Seq(Symbols) /\ w \in Nat
    BY <1>1 DEF h
  <2>2. /\ h \o CRLF \in Seq(Symbols) /\ Len(h \o CRLF) = Len(h) + Len(CRLF)
        /\ \A i \in 1..Len(h) : (h \o CRLF)[i] = h[i]
        /\ \A i \in 1..Len(CRLF) : (h \o CRLF)[Len(h) + i] = CRLF[i]
    BY <1>2, <2>1, Joined
  <2>3. (h \o CRLF)[w + 1] = "CR" /\ (h \o CRLF)[w + 2] = "LF"
    BY <1>2, <2>2
  <2> QED BY <1>2, <2>1, <2>2, <2>3
<1> HIDE DEF u1
<1>4. /\ u2 \in Seq(Symbols) /\ Len(u2) = w + 2 + n
      /\ \A i \in 1..(w + 2) : u2[i] = u1[i]
      /\ \A i \in 1..n : u2[w + 2 + i] = d[i]
  <2>1. w \in Nat
    BY <1>1 DEF h
  <2> HIDE DEF w
  <2>2. /\ u1 \o d \in Seq(Symbols) /\ Len(u1 \o d) = Len(u1) + Len(d)
        /\ \A i \in 1..Len(u1) : (u1 \o d)[i] = u1[i]
        /\ \A i \in 1..Len(d) : (u1 \o d)[Len(u1) + i] = d[i]
    BY <1>3, Joined
  <2> QED BY <1>0, <1>3, <2>1, <2>2
<1> HIDE DEF u2
<1>5. /\ u3 \in Seq(Symbols) /\ Len(u3) = w + 4 + n
      /\ \A i \in 1..(w + 2 + n) : u3[i] = u2[i]
  <2>1. w \in Nat
    BY <1>1 DEF h
  <2>2. /\ u2 \o CRLF \in Seq(Symbols) /\ Len(u2 \o CRLF) = Len(u2) + Len(CRLF)
        /\ \A i \in 1..Len(u2) : (u2 \o CRLF)[i] = u2[i]
        /\ \A i \in 1..Len(CRLF) : (u2 \o CRLF)[Len(u2) + i] = CRLF[i]
    BY <1>2, <1>4, Joined
  <2> HIDE DEF w
  <2> QED BY <1>0, <1>2, <1>4, <2>1, <2>2
<1> HIDE DEF u3
<1>6. /\ u \in Seq(Symbols) /\ Len(u) = Len(t) + w + 4 + n
      /\ \A i \in 1..Len(t) : u[i] = t[i]
      /\ \A i \in 1..(w + 4 + n) : u[Len(t) + i] = u3[i]
  <2>1. w \in Nat /\ Len(t) \in Nat
    BY <1>1 DEF h
  <2>2. /\ t \o u3 \in Seq(Symbols) /\ Len(t \o u3) = Len(t) + Len(u3)
        /\ \A i \in 1..Len(t) : (t \o u3)[i] = t[i]
        /\ \A i \in 1..Len(u3) : (t \o u3)[Len(t) + i] = u3[i]
    BY <1>5, Joined
  <2> QED BY <1>5, <2>1, <2>2
<1>7. v = u
  BY DEF ChunkOf, u3, u2, u1, h
<1> HIDE DEF u
<1>8. w \in Nat \ {0} /\ n \in Nat
  BY <1>0, <1>1 DEF h
<1> HIDE DEF w
<1>9. ASSUME NEW i \in 1..w PROVE u[Len(t) + i] = h[i]
  <2>1. i \in 1..(w + 2) /\ i \in 1..(w + 2 + n) /\ i \in 1..(w + 4 + n)
    BY <1>8
  <2> QED BY <2>1, <1>3, <1>4, <1>5, <1>6
<1>10. u[Len(t) + w + 1] = "CR" /\ u[Len(t) + w + 2] = "LF"
  <2>1. /\ Len(t) + w + 1 = Len(t) + (w + 1) /\ Len(t) + w + 2 = Len(t) + (w + 2)
        /\ \A j \in {w + 1, w + 2} : j \in 1..(w + 2) /\ j \in 1..(w + 2 + n) /\ j \in 1..(w + 4 + n)
    BY <1>8
  <2>2. \A j \in {w + 1, w + 2} : u[Len(t) + j] = u1[j]
    BY <2>1, <1>4, <1>5, <1>6
  <2> QED BY <2>1, <2>2, <1>3
<1>11. ASSUME NEW i \in 1..n PROVE u[Len(t) + w + 2 + i] = d[i]
  <2>1. /\ Len(t) + w + 2 + i = Len(t) + (w + 2 + i)
        /\ w + 2 + i \in 1..(w + 2 + n) /\ w + 2 + i \in 1..(w + 4 + n)
    BY <1>8
  <2> QED BY <2>1, <1>4, <1>5, <1>6
<1>12. Len(t) + w + 4 + n = Len(t) + w + n + 4
  BY <1>8
<1>13. Len(t) <= Len(u)
  BY <1>6, <1>8
<1>14. Behind(t, d, n, w, v)
  BY <1>6, <1>7, <1>9, <1>10, <1>11, <1>12, <1>13 DEF w, h, Behind, Longer
<1> QED BY <1>8, <1>14

\* What stands in a text still stands when more follows.
LEMMA StillStands ==
  ASSUME NEW t \in Seq(Symbols), NEW u \in Seq(Symbols), NEW s \in Seq(Symbols),
         Longer(t, u),
         NEW b \in Nat, NEW c \in Nat, NEW n \in Nat, NEW w \in Nat,
         Stands(t, s, b, c, n, w)
  PROVE  Stands(u, s, b, c, n, w)
<1>1. Len(t) \in Nat /\ Len(u) \in Nat /\ n \in Nat /\ w \in Nat
  OBVIOUS
<1>2. b + w + n + 4 <= Len(t)
  BY DEF Stands
<1>3. b + w + n + 4 <= Len(u) /\ b + w + 1 \in 1..Len(t) /\ b + w + 2 \in 1..Len(t)
  BY <1>1, <1>2 DEF Longer
<1>4. \A i \in 1..w : b + i \in 1..Len(t)
  BY <1>1, <1>2
<1>5. \A i \in 1..n : b + w + 2 + i \in 1..Len(t)
  BY <1>1, <1>2
<1> QED BY <1>3, <1>4, <1>5 DEF Stands, Longer

\* The places of a text to which the client adds a chunk of n symbols.
LEMMA Extended ==
  ASSUME NEW t \in Seq(Symbols), NEW s \in Seq(Symbols), NEW d \in Seq(Symbols),
         NEW g \in Nat, NEW n \in Ints, Len(d) = n, g + n <= Len(s),
         \A i \in 1..n : d[i] = s[g + i],
         NEW C \in SUBSET (Nat \X Nat), Chunked(t, s, g, C), NEW u, u = t \o ChunkOf(d)
  PROVE  u \in Seq(Symbols) /\ u # <<>> /\ \E D \in SUBSET (Nat \X Nat) : Chunked(u, s, g + n, D)
<1>0. PICK w \in Nat \ {0} : Behind(t, d, n, w, u)
  BY ChunkAdded
<1>1. /\ u \in Seq(Symbols) /\ Len(u) = Len(t) + w + n + 4 /\ w = Len(HexOf(n))
      /\ Longer(t, u)
      /\ \A i \in 1..w : u[Len(t) + i] = HexOf(n)[i]
      /\ u[Len(t) + w + 1] = "CR" /\ u[Len(t) + w + 2] = "LF"
      /\ \A i \in 1..n : u[Len(t) + w + 2 + i] = d[i]
  BY <1>0 DEF Behind, Longer
<1>2. Len(t) \in Nat /\ Len(u) \in Nat /\ Len(t) <= Len(u) /\ Len(u) > 0
  BY <1>1
<1>3. Stands(u, s, Len(t), g, n, w)
  <2>1. Len(t) + w + n + 4 <= Len(u)
    BY <1>1, <1>2
  <2>2. \A i \in 1..n : u[Len(t) + w + 2 + i] = s[g + i]
    BY <1>1
  <2> QED BY <1>1, <2>1, <2>2 DEF Stands
<1> DEFINE D == C \cup {<<Len(u), g + n>>}
<1>4. ASSUME NEW b \in Nat, NEW c \in Nat, <<b, c>> \in D
      PROVE  \/ b = Len(u) /\ c = g + n
             \/ \E m \in Ints, x \in Nat \ {0} :
                   Stands(u, s, b, c, m, x) /\ <<b + x + m + 4, c + m>> \in D
  <2>1. CASE <<b, c>> = <<Len(u), g + n>>
    BY <2>1
  <2>2. CASE b = Len(t) /\ c = g
    <3>1. <<b + w + n + 4, c + n>> \in D
      BY <2>2, <1>1
    <3> QED BY <2>2, <3>1, <1>3
  <2>3. ASSUME NEW m \in Ints, NEW x \in Nat \ {0}, Stands(t, s, b, c, m, x),
               <<b + x + m + 4, c + m>> \in C
        PROVE  Stands(u, s, b, c, m, x) /\ <<b + x + m + 4, c + m>> \in D
    <3>1. Stands(u, s, b, c, m, x)
      <4>1. u \in Seq(Symbols) /\ Longer(t, u) /\ m \in Nat /\ x \in Nat
        BY <1>1 DEF Ints
      <4> QED BY <4>1, <1>4, <2>3, StillStands
    <3> QED BY <2>3, <3>1
  <2>4. CASE \E m \in Ints, x \in Nat \ {0} : Stands(t, s, b, c, m, x) /\ <<b + x + m + 4, c + m>> \in C
    <3>1. PICK m \in Ints, x \in Nat \ {0} : Stands(t, s, b, c, m, x) /\ <<b + x + m + 4, c + m>> \in C
      BY <2>4
    <3>2. Stands(u, s, b, c, m, x) /\ <<b + x + m + 4, c + m>> \in D
      BY <2>3, <3>1
    <3> HIDE DEF D
    <3> QED BY <3>2
  <2> QED BY <2>1, <2>2, <2>4, <1>4 DEF Chunked
<1>5. D \in SUBSET (Nat \X Nat) /\ <<0, 0>> \in D
  <2>1. <<Len(u), g + n>> \in Nat \X Nat
    BY <1>2
  <2>2. <<0, 0>> \in C
    BY DEF Chunked
  <2> QED BY <2>1, <2>2
<1>6. Chunked(u, s, g + n, D)
  <2> HIDE DEF D
  <2> QED BY <1>4, <1>5 DEF Chunked
<1>7. u # <<>>
  BY <1>2
<1> HIDE DEF D
<1> QED BY <1>1, <1>5, <1>6, <1>7

\* A part of a text.
LEMMA CutOut ==
  ASSUME NEW s \in Seq(Symbols), NEW g \in Nat, NEW n \in Nat, g + n <= Len(s)
  PROVE  /\ SubSeq(s, g + 1, g + n) \in Seq(Symbols) /\ Len(SubSeq(s, g + 1, g + n)) = n
         /\ \A i \in 1..n : SubSeq(s, g + 1, g + n)[i] = s[g + i]
<1> DEFINE m == g + 1
           k == g + n
<1>1. \A i \in m..k : s[i] \in Symbols
  OBVIOUS
<1>2. m \in Int /\ k \in Int /\ (IF m <= k THEN k - m + 1 ELSE 0) = n /\ k - m + 1 = n
  OBVIOUS
<1>3. \A i \in 1..n : m + i - 1 = g + i
  OBVIOUS
<1> HIDE DEF m, k
<1>4. /\ SubSeq(s, m, k) \in Seq(Symbols)
      /\ Len(SubSeq(s, m, k)) = IF m <= k THEN k - m + 1 ELSE 0
      /\ \A i \in 1 .. k - m + 1 : SubSeq(s, m, k)[i] = s[m + i - 1]
  BY <1>1, <1>2, SubSeqProperties
<1>5. \A i \in 1..n : SubSeq(s, m, k)[i] = s[g + i]
  BY <1>2, <1>3, <1>4
<1> QED BY <1>2, <1>4, <1>5 DEF m, k

\* The first symbols of a text.
LEMMA FirstOnes ==
  ASSUME NEW s \in Seq(Symbols), NEW c \in Nat, c <= Len(s)
  PROVE  /\ SubSeq(s, 1, c) \in Seq(Symbols) /\ Len(SubSeq(s, 1, c)) = c
         /\ \A i \in 1..c : SubSeq(s, 1, c)[i] = s[i]
<1> DEFINE g == 0
<1>1. g \in Nat /\ g + c <= Len(s) /\ g + 1 = 1 /\ g + c = c /\ \A i \in 1..c : g + i = i
  OBVIOUS
<1> HIDE DEF g
<1>2. /\ SubSeq(s, g + 1, g + c) \in Seq(Symbols) /\ Len(SubSeq(s, g + 1, g + c)) = c
      /\ \A i \in 1..c : SubSeq(s, g + 1, g + c)[i] = s[g + i]
  BY <1>1, CutOut
<1> QED BY <1>1, <1>2

\* And those that follow them.
LEMMA NextOnes ==
  ASSUME NEW s \in Seq(Symbols), NEW c \in Nat, NEW n \in Nat, c + n <= Len(s),
         NEW x \in Seq(Symbols), Len(x) = n, \A i \in 1..n : x[i] = s[c + i]
  PROVE  SubSeq(s, 1, c) \o x = SubSeq(s, 1, c + n)
<1> DEFINE y == SubSeq(s, 1, c)
           z == SubSeq(s, 1, c + n)
<1>1. y \in Seq(Symbols) /\ Len(y) = c /\ \A i \in 1..c : y[i] = s[i]
  BY FirstOnes
<1>2. z \in Seq(Symbols) /\ Len(z) = c + n /\ \A i \in 1..(c + n) : z[i] = s[i]
  <2>1. c + n \in Nat
    OBVIOUS
  <2> QED BY <2>1, FirstOnes
<1> HIDE DEF y, z
<1>3. /\ y \o x \in Seq(Symbols) /\ Len(y \o x) = c + n
      /\ \A i \in 1..c : (y \o x)[i] = y[i]
      /\ \A i \in 1..n : (y \o x)[c + i] = x[i]
  BY <1>1, Joined
<1>4. ASSUME NEW i \in 1..(c + n) PROVE (y \o x)[i] = z[i]
  <2>1. CASE i <= c
    <3>1. i \in 1..c
      BY <1>4, <2>1
    <3> QED BY <1>1, <1>2, <1>3, <1>4, <3>1
  <2>2. CASE i > c
    <3>1. i - c \in 1..n /\ i = c + (i - c)
      BY <1>4, <2>2
    <3>2. (y \o x)[c + (i - c)] = s[c + (i - c)]
      BY <1>3, <3>1
    <3> QED BY <1>2, <1>4, <3>1, <3>2
  <2>3. i <= c \/ i > c
    BY <1>4
  <2> QED BY <2>1, <2>2, <2>3
<1>5. y \o x = z
  BY <1>2, <1>3, <1>4, SeqEqual
<1> QED BY <1>5 DEF y, z

LEMMA SendChunkReading == ASSUME Narrow PROVE Reading /\ SendChunk => Reading'
<1> SUFFICES ASSUME Reading, SendChunk PROVE Reading'
  OBVIOUS
<1>1. PICK n \in ChunkSizes : /\ given + n <= Len(sent)
                              /\ text' = text \o ChunkOf(SubSeq(sent, given + 1, given + n))
                              /\ given' = given + n
  BY DEF SendChunk
<1>2. /\ sent \in Seq(Symbols) /\ text \in Seq(Symbols) /\ given \in Nat /\ Len(sent) \in Nat
      /\ coded /\ lineStart = 1 /\ body = <<>>
  BY DEF Reading, SendChunk
<1>3. n \in Ints /\ n \in Nat
  BY ChunkSizesAssumption DEF Narrow, Ints
<1> DEFINE d == SubSeq(sent, given + 1, given + n)
<1>4. d \in Seq(Symbols) /\ Len(d) = n /\ \A i \in 1..n : d[i] = sent[given + i]
  <2>1. n \in Nat
    BY <1>3
  <2> QED BY <1>1, <1>2, <2>1, CutOut
<1> HIDE DEF d
<1>5. PICK C \in SUBSET (Nat \X Nat) : Chunked(text, sent, given, C)
  BY <1>2 DEF Reading
<1>6. text' \in Seq(Symbols) /\ \E D \in SUBSET (Nat \X Nat) : Chunked(text', sent, given', D)
  <2>1. text' = text \o ChunkOf(d) /\ n \in Ints
    BY <1>1, <1>3 DEF d
  <2> QED BY <1>1, <1>2, <1>4, <1>5, <2>1, Extended
<1>7. PICK D \in SUBSET (Nat \X Nat) : Chunked(text', sent, given', D)
  BY <1>6
<1>8. <<lineStart' - 1, Len(body')>> \in D
  <2>1. Len(<<>>) = 0 /\ lineStart' = 1 /\ body' = <<>>
    BY <1>2 DEF SendChunk, parser
  <2>2. <<0, 0>> \in D
    BY <1>7 DEF Chunked
  <2> QED BY <2>1, <2>2
<1> QED BY <1>1, <1>2, <1>3, <1>6, <1>7, <1>8 DEF Reading, SendChunk, parser

LEMMA LastChunkReading == Reading /\ LastChunk => Reading'
<1> SUFFICES ASSUME Reading, LastChunk PROVE Reading'
  OBVIOUS
<1>1. /\ sent \in Seq(Symbols) /\ text \in Seq(Symbols) /\ given \in Nat /\ Len(sent) \in Nat
      /\ coded /\ lineStart = 1 /\ body = <<>> /\ given = Len(sent)
  BY DEF Reading, LastChunk
<1>2. PICK C \in SUBSET (Nat \X Nat) : Chunked(text, sent, given, C)
  BY <1>1 DEF Reading
<1> DEFINE d == <<>>
           n == 0
<1>3. d \in Seq(Symbols) /\ Len(d) = n /\ n \in Ints
  <2>1. 0 < Half
    BY WordAssumption DEF Half
  <2> QED BY <2>1 DEF Ints
<1>4. given + n = given' /\ given + n <= Len(sent) /\ \A i \in 1..n : d[i] = sent[given + i]
  BY <1>1 DEF LastChunk
<1>5. text' = text \o ChunkOf(d)
  BY DEF LastChunk
<1> HIDE DEF d, n
<1>6. text' \in Seq(Symbols) /\ text' # <<>> /\ \E D \in SUBSET (Nat \X Nat) : Chunked(text', sent, given', D)
  BY <1>1, <1>2, <1>3, <1>4, <1>5, Extended
<1>7. PICK D \in SUBSET (Nat \X Nat) : Chunked(text', sent, given', D)
  BY <1>6
<1>8. <<lineStart' - 1, Len(body')>> \in D
  <2>1. Len(<<>>) = 0 /\ lineStart' = 1 /\ body' = <<>>
    BY <1>1 DEF LastChunk, parser
  <2>2. <<0, 0>> \in D
    BY <1>7 DEF Chunked
  <2> QED BY <2>1, <2>2
<1> QED BY <1>1, <1>6, <1>7, <1>8 DEF Reading, LastChunk, parser

LEMMA SetBodyReading == Reading /\ SetBody => Reading'
<1> SUFFICES ASSUME Reading, SetBody PROVE Reading'
  OBVIOUS
<1>1. /\ UNCHANGED <<sent, coded, given, text, stale, lineStart>>
      /\ isChunked' = (isChunked \/ coded) /\ state = "parse"
  BY DEF SetBody, request
<1>2. CASE coded
  <2>1. text # <<>> /\ state' = "loop" /\ body' = body
    BY <1>1, <1>2 DEF Reading, SetBody
  <2> QED BY <1>1, <1>2, <2>1 DEF Reading
<1>3. CASE ~coded /\ ~stale
  <2>1. ~isChunked' /\ isChunked' \in BOOLEAN
    BY <1>1, <1>3 DEF Reading
  <2>2. state' = "done" /\ body' = text
    BY <2>1 DEF SetBody
  <2> QED BY <1>1, <1>3, <2>1, <2>2 DEF Reading
<1>4. CASE ~coded /\ stale
  <2>1. isChunked' \in BOOLEAN /\ state' \in {"loop", "done"}
    BY <1>1 DEF Reading, SetBody
  <2> QED BY <1>1, <1>4, <2>1 DEF Reading
<1> QED BY <1>2, <1>3, <1>4 DEF Reading

\* Where the parser is in a chunked body: at the end, with all of it, or before a
\* size line.
LEMMA AtPlace ==
  ASSUME Reading, coded, state = "loop"
  PROVE  \E C \in SUBSET (Nat \X Nat) :
           /\ Chunked(text, sent, given, C) /\ <<lineStart - 1, Len(body)>> \in C
           /\ \/ lineStart = Len(text) + 1 /\ Len(body) = Len(sent)
              \/ \E n \in Ints, w \in Nat \ {0} :
                    /\ Stands(text, sent, lineStart - 1, Len(body), n, w)
                    /\ <<lineStart - 1 + w + n + 4, Len(body) + n>> \in C
<1>1. PICK C \in SUBSET (Nat \X Nat) : Chunked(text, sent, given, C) /\ <<lineStart - 1, Len(body)>> \in C
  BY DEF Reading
<1>2. lineStart \in Nat \ {0} /\ given = Len(sent) /\ text \in Seq(Symbols)
  BY DEF Reading
<1> DEFINE b == lineStart - 1
           c == Len(body)
<1>3. b \in Nat /\ c \in Nat
  BY <1>1
<1> HIDE DEF b, c
<1>4. \/ b = Len(text) /\ c = given
      \/ \E n \in Ints, w \in Nat \ {0} : Stands(text, sent, b, c, n, w) /\ <<b + w + n + 4, c + n>> \in C
  BY <1>1, <1>3 DEF Chunked, b, c
<1>5. b = Len(text) => lineStart = Len(text) + 1
  BY <1>2 DEF b
<1> QED BY <1>1, <1>2, <1>4, <1>5 DEF b, c

LEMMA EndOfTextReading == Reading /\ EndOfText => Reading'
<1> SUFFICES ASSUME Reading, EndOfText PROVE Reading'
  OBVIOUS
<1>1. UNCHANGED <<request, parser>> /\ state = "loop" /\ state' = "done" /\ LineEnds = {}
  BY DEF EndOfText
<1>2. ASSUME coded PROVE Len(body) = Len(sent)
  <2>1. ASSUME NEW n \in Ints, NEW w \in Nat \ {0}, Stands(text, sent, lineStart - 1, Len(body), n, w)
        PROVE  FALSE
    <3>1. lineStart \in Nat \ {0} /\ text \in Seq(Symbols) /\ Len(text) \in Nat
      BY <1>2 DEF Reading
    <3>2. text[lineStart - 1 + w + 2] = "LF" /\ lineStart - 1 + w + n + 4 <= Len(text)
      BY <2>1 DEF Stands
    <3>3. lineStart - 1 + w + 2 \in lineStart..Len(text)
      BY <3>1, <3>2 DEF Ints
    <3> QED BY <1>1, <3>2, <3>3 DEF LineEnds
  <2> QED BY <1>1, <1>2, <2>1, AtPlace
<1> QED BY <1>1, <1>2 DEF Reading, request, parser

\* One round of the loop reads the chunk that stands there.
LEMMA ReadChunkReading == Reading /\ ReadChunk => Reading'
<1> SUFFICES ASSUME Reading, ReadChunk PROVE Reading'
  OBVIOUS
<1>1. /\ UNCHANGED <<sent, coded, given, text, stale, isChunked, state>>
      /\ state = "loop" /\ LineEnds # {}
      /\ body' = body \o SubStr(LineEnd + 1, HexToDec(SizeLine))
      /\ lineStart' = AfterChunk(HexToDec(SizeLine))
  BY DEF ReadChunk, request
<1>2. CASE coded
  <2>1. /\ sent \in Seq(Symbols) /\ text \in Seq(Symbols) /\ Len(text) \in Nat /\ Len(sent) \in Nat
        /\ lineStart \in Nat \ {0} /\ Len(body) <= Len(sent) /\ body = SubSeq(sent, 1, Len(body))
        /\ given = Len(sent) /\ text # <<>>
    BY <1>1, <1>2 DEF Reading
  <2>2. PICK C \in SUBSET (Nat \X Nat) :
           /\ Chunked(text, sent, given, C) /\ <<lineStart - 1, Len(body)>> \in C
           /\ \/ lineStart = Len(text) + 1 /\ Len(body) = Len(sent)
              \/ \E n \in Ints, w \in Nat \ {0} :
                    /\ Stands(text, sent, lineStart - 1, Len(body), n, w)
                    /\ <<lineStart - 1 + w + n + 4, Len(body) + n>> \in C
    BY <1>1, <1>2, AtPlace
  <2>3. lineStart # Len(text) + 1
    BY <1>1, <2>1 DEF LineEnds
  <2>4. PICK n \in Ints, w \in Nat \ {0} :
                    /\ Stands(text, sent, lineStart - 1, Len(body), n, w)
                    /\ <<lineStart - 1 + w + n + 4, Len(body) + n>> \in C
    BY <2>2, <2>3
  <2> DEFINE b == lineStart - 1
             c == Len(body)
             e == b + w + 2
  <2>5. b \in Nat /\ c \in Nat /\ e \in Nat /\ lineStart = b + 1 /\ n \in Nat /\ w \in Nat \ {0}
    <3>1. b \in Nat /\ c \in Nat
      BY <2>2
    <3> HIDE DEF c
    <3> QED BY <2>1, <3>1 DEF Ints
  <2> HIDE DEF b, c, e
  <2>6. /\ b + w + n + 4 <= Len(text) /\ c + n <= Len(sent)
        /\ w = Len(HexOf(n)) /\ \A i \in 1..w : text[b + i] = HexOf(n)[i]
        /\ text[b + w + 1] = "CR" /\ text[e] = "LF"
        /\ \A i \in 1..n : text[e + i] = sent[c + i]
    BY <2>4 DEF Stands, b, c, e
  <2>7. /\ HexToDec(HexOf(n)) = n /\ HexOf(n) \in Seq(Symbols)
        /\ \A i \in 1..Len(HexOf(n)) : HexOf(n)[i] \notin {"CR", "LF"}
    <3>1. n \in Nat /\ n < Half
      BY DEF Ints
    <3> QED BY <3>1, HexInverts, HexDigits
  <2>8. LineEnd = e
    <3>1. e \in LineEnds
      BY <2>1, <2>5, <2>6 DEF LineEnds, e
    <3>2. ASSUME NEW i \in LineEnds PROVE e <= i
      <4>1. i \in Nat /\ lineStart <= i /\ text[i] = "LF"
        BY <2>1 DEF LineEnds
      <4>2. CASE i < b + w + 1
        <5>1. i - b \in 1..w /\ i = b + (i - b)
          BY <2>5, <4>1, <4>2
        <5> QED BY <2>6, <2>7, <4>1, <5>1
      <4>3. CASE i = b + w + 1
        BY <2>6, <4>1, <4>3
      <4> QED BY <2>5, <4>1, <4>2, <4>3 DEF e
    <3>3. \A i \in LineEnds : i \in Int
      BY <2>1 DEF LineEnds
    <3>4. LineEnd \in LineEnds /\ LineEnd <= e
      <4>1. \E i \in LineEnds : \A j \in LineEnds : i <= j
        BY <3>1, <3>2
      <4> QED BY <3>1, <4>1 DEF LineEnd
    <3> QED BY <2>5, <3>2, <3>3, <3>4
  <2>9. SizeLine = HexOf(n)
    <3>1. LineEnd # lineStart /\ LineEnd - lineStart - 1 = w
      BY <2>5, <2>8 DEF e
    <3>2. SizeLine = SubSeq(text, b + 1, b + w)
      BY <2>1, <2>5, <2>6, <3>1 DEF SizeLine, SubStr
    <3> DEFINE l == SubSeq(text, b + 1, b + w)
    <3>3. l \in Seq(Symbols) /\ Len(l) = w /\ \A i \in 1..w : l[i] = text[b + i]
      BY <2>1, <2>5, <2>6, CutOut
    <3> HIDE DEF l
    <3>4. l = HexOf(n)
      BY <2>6, <2>7, <3>3, SeqEqual
    <3> QED BY <3>2, <3>4 DEF l
  <2>10. body' = SubSeq(sent, 1, c + n) /\ lineStart' = b + w + n + 5
    <3>1. body' = body \o SubStr(e + 1, n)
      BY <1>1, <2>7, <2>8, <2>9
    <3>2. SubStr(e + 1, n) = SubSeq(text, e + 1, e + n)
      BY <2>1, <2>5, <2>6 DEF SubStr, e
    <3> DEFINE x == SubSeq(text, e + 1, e + n)
    <3>3. x \in Seq(Symbols) /\ Len(x) = n /\ \A i \in 1..n : x[i] = text[e + i]
      <4>1. e + n <= Len(text)
        BY <2>1, <2>5, <2>6 DEF e
      <4> QED BY <2>1, <2>5, <4>1, CutOut
    <3> HIDE DEF x
    <3>4. SubSeq(sent, 1, c) \o x = SubSeq(sent, 1, c + n)
      <4>1. \A i \in 1..n : x[i] = sent[c + i]
        BY <2>6, <3>3
      <4>2. c \in Nat /\ n \in Nat /\ c + n <= Len(sent) /\ sent \in Seq(Symbols)
        BY <2>1, <2>5, <2>6
      <4> QED BY ONLY <3>3, <4>1, <4>2, NextOnes
    <3>5. body = SubSeq(sent, 1, c)
      BY <2>1 DEF c
    <3>6. lineStart' = b + w + n + 5
      BY <1>1, <2>5, <2>7, <2>8, <2>9 DEF AfterChunk, e
    <3> QED BY <3>1, <3>2, <3>4, <3>5, <3>6 DEF x
  <2>11. Len(body') = c + n
    <3>1. c + n \in Nat
      BY <2>5
    <3> QED BY <2>1, <2>6, <2>10, <3>1, FirstOnes
  <2>12. <<lineStart' - 1, Len(body')>> \in C
    <3>1. lineStart' - 1 = b + w + n + 4
      BY <2>5, <2>10
    <3> QED BY <2>4, <2>11, <3>1 DEF b, c
  <2>13. lineStart' \in Nat \ {0} /\ Len(body') <= Len(sent) /\ body' = SubSeq(sent, 1, Len(body'))
    BY <2>5, <2>6, <2>10, <2>11
  <2> HIDE DEF e
  <2> QED BY <1>1, <1>2, <2>1, <2>2, <2>12, <2>13 DEF Reading
<1>3. CASE ~coded
  BY <1>1, <1>3 DEF Reading
<1> QED BY <1>2, <1>3 DEF Reading

LEMMA StutterReading == Reading /\ UNCHANGED decoding => Reading'
<1> SUFFICES ASSUME Reading, UNCHANGED decoding PROVE Reading'
  OBVIOUS
<1>1. UNCHANGED <<sent, coded, given, text, stale, isChunked, lineStart, body, state>>
  BY DEF decoding, request, parser
<1> QED BY <1>1 DEF Reading

LEMMA NextReading == ASSUME Narrow PROVE Reading /\ [BodyNext]_decoding => Reading'
BY SendChunkReading, LastChunkReading, SetBodyReading, ReadChunkReading, EndOfTextReading,
   StutterReading DEF BodyNext, Parse

LEMMA ReadingDecodes == Reading => DecodingInverts
<1> SUFFICES ASSUME Reading, coded \/ ~stale
             PROVE  IsPrefix(body, sent) /\ (state = "done" => body = sent)
  BY DEF DecodingInverts
<1>1. sent \in Seq(Symbols) /\ Len(sent) \in Nat
  BY DEF Reading
<1>2. CASE coded
  <2> DEFINE c == Len(body)
  <2>1. c <= Len(sent) /\ body = SubSeq(sent, 1, c) /\ (state = "done" => c = Len(sent)) /\ c \in Nat
    BY <1>2 DEF Reading
  <2>2. SubSeq(sent, 1, Len(sent)) = sent
    BY <1>1
  <2>3. SubSeq(body, 1, c) = body
    BY <1>1, <2>1
  <2> QED BY <2>1, <2>2, <2>3 DEF IsPrefix
<1>3. CASE ~coded
  <2>1. body = IF state = "done" THEN sent ELSE <<>>
    BY <1>3 DEF Reading
  <2>2. IsPrefix(sent, sent) /\ IsPrefix(<<>>, sent)
    BY <1>1 DEF IsPrefix
  <2> QED BY <2>1, <2>2
<1> QED BY <1>2, <1>3 DEF Reading

\* Whatever the client sends in chunks of any size that an int can hold, is what the
\* parser stores.
THEOREM DecodingFaithful == ASSUME Narrow PROVE BodySpec => []DecodingInverts
<1>1. BodyInit => Reading
  BY BodyInitReading
<1>2. Reading /\ [BodyNext]_decoding => Reading'
  BY NextReading
<1>3. Reading => DecodingInverts
  BY ReadingDecodes
<1> QED BY <1>1, <1>2, <1>3, PTL DEF BodySpec
=============================================================================
