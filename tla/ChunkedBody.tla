----------------------------- MODULE ChunkedBody -----------------------------
(***************************************************************************)
(* The body of a POST or PUT request as the parser stores it:              *)
(* RequestParser::setBody and handleChunkedBody                            *)
(* (src/src/request/RequestParser.cpp), hexToDec (src/src/config/utils.cpp).*)
(*                                                                         *)
(* Texts are sequences of symbols: the sixteen hexadecimal digits, CR, LF, *)
(* and others.  Indices start at 1, so the code's position p is p + 1 here.*)
(* A size line is the digits of the length and nothing else: a client that *)
(* adds chunk extensions is not modelled.                                  *)
(* One step is one round of handleChunkedBody's loop.                      *)
(***************************************************************************)
EXTENDS Integers, SequencesExt

CONSTANTS
  Bodies,     \* what clients send
  ChunkSizes, \* how long a client makes its chunks
  Word        \* how many values an int has: 2^32

\* A chunk that is sent has data in it; a body is a sequence of symbols.
ASSUME ChunkSizesAssumption == ChunkSizes \subseteq Nat \ {0}
ASSUME BodiesAssumption     == \A s \in Bodies : s \in Seq(Range(s))
ASSUME WordAssumption       == Word \in Nat \ {0} /\ Word % 2 = 0

\* Every length is an int.
Half   == Word \div 2
Narrow == \A n \in ChunkSizes : n < Half

VARIABLES
  sent,      \* the client's body
  coded,     \* the client sends it chunked
  given,     \* how many of its symbols are in chunks
  text,      \* what follows the header block
  stale,     \* what the parser's object finds in _isChunked, which it never sets first
  isChunked, \* _isChunked
  lineStart, \* lineStart
  body,      \* newBody, then _body
  state      \* "send" (the client), "parse", "loop" or "done"

request  == <<sent, coded, given, text, stale>>
parser   == <<isChunked, lineStart, body>>
decoding == <<request, parser, state>>

CRLF   == <<"CR", "LF">>
Digits == <<"0", "1", "2", "3", "4", "5", "6", "7", "8", "9", "a", "b", "c", "d", "e", "f">>

BodyInit ==
  /\ sent \in Bodies /\ given = 0
  /\ \/ coded = FALSE /\ text = sent /\ state = "parse"
     \/ coded = TRUE /\ text = <<>> /\ state = "send"
  /\ stale \in BOOLEAN /\ isChunked = stale
  /\ lineStart = 1 /\ body = <<>>

(***************************************************************************)
(* The client: a chunked body is its parts, each after a line with its     *)
(* length, and an empty part at the end.                                   *)
(***************************************************************************)

\* What is left of n when its last i hexadecimal digits are struck.
Struck(n) == LET rest[i \in 0..n] == IF i = 0 THEN n ELSE rest[i - 1] \div 16 IN rest

\* How many digits n has, and what they are.
Width(n) == CHOOSE w \in 1..(n + 1) : (w = n + 1 \/ Struck(n)[w] = 0) /\ \A i \in 1..(w - 1) : Struck(n)[i] # 0
HexOf(n) == [i \in 1..Width(n) |-> Digits[(Struck(n)[Width(n) - i] % 16) + 1]]

ChunkOf(d) == HexOf(Len(d)) \o CRLF \o d \o CRLF

SendChunk ==
  /\ state = "send"
  /\ \E n \in ChunkSizes :
       /\ given + n <= Len(sent)
       /\ text' = text \o ChunkOf(SubSeq(sent, given + 1, given + n))
       /\ given' = given + n
  /\ UNCHANGED <<sent, coded, stale, parser, state>>

LastChunk ==
  /\ state = "send" /\ given = Len(sent)
  /\ text' = text \o ChunkOf(<<>>)
  /\ state' = "parse"
  /\ UNCHANGED <<sent, coded, given, stale, parser>>

-----------------------------------------------------------------------------
(* The parser, which is given the request when it is complete. *)

\* What a digit stands for.
DigitOf(c) == CHOOSE v \in 0..15 : Digits[v + 1] = c

\* What an int holds when x is computed.
Signed(x) == ((x + Half) % Word) - Half

\* One round of hexToDec: a character that is no digit is skipped without moving on
\* to the next power.
WithDigit(sum, c) ==
  IF c \in Range(Digits)
  THEN [dec |-> Signed(sum.dec + DigitOf(c) * sum.base), base |-> Signed(sum.base * 16)]
  ELSE sum

\* hexToDec: from the last character to the first.
Sums(s) ==
  LET sum[i \in 0..Len(s)] == IF i = 0 THEN [dec |-> 0, base |-> 1]
                              ELSE WithDigit(sum[i - 1], s[Len(s) + 1 - i])
  IN  sum
HexToDec(s) == Sums(s)[Len(s)].dec

\* setHeaders, then setBody: _isChunked is set by the header, and never cleared.
SetBody ==
  /\ state = "parse"
  /\ isChunked' = (isChunked \/ coded)
  /\ IF isChunked' /\ text # <<>>
     THEN state' = "loop" /\ UNCHANGED body
     ELSE state' = "done" /\ body' = text
  /\ UNCHANGED <<request, lineStart>>

\* Where the first line end from lineStart on is.
LineEnds == {i \in lineStart..Len(text) : text[i] = "LF"}
LineEnd  == CHOOSE i \in LineEnds : \A j \in LineEnds : i <= j

\* substr(from, n), which takes a negative length for everything that is left.
SubStr(from, n) == SubSeq(text, from, IF n < 0 \/ from + n - 1 > Len(text) THEN Len(text) ELSE from + n - 1)

\* The line without its CR; the length is negative when the line is empty.
SizeLine == SubStr(lineStart, LineEnd - lineStart - 1)

\* Faulty variants: one symbol too many is skipped; the size line is forgotten.
AfterChunkOneMore(n) == LineEnd + n + 4
AfterChunkNoLine(n) == lineStart + n

\* The start of the next size line: past the line end, the data and its CR and LF.  A
\* position before the text is, as a size_t, one behind it.
AfterChunk(n) == IF LineEnd + n + 3 < 1 THEN Len(text) + 1 ELSE LineEnd + n + 3

ReadChunk ==
  /\ state = "loop" /\ LineEnds # {}
  /\ LET n == HexToDec(SizeLine)
     IN  /\ body' = body \o SubStr(LineEnd + 1, n)
         /\ lineStart' = AfterChunk(n)
  /\ UNCHANGED <<request, isChunked, state>>

EndOfText ==
  /\ state = "loop" /\ LineEnds = {}
  /\ state' = "done"
  /\ UNCHANGED <<request, parser>>

Parse == SetBody \/ ReadChunk \/ EndOfText
BodyNext == SendChunk \/ LastChunk \/ Parse

BodySpec == BodyInit /\ [][BodyNext]_decoding /\ WF_decoding(Parse)
-----------------------------------------------------------------------------
(* Properties *)

\* What is read so far is a beginning of what the client sent, and in the end it is
\* all of it, whatever line ends and digits the data contains; unless the body is not
\* chunked and the memory of the object says that it is.  It holds when every chunk is
\* shorter than 2^31 (Narrow), and not of a longer one, whose length is no int.
DecodingInverts ==
  coded \/ ~stale =>
    /\ IsPrefix(body, sent)
    /\ state = "done" => body = sent

\* The loop ends on what a client sends in chunks shorter than 2^31.  It need not end
\* on any other text: a size line that reads as a negative number moves lineStart back.
DecodingEnds == state = "parse" /\ (coded \/ ~stale) ~> state = "done"
=============================================================================
