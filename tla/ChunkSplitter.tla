---------------------------- MODULE ChunkSplitter ----------------------------
(***************************************************************************)
(* How a CGI answer becomes a Response: Response::setCgiBodyLength_ and    *)
(* Response::splitTo_chunks (src/src/response/Response.cpp).               *)
(*                                                                         *)
(* An answer is its bytes 0..size-1, of which those from headersEnd on are *)
(* the body; a chunk is the interval of the answer it carries and the size *)
(* it announces.  One step is one round of the code's loop.                *)
(***************************************************************************)
EXTENDS Integers, Sequences

CONSTANTS
  Chunk,     \* CHUNK_SIZE
  Need,      \* NEED_CHUNKS: the least body that is sent in chunks
  Inserted,  \* length of the header that announces the coding
  Answers    \* what scripts print: [headers, body], the lengths on both sides of ENDH

Blank == 4   \* the length of ENDH

ASSUME ChunkAssumption    == Chunk \in Nat \ {0}
ASSUME NeedAssumption     == Need \in Nat /\ Chunk <= Need
ASSUME InsertedAssumption == Inserted \in Nat
\* A script's headers leave room in the first chunk.
ASSUME AnswersAssumption  ==
  \A a \in Answers : /\ a.headers \in Nat /\ a.body \in Nat
                     /\ a.headers + Inserted + Blank < Chunk

VARIABLES
  answer,     \* the script's answer
  pc,         \* "cgi", then "whole" (one string); or "split" and "done"
  size,       \* _response.size()
  headersEnd, \* headersEndPos
  pos,        \* the first byte of the answer that is in no chunk yet
  chunks      \* _chunks

vars == <<answer, pc, size, headersEnd, pos, chunks>>

Piece == [announced: Nat, from: Nat, size: Nat]

Init ==
  /\ answer \in Answers
  /\ pc = "cgi"
  /\ size = answer.headers + Blank + answer.body
  /\ headersEnd = answer.headers + Blank
  /\ pos = 0 /\ chunks = <<>>

\* substr(from, n) of a string of that length: what is left when there is less.
Taken(length, from, n) == IF length - from < n THEN length - from ELSE n

\* A short body is sent as one string, with a Content-Length.
KeepWhole ==
  /\ pc = "cgi" /\ answer.body < Need
  /\ pc' = "whole"
  /\ UNCHANGED <<answer, size, headersEnd, pos, chunks>>

\* leftSizeChunk of the first chunk, whose headers count towards CHUNK_SIZE.
FirstSize(end) == Chunk - end

\* The header is inserted and the first chunk is cut.
SplitFirst ==
  /\ pc = "cgi" /\ answer.body >= Need
  /\ pc' = "split"
  /\ size' = size + Inserted
  /\ headersEnd' = headersEnd + Inserted
  /\ LET left == FirstSize(headersEnd')
     IN  chunks' = <<[announced |-> left, from |-> headersEnd',
                      size |-> Taken(size', headersEnd', left)]>>
  /\ pos' = Chunk
  /\ UNCHANGED answer

\* Faulty variants: the loop ends with the last chunk that has bytes; it ends one
\* byte short of the answer.
LastNonEmpty(left) == pos + left = size
NextSizeShort      == IF size - pos < Chunk THEN size - pos - 1 ELSE Chunk

\* The break of the loop: after the chunk of size zero.
Ends(left) == left = 0

\* leftSizeChunk of a later chunk.
NextSize == IF size - pos < Chunk THEN size - pos ELSE Chunk

SplitNext ==
  /\ pc = "split"
  /\ chunks' = Append(chunks, [announced |-> NextSize, from |-> pos, size |-> NextSize])
  /\ pos' = pos + NextSize
  /\ pc' = IF Ends(NextSize) THEN "done" ELSE "split"
  /\ UNCHANGED <<answer, size, headersEnd>>

Next == KeepWhole \/ SplitFirst \/ SplitNext

Spec == Init /\ [][Next]_vars
-----------------------------------------------------------------------------
(* Properties *)

TypeOK ==
  /\ answer \in Answers
  /\ pc \in {"cgi", "whole", "split", "done"}
  /\ size \in Nat /\ headersEnd \in Nat /\ pos \in Nat
  /\ chunks \in Seq(Piece)

Holds(c, p) == c.from <= p /\ p < c.from + c.size

\* No byte of the body is lost or sent twice, and none moves before another: the
\* bytes cut so far are the body's first ones, each in exactly one chunk, and
\* chunks follow each other as their bytes do.
EveryByteOnce ==
  pc \in {"split", "done"} =>
    /\ pos <= size
    /\ \A p \in headersEnd..(pos - 1) : \E i \in 1..Len(chunks) : Holds(chunks[i], p)
    /\ \A i, j \in 1..Len(chunks) : i < j => chunks[i].from + chunks[i].size <= chunks[j].from
    /\ pc = "done" => pos = size

\* A client reads a chunked body until the chunk that announces zero bytes, and of
\* each chunk the bytes it announces: every chunk holds what it announces, and the
\* chunk of size zero is there, once, and is the last.
EndsWhereItShould ==
  /\ \A i \in 1..Len(chunks) :
       /\ chunks[i].announced = chunks[i].size
       /\ chunks[i].announced = 0 => pc = "done" /\ i = Len(chunks)
  /\ pc = "done" => Len(chunks) > 0 /\ chunks[Len(chunks)].announced = 0
=============================================================================
