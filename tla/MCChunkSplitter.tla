--------------------------- MODULE MCChunkSplitter ---------------------------
(* An instance of ChunkSplitter for TLC: every remainder of the last chunk. *)
EXTENDS ChunkSplitter

SomeAnswers == [headers: 0..3, body: 0..40]
=============================================================================
