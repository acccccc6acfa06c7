---------------------------- MODULE MCChunkedBody ----------------------------
(* An instance of ChunkedBody for TLC: short bodies of symbols that matter to the *)
(* decoder, and one long enough for a size of two digits.                       *)
EXTENDS ChunkedBody

SomeSizes  == {1, 3, 16, 17}
SomeBodies == SeqOf({"x", "1", "CR", "LF"}, 3) \cup {[i \in 1..17 |-> "x"]}
=============================================================================
