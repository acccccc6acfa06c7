\* Every body of up to three symbols and one of seventeen, cut in every way;
\* the parser's flag starts with what the stack holds; an int has 256 values.
CONSTANTS
  Bodies <- SomeBodies
  ChunkSizes <- SomeSizes
  Word = 256
SPECIFICATION BodySpec
INVARIANTS DecodingInverts
PROPERTIES DecodingEnds
CHECK_DEADLOCK FALSE
