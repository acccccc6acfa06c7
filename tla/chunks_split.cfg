\* Chunks of ten bytes, all short header blocks, bodies of up to four chunks.
CONSTANTS
  Chunk = 10
  Need = 12
  Inserted = 2
  Answers <- SomeAnswers
SPECIFICATION Spec
INVARIANTS EveryByteOnce EndsWhereItShould
CHECK_DEADLOCK FALSE
