\* A file with two servers and three locations, and what becomes of it when a line is
\* added, missing or repeated, a blank follows, or the file is cut short.
CONSTANTS
  Files <- SomeFiles
  DigitWords <- SomeDigits
  Number <- MCNumber
  MaxInt = 2000000
  CgiWords = {"cgi-bin/x"}
  Targets <- SomeTargets
  Known <- SomeKnown
  Chars <- MCChars
  Entries <- SomeEntries
SPECIFICATION Spec
INVARIANTS ServersUsable ReadAsWritten LongestLocation SameFile LinksLeadBack
CHECK_DEADLOCK FALSE
