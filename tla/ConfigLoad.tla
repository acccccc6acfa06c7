----------------------------- MODULE ConfigLoad -----------------------------
(***************************************************************************)
(* The reading of the configuration file: the constructors of Config,      *)
(* ServerConfig and Location (src/src/config).                             *)
(*                                                                         *)
(* A file is a sequence of lines, and every directive has a line of its    *)
(* own: a key word, its words, and what follows the last of them.  One     *)
(* step reads a line.  baseError ends the program.                         *)
(***************************************************************************)
EXTENDS Integers, Sequences, FiniteSets, SequencesExt

CONSTANTS
  Files,     \* the files that may be there
  DigitWords,\* texts that consist of digits
  Number(_), \* the number such a text is written for
  MaxInt,    \* the largest int
  CgiWords   \* texts that contain "cgi-bin/"

(***************************************************************************)
(* `semi': the word ends in a semicolon, which its text leaves out.        *)
(* `blank': a blank or a carriage return follows the last word.  `newline':*)
(* the last line of the file ends in one.                                  *)
(***************************************************************************)
Word == [text: STRING, semi: BOOLEAN]
Line == [key: STRING, words: Seq(Word), blank: BOOLEAN]
File == [lines: Seq(Line), newline: BOOLEAN]

ASSUME FilesAssumption == Files \subseteq File

DefaultMaxBody == 1024 * 1024

ASSUME NumberAssumption ==
  /\ MaxInt \in Nat /\ MaxInt >= DefaultMaxBody
  /\ DigitWords \subseteq STRING /\ \A w \in DigitWords : Number(w) \in Nat

VARIABLES
  file,    \* the file
  pos,     \* the line that is read next
  mode,    \* which constructor reads it; "loaded" or "failed" in the end
  server,  \* the ServerConfig under construction
  path,    \* the path of the Location under construction
  place,   \* that Location
  servers  \* Config::servers

config == <<file, pos, mode, server, path, place, servers>>

NoText == ""
Empty  == [x \in {} |-> NoText]

NewServer   == [port |-> 8080, maxBody |-> DefaultMaxBody, host |-> NoText,
                server_name |-> NoText, cgi |-> NoText, cgi_ext |-> NoText,
                pages |-> Empty, locations |-> Empty]
NewLocation == [methods |-> {}, index |-> {}, redirection |-> NoText, alias |-> NoText,
                autoindex |-> FALSE, maxBody |-> -1]

LoadInit ==
  /\ file \in Files
  /\ pos = 1 /\ mode = "file" /\ servers = <<>>
  /\ server = NewServer /\ path = NoText /\ place = NewLocation

-----------------------------------------------------------------------------
(* The directives: what a line makes of the object, or {} for baseError. *)

Texts(l) == [i \in DOMAIN l.words |-> l.words[i].text]
Text(l)  == l.words[1].text

\* A single word that ends in a semicolon: cutSemicolon has nothing to object, and
\* the next word is a key word.
Single(l) == Len(l.words) = 1 /\ l.words[1].semi
Set(object, l, field) == IF Single(l) THEN {[object EXCEPT ![field] = Text(l)]} ELSE {}

SetCgi(s, l)     == Set(s, l, l.key)   \* setCgi and setCgiExt
SetAlias(loc, l) == Set(loc, l, l.key) \* setAlias and setRedirection

\* stringToNumber: a number that does not fit is zero.
StringToNumber(w) == IF w \in DigitWords /\ Number(w) <= MaxInt THEN Number(w) ELSE 0

\* isPositiveDigit: every character is a digit, also of the empty text.
IsPositiveDigit(w) == w \in DigitWords \cup {NoText}

\* The port, and a semicolon at its end or on its own.
OnlyThePort(l) == /\ Texts(l) \in {<<Text(l)>>, <<Text(l), NoText>>} /\ Last(l.words).semi
                  /\ \A i \in 1..Len(l.words) - 1 : ~l.words[i].semi
Ports     == 1..65535
IsPort(w) == w \in DigitWords /\ Number(w) <= MaxInt /\ Number(w) \in Ports

SetPort(s, l) ==
  IF OnlyThePort(l) /\ IsPort(Text(l)) THEN {[s EXCEPT !.port = Number(Text(l))]} ELSE {}

SetClientMaxBodySize(object, l) ==
  IF Single(l) /\ IsPositiveDigit(Text(l))
  THEN {[object EXCEPT !.maxBody = StringToNumber(Text(l))]} ELSE {}

\* map[key] = value, for each of the keys.
Assigned(map, keys, value) ==
  [k \in DOMAIN map \cup keys |-> IF k \in keys THEN value ELSE map[k]]

Distinct(ws) == \A i, j \in DOMAIN ws : ws[i] = ws[j] => i = j

\* The words up to the first that ends in a semicolon; <<>> if none does.
UpToSemicolon(l) ==
  LET ends == {i \in DOMAIN l.words : l.words[i].semi}
  IN  IF ends = {} THEN <<>> ELSE SubSeq(Texts(l), 1, Min(ends))

Codes == 400..599

\* Codes and a page, which has to be the end of the line.
SetErrorPage(s, l) ==
  LET ws    == UpToSemicolon(l)
      codes == [i \in 1..Len(ws) - 1 |-> StringToNumber(ws[i])]
  IN  IF /\ Len(ws) >= 2 /\ Len(ws) = Len(l.words) /\ ~l.blank
         /\ \A i \in DOMAIN codes : IsPositiveDigit(ws[i]) /\ codes[i] \in Codes
         /\ Distinct(codes) /\ Range(codes) \cap DOMAIN s.pages = {}
      THEN {[s EXCEPT !.pages = Assigned(@, Range(codes), Last(ws))]} ELSE {}

\* setMethods and setIndex.  One more word is read after the semicolon, and forgotten,
\* before the end of the line is missed.
SetWords(loc, l, field) ==
  LET ws == UpToSemicolon(l)
  IN  IF /\ loc[field] = {} /\ ws # <<>> /\ Distinct(ws)
         /\ Len(l.words) = Len(ws) \/ (Len(l.words) = Len(ws) + 1 /\ ~l.blank)
      THEN {[loc EXCEPT ![field] = Range(ws)]} ELSE {}

SetAutoindex(loc, l) ==
  IF Single(l) /\ Text(l) \in {"on", "off"}
  THEN {[loc EXCEPT !.autoindex = Text(l) = "on"]} ELSE {}

ServerAfter(s, l) ==
  CASE l.key = "listen"               -> SetPort(s, l)
    [] l.key = "error_page"           -> SetErrorPage(s, l)
    [] l.key = "client_max__bodysize" -> SetClientMaxBodySize(s, l)
    [] l.key \in {"host", "server_name"} -> Set(s, l, l.key)
    [] l.key \in {"cgi", "cgi_ext"}      -> SetCgi(s, l)
    [] OTHER -> {}

LocationAfter(loc, l) ==
  CASE l.key \in {"methods", "index"}     -> SetWords(loc, l, l.key)
    [] l.key \in {"redirection", "alias"} -> SetAlias(loc, l)
    [] l.key = "autoindex"                -> SetAutoindex(loc, l)
    [] l.key = "client_max__bodysize"     -> SetClientMaxBodySize(loc, l)
    [] OTHER -> {}

-----------------------------------------------------------------------------
(* The blocks *)

More == pos <= Len(file.lines)
Here == file.lines[pos]

Step(m) == mode' = m /\ pos' = pos + 1 /\ UNCHANGED file
Fail    == Step("failed") /\ UNCHANGED <<server, path, place, servers>>

\* Config: a key word at the very end of the file, without a newline, is not seen.
LoadDone == ~More \/ (pos = Len(file.lines) /\ Here.words = <<>> /\ ~Here.blank /\ ~file.newline)

\* The key word and the opening brace of a block.
ReadFile ==
  /\ mode = "file"
  /\ IF LoadDone THEN /\ Step(IF servers = <<>> THEN "failed" ELSE "loaded")
                      /\ UNCHANGED <<server, path, place, servers>>
     ELSE IF Here.key = "server" /\ Texts(Here) = <<"{">>
     THEN Step("server") /\ server' = NewServer /\ UNCHANGED <<path, place, servers>>
     ELSE Fail

\* Faulty variant: a cgi needs no extension.
CompleteWithoutExt(s) == s.host # NoText /\ s.locations # Empty

\* What the end of a server's block asks for.
Complete(s) ==
  /\ s.host # NoText /\ s.locations # Empty
  /\ s.cgi = NoText <=> s.cgi_ext = NoText
  /\ s.cgi \in CgiWords \cup {NoText}

Finished(s) == IF s.pages = Empty THEN [s EXCEPT !.pages = Assigned(@, {404}, "www/errors/404.html")] ELSE s

SameAddress(s, t) == s.port = t.port /\ s.host = t.host

\* The first server of an address is kept, a later one dropped.
Added(s) == IF \E i \in DOMAIN servers : SameAddress(servers[i], s) THEN servers ELSE Append(servers, s)

\* Faulty variant: a Location starts with what the one before has left.
FreshLocationOld == place

\* The Location that a block starts with.
FreshLocation == NewLocation

\* setLocation, and the opening brace: a new path.
OpensLocation == /\ More /\ Here.key = "location" /\ Len(Here.words) = 2
                 /\ Texts(Here)[2] = "{" /\ Text(Here) \notin DOMAIN server.locations

ReadServer ==
  /\ mode = "server"
  /\ IF More /\ Here.key = "}" /\ Here.words = <<>> /\ Complete(server)
     THEN Step("file") /\ servers' = Added(Finished(server)) /\ UNCHANGED <<server, path, place>>
     ELSE IF OpensLocation
     THEN /\ Step("location") /\ path' = Text(Here) /\ place' = FreshLocation
          /\ UNCHANGED <<server, servers>>
     ELSE IF More /\ ServerAfter(server, Here) # {}
     THEN Step("server") /\ server' \in ServerAfter(server, Here) /\ UNCHANGED <<path, place, servers>>
     ELSE Fail

\* The defaults of a location are set at its end.
WithDefaults(loc) ==
  [loc EXCEPT !.methods = IF @ = {} THEN {"GET"} ELSE @,
              !.index = IF @ = {} THEN {"index.html"} ELSE @]

ReadLocation ==
  /\ mode = "location"
  /\ IF More /\ Here.key = "}" /\ Here.words = <<>>
     THEN /\ Step("server")
          /\ server' = [server EXCEPT !.locations = Assigned(@, {path}, WithDefaults(place))]
          /\ UNCHANGED <<path, place, servers>>
     ELSE IF More /\ LocationAfter(place, Here) # {}
     THEN Step("location") /\ place' \in LocationAfter(place, Here) /\ UNCHANGED <<server, path, servers>>
     ELSE Fail

LoadNext == ReadFile \/ ReadServer \/ ReadLocation

LoadSpec == LoadInit /\ [][LoadNext]_config
-----------------------------------------------------------------------------
(* Properties *)

Sizes == 0..MaxInt

LocationOK(loc) ==
  /\ loc.methods # {} /\ loc.index # {}
  /\ (loc.maxBody \in Sizes \/ loc.maxBody = -1) /\ loc.autoindex \in BOOLEAN

ServerOK(s) ==
  /\ s.port \in Ports /\ s.maxBody \in Sizes /\ s.host # NoText
  /\ s.cgi = NoText <=> s.cgi_ext = NoText
  /\ s.pages # Empty /\ DOMAIN s.pages \subseteq Codes
  /\ s.locations # Empty
  /\ \A p \in DOMAIN s.locations : LocationOK(s.locations[p])

\* Whatever the file, what is handed to the servers is usable: nobody listens twice
\* on an address, and each server has a host and a port that exist, some location,
\* error pages for errors only, and a script for its extension or neither; each
\* location allows some method and has some index.
ServersUsable ==
  mode = "loaded" =>
    /\ servers # <<>>
    /\ \A i, j \in DOMAIN servers : SameAddress(servers[i], servers[j]) => i = j
    /\ \A i \in DOMAIN servers : ServerOK(servers[i])

(***************************************************************************)
(* The file read as a whole.  A block goes from its key word to the brace  *)
(* that closes it; a directive belongs to the innermost block around it.   *)
(***************************************************************************)
Opening == {"server", "location"}
Closing == {"}"}

Keyed(ls, keys)        == {i \in DOMAIN ls : ls[i].key \in keys}
Within(ls, a, b, keys) == Cardinality({i \in Keyed(ls, keys) : a <= i /\ i <= b})

\* The brace that closes the block that begins with line b.
End(ls, b) ==
  Min({e \in Keyed(ls, Closing) : e > b /\ Within(ls, b, e, Opening) = Within(ls, b, e, Closing)})

\* The block's own lines with a key, before line m.
Own(ls, b, m, key) ==
  {i \in Keyed(ls, {key}) : /\ b < i /\ i < m
                            /\ \A c \in Keyed(ls, Opening) \ {b} : b < c /\ c < i => End(ls, c) < i}

\* What the last of some lines says, or else the default.
Says(ls, own, default) == IF own = {} THEN default ELSE Text(ls[Max(own)])
SaysNumber(ls, own, default) == IF own = {} THEN default ELSE StringToNumber(Says(ls, own, NoText))
WordsOf(ls, own, default) ==
  IF own = {} THEN {default} ELSE UNION {Range(UpToSemicolon(ls[i])) : i \in own}

LocationAt(ls, b, m) ==
  [methods |-> WordsOf(ls, Own(ls, b, m, "methods"), "GET"),
   index |-> WordsOf(ls, Own(ls, b, m, "index"), "index.html"),
   redirection |-> Says(ls, Own(ls, b, m, "redirection"), NoText),
   alias |-> Says(ls, Own(ls, b, m, "alias"), NoText),
   autoindex |-> Says(ls, Own(ls, b, m, "autoindex"), "off") = "on",
   maxBody |-> SaysNumber(ls, Own(ls, b, m, "client_max__bodysize"), -1)]

\* A server says what the lines of block b before line m say.
Agrees(s, ls, b, m) ==
  /\ s.port = SaysNumber(ls, Own(ls, b, m, "listen"), 8080)
  /\ s.maxBody = SaysNumber(ls, Own(ls, b, m, "client_max__bodysize"), DefaultMaxBody)
  /\ \A key \in {"host", "server_name", "cgi", "cgi_ext"} : s[key] = Says(ls, Own(ls, b, m, key), NoText)
  /\ DOMAIN s.locations = {Text(ls[l]) : l \in Own(ls, b, m, "location")}
  /\ \A l \in Own(ls, b, m, "location") : s.locations[Text(ls[l])] = LocationAt(ls, l, End(ls, l))
  /\ \A i \in Own(ls, b, m, "error_page") : LET ws == UpToSemicolon(ls[i]) IN
       \A k \in 1..Len(ws) - 1 : s.pages[StringToNumber(ws[k])] = Last(ws)

\* The servers' blocks before line m, and those with an address that is new.
Blocks(ls, m)  == {b \in Keyed(ls, {"server"}) : b < m}
Address(ls, b) == <<SaysNumber(ls, Own(ls, b, End(ls, b), "listen"), 8080),
                    Says(ls, Own(ls, b, End(ls, b), "host"), NoText)>>
Firsts(ls, m)  == {b \in Blocks(ls, m) : \A a \in Blocks(ls, m) : a < b => Address(ls, a) # Address(ls, b)}

AsWritten(ss, ls, m) ==
  /\ Len(ss) = Cardinality(Firsts(ls, m))
  /\ \A b \in Firsts(ls, m) : Agrees(ss[Cardinality({a \in Firsts(ls, m) : a <= b})], ls, b, End(ls, b))

\* Each server is the first block of the file with its address, in the order of the
\* file, and says what that block and its locations say: nothing is carried over
\* from one block to another, in which a directive that is missing has its default.
ReadAsWritten == mode = "loaded" => AsWritten(servers, file.lines, pos - 1)
=============================================================================
