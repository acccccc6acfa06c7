------------------------------- MODULE MCSites -------------------------------
(* An instance of Sites for TLC: a file with two servers and every file that      *)
(* differs from it in one line.                                                    *)
EXTENDS Sites

End0(t)   == [text |-> t, semi |-> TRUE]
Bare(t)   == [text |-> t, semi |-> FALSE]
Ln(k, ws) == [key |-> k, words |-> ws, blank |-> FALSE]
One(k, t) == Ln(k, <<End0(t)>>)
Open(p)   == Ln("location", <<Bare(p), Bare("{")>>)
Close     == Ln("}", <<>>)
Server    == Ln("server", <<Bare("{")>>)

Base == <<
  Server,
    One("listen", "80"), One("host", "h"),
    Ln("error_page", <<Bare("404"), Bare("500"), End0("e")>>),
    One("client_max__bodysize", "80"), One("cgi", "cgi-bin/x"), One("cgi_ext", ".x"),
    Open("/"), Ln("methods", <<Bare("GET"), End0("POST")>>), One("alias", "r"), Close,
    Open("/a/"), One("alias", "r/"), One("autoindex", "on"), One("index", "i"),
                 One("client_max__bodysize", "404"), Close,
    Open("/a/b"), One("redirection", "u"), One("alias", "r"), Close,
  Close,
  Server, Ln("listen", <<Bare("81"), End0("")>>), One("host", "h"),
    Open("/ab/"), One("alias", "r"), Close,
    Open("/a/"), One("alias", "r"), Close,
  Close >>

OtherLines ==
  {One("listen", "80"), One("listen", "70000"), One("listen", "99999999"), One("client_max__bodysize", "99999999"),
   One("listen", "x"), One("server_name", "n"), One("cgi", "x"), One("other", "x"), Close, Server,
   Ln("server", <<>>), Open("/"), One("host", ""), Ln("error_page", <<Bare("404"), End0("f")>>),
   Ln("error_page", <<Bare("399"), End0("f")>>), Ln("error_page", <<Bare("400"), Bare("400"), End0("f")>>),
   Ln("error_page", <<Bare("400"), End0("f"), Bare("x")>>), Ln("methods", <<End0("GET"), Bare("PUT")>>),
   Ln("methods", <<Bare("GET")>>), Ln("methods", <<Bare("GET"), End0("GET")>>), One("autoindex", "off"),
   Ln("alias", <<Bare("r")>>), One("index", "j")}

N == Len(Base)
Blanked(l)  == [l EXCEPT !.blank = TRUE]
Dropped(i)  == SubSeq(Base, 1, i - 1) \o SubSeq(Base, i + 1, N)
With(i, l)  == SubSeq(Base, 1, i - 1) \o <<l>> \o SubSeq(Base, i + 1, N)
Added2(i, l) == SubSeq(Base, 1, i) \o <<l>> \o SubSeq(Base, i + 1, N)

Contents ==
  {Base, <<>>} \cup {Dropped(i) : i \in 1..N} \cup {Added2(i, l) : i \in 1..N, l \in OtherLines}
  \cup {With(i, Blanked(Base[i])) : i \in 1..N} \cup {Added2(i, Base[i]) : i \in 1..N}
  \cup {SubSeq(Base, 1, i) : i \in 1..N}
SomeFiles == {[lines |-> c, newline |-> n] : c \in Contents, n \in BOOLEAN}

SomeDigits == {"80", "81", "399", "400", "404", "500", "70000", "99999999"}
MCNumber(w) == CASE w = "80" -> 80 [] w = "81" -> 81 [] w = "399" -> 399 [] w = "400" -> 400
                 [] w = "404" -> 404 [] w = "500" -> 500 [] w = "70000" -> 70000 [] OTHER -> 99999999

\* "/", "a", "b", "c", ".", "x", "?"
MCChars(w) ==
  CASE w = "/" -> <<47>> [] w = "/a/" -> <<47, 97, 47>> [] w = "/a/b" -> <<47, 97, 47, 98>>
    [] w = "/ab/" -> <<47, 97, 98, 47>> [] w = "r" -> <<114>> [] w = "r/" -> <<114, 47>> [] OTHER -> <<>>

SomeTargets == {<<47>>, <<47, 63, 97>>, <<47, 97>>, <<47, 97, 47>>, <<47, 97, 47, 98>>, <<47, 97, 47, 98, 99>>,
                <<47, 97, 47, 98, 47, 99, 63>>, <<47, 97, 98>>, <<47, 97, 98, 47, 99>>, <<47, 99, 47, 97>>,
                <<47, 97, 47, 99, 46, 99>>, <<47, 97, 47, 99>>}
SomeEntries == {<<46>>, <<46, 46>>, <<98>>, <<99>>, <<99, 46, 99>>, <<98, 32, 99>>, <<98, 35>>}
SomeKnown   == {<<46, 99>>}
=============================================================================
