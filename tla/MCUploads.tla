------------------------------ MODULE MCUploads ------------------------------
(* Instances of Uploads for TLC: two servers that share a directory.            *)
EXTENDS Uploads

MCDir  == "/"
MCNone == ""
MCDotted == ".html"

SomeNames == {"a", "ab", "c", "page", "pag", "1", "2", "3", "4", "5", "6", "7"}
KnownName == {"page"}
MCChop(n)   == IF n = "ab" THEN "a" ELSE IF n = "page" THEN "pag" ELSE "c"
MCNumber(k) == CASE k = 1 -> "1" [] k = 2 -> "2" [] k = 3 -> "3" [] k = 4 -> "4"
                 [] k = 5 -> "5" [] k = 6 -> "6" [] OTHER -> "7"

Ask(m, n)        == [method |-> m, name |-> n, part |-> MCNone, body |-> 0, wrong |-> FALSE]
Upload(m, n, b)  == [Ask(m, n) EXCEPT !.body = b]
Form(n, b)       == [Upload("POST", MCDir, b) EXCEPT !.part = n]
Misstated(r)     == [r EXCEPT !.wrong = TRUE]

Location0 == [methods |-> {"GET", "POST", "PUT", "DELETE"}, redirect |-> FALSE,
              autoindex |-> FALSE, index |-> "page", maxBody |-> 2, exists |-> TRUE,
              top |-> FALSE]
SomeLocations == {Location0,
                  [Location0 EXCEPT !.autoindex = TRUE],
                  [Location0 EXCEPT !.methods = {"GET"}],
                  [Location0 EXCEPT !.redirect = TRUE],
                  [Location0 EXCEPT !.exists = FALSE],
                  [Location0 EXCEPT !.top = TRUE],
                  [Location0 EXCEPT !.index = MCDotted]}

\* The first client saves under "ab" and in forms under "c", with bodies that are too
\* long or misstated among them; the second replaces, reads and removes "a" and asks for
\* pages; both save without a name.
Busy == [t \in {1, 2} |->
           IF t = 1
           THEN {Upload("PUT", "ab", b) : b \in 1..3} \cup
                {Form("c", 1), Misstated(Upload("PUT", "ab", 1)), Upload("POST", MCDir, 1)}
           ELSE {Upload("PUT", "a", 2), Upload("POST", MCDir, 2), Ask("GET", "page"),
                 Ask("GET", "a"), Ask("DELETE", "a"), Ask("GET", MCDir), Ask("DELETE", "1"),
                 Misstated(Ask("DELETE", "a")), Upload("POST", "page", 1)}]
Twice == [t \in {1, 2} |-> 2]

\* One client that removes.
Remover   == [t \in {1} |-> {Ask("DELETE", "a"), Ask("GET", "a")}]
FourTimes == [t \in {1} |-> 4]

OneFile == [n \in {"a"} |-> 1]
=============================================================================
