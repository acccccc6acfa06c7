------------------------------- MODULE Sites -------------------------------
(***************************************************************************)
(* The configuration at work: a file is read, and each of the servers that *)
(* come out of it looks up the location and the file of any request, as    *)
(* the constructor of Response does with _serverConfig.getLocations().     *)
(***************************************************************************)
EXTENDS ConfigLoad, Routing

CONSTANTS
  Chars(_), \* the characters of a text of the file
  Entries   \* names of files in a directory

ASSUME EntriesAssumption ==
  /\ Entries \subseteq CharSeq
  /\ \A name \in Entries : name # <<>> /\ \A i \in DOMAIN name : name[i] # Slash
ASSUME CharsAssumption ==
  /\ Chars(NoText) \in CharSeq
  /\ \A f \in Files : \A i \in DOMAIN f.lines : \A k \in DOMAIN f.lines[i].words :
       Chars(f.lines[i].words[k].text) \in CharSeq

VARIABLE site  \* the server that is asked

vars == <<config, routing, site>>

Init == LoadInit /\ RoutingInit /\ site = 0

Load == mode \notin {"loaded", "failed"} /\ LoadNext /\ UNCHANGED <<routing, site>>

\* The paths of a server's locations in the order of a std::map: each has its place
\* behind those that are less.
PathOrder(paths) ==
  [i \in 1..Cardinality(paths) |->
     CHOOSE p \in paths : Cardinality({q \in paths : Less(q, p)}) = i - 1]

Paths(i) == {Chars(p) : p \in DOMAIN servers[i].locations}

\* A request to one of the servers.
Request ==
  /\ mode = "loaded"
  /\ \E i \in DOMAIN servers, target \in Targets :
       /\ site' = i /\ order' = PathOrder(Paths(i))
       /\ Begin(target)
  /\ UNCHANGED config

LookUp == mode = "loaded" /\ Visit /\ UNCHANGED <<config, site>>

Next == Load \/ Request \/ LookUp

Spec == Init /\ [][Next]_vars

\* The lookups of all the servers are those of Routing, given that a std::map is in order.
Routes == RoutingSpec
-----------------------------------------------------------------------------
(* Properties *)

Location == LocationOf(found)
Place    == servers[site].locations[CHOOSE p \in DOMAIN servers[site].locations : Chars(p) = Location]
Root     == Chars(Place.alias)
Served   == Settled /\ Location \in Range(order) /\ Place.alias # NoText

\* Two texts name the same file: slashes in a row are one.
SameName(a, b) == Segments(a) = Segments(b)

\* What is uploaded under a path is what a later request for the path reads, and what
\* a DELETE removes, although each handler puts the name together in a way of its own:
\* for locations that end in a slash, and for names without a known extension, below
\* the location itself.
SameFile ==
  Served /\ Last(Location) = Slash /\ RequestedFile(route) = <<>> /\ Len(Rest(route, Location)) > 1
         /\ route[1] = Slash =>
    LET rest == Rest(route, Location)
    IN  /\ SameName(SaveName(Root, route, rest), ReadName(Root, rest))
        /\ SameName(DeleteName(Root, rest), ReadName(Root, rest))

\* The longest of the paths that a route begins with.
Longest(r) ==
  LET ps == {p \in Range(order) : Matches(r, p)}
  IN  IF ps = {} THEN <<Slash>> ELSE CHOOSE p \in ps : \A q \in ps : Len(q) <= Len(p)

\* What HTML and a URL leave as it is: letters, digits, and "/", ".", "-", "_", "~".
Literal == 48..57 \cup 65..90 \cup 97..122 \cup {Slash, Dot, 45, 95, 126}

\* A link without quotes that a browser follows as it is written: no blank and no ">" ends
\* it, no "#" or "?" begins another part of it, nothing has to be written as "%" and two
\* digits, it is not the name of a host, and no segment leads up, or nowhere.
Plain(link) ==
  /\ Range(link) \subseteq Literal
  /\ link[1] = Slash => link[2] # Slash
  /\ \A s \in Range(Segments(Tail(link))) : s # <<Dot>> /\ s # <<Dot, Dot>>

\* What a client asks for that follows such a link of the page at `route'.
Followed(link) == IF link[1] = Dot THEN Tail(link) ELSE link

\* The link that an automatic index page shows for an entry of its directory leads to
\* that entry, unless a location of its own is configured for it: for locations that
\* begin with a slash, and if the link is plain.  The page quotes and escapes nothing, so
\* those for "..", and for names and directories with other characters, may lead elsewhere.
LinksLeadBack ==
  Served /\ Location[1] = Slash => \A name \in Entries :
    LET rest == Rest(route, Location)
        link == Link(Location, rest, name)
        r    == Route(Followed(link))
    IN  Plain(link) =>
          \/ Len(Longest(r)) > Len(Location)
          \/ /\ Longest(r) = Location
             /\ SameName(ReadName(Root, Rest(r, Location)), ReadName(Root, rest) \o <<Slash>> \o name)
=============================================================================
