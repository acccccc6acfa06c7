------------------------------ MODULE Routing ------------------------------
(***************************************************************************)
(* From the target of a request to a location and a file: setRoute and     *)
(* setPath (src/src/request/RequestParser.cpp), readLocationData, and the  *)
(* names that checkPathForLocation, savePostBody, handleDelete and         *)
(* createAutoIndexPage give to files (src/src/response/Response.cpp).      *)
(*                                                                         *)
(* Texts are sequences of character codes.  The loop of readLocationData   *)
(* visits the locations in the order of their std::map, one per step.      *)
(***************************************************************************)
EXTENDS Integers, Sequences, SequencesExt

CONSTANTS
  Targets,  \* what clients ask for
  Known     \* extensions that setContentType knows

Dot   == 46
Slash == 47
Query == 63

CharSeq == Seq(Nat)

ASSUME TargetsAssumption ==
  Targets \subseteq CharSeq /\ \A t \in Targets : t # <<>> /\ t[1] = Slash

VARIABLES
  order,  \* the paths of _locations, in the map's order
  route,  \* _requestRoute, before readLocationData cuts it
  next,   \* the entry of the map that the loop visits next
  found   \* maxPossibleLocation

routing == <<order, route, next, found>>

\* std::string's operator<, the order of the map.
Less(a, b) ==
  \/ IsStrictPrefix(a, b)
  \/ \E k \in 1..Len(a) : /\ k <= Len(b) /\ a[k] < b[k]
                          /\ \A j \in 1..k - 1 : a[j] = b[j]

MapOrder(s) == \A i, j \in DOMAIN s : i < j => Less(s[i], s[j])

\* s up to, and without, the first occurrence of c.
Before(s, c) ==
  LET at == {i \in DOMAIN s : s[i] = c} IN IF at = {} THEN s ELSE SubSeq(s, 1, Min(at) - 1)

\* setRoute: without the query, with a slash at its end; one character is taken for none.
Route(target) ==
  IF Len(target) = 1 THEN <<Dot, Slash>>
  ELSE LET r == Before(target, Query) IN IF Last(r) = Slash THEN r ELSE Append(r, Slash)

\* setPath: what is between the slashes, empty parts left out.
Cuts(s) == {i \in DOMAIN s : s[i] = Slash} \cup {0, Len(s) + 1}

Between(s) ==
  LET cuts == Cuts(s)
  IN  {p \in cuts \X cuts : p[1] + 1 < p[2] /\ \A c \in cuts : c <= p[1] \/ c >= p[2]}

Segments(s) ==
  LET pairs == Between(s)
  IN  [i \in 1..Cardinality(pairs) |->
         LET p == CHOOSE c \in pairs : Cardinality({q \in pairs : q[1] <= c[1]}) = i
         IN  SubSeq(s, p[1] + 1, p[2] - 1)]

\* findMaxPossibleLocation: the whole route, or a beginning of it, the slash alone
\* excepted.
Matches(r, p) == p = r \/ (Len(p) >= 2 /\ IsPrefix(p, r))

RoutingInit == order = <<>> /\ route = <<>> /\ next = 1 /\ found = <<>>

\* A request comes in, when the loop for the one before is over.
Begin(target) ==
  /\ next > Len(order)
  /\ route' = Route(target)
  /\ next' = 1 /\ found' = <<>>

\* The server it is for may have any locations.
Ask(target) == Begin(target) /\ order' \in Seq(CharSeq) /\ MapOrder(order')

\* Faulty variant: the first match stays.
BetterFirst(p) == IF found = <<>> /\ Matches(route, p) THEN p ELSE found

\* Every match replaces the one before.
Better(p) == IF Matches(route, p) THEN p ELSE found

Visit ==
  /\ next <= Len(order)
  /\ found' = Better(order[next])
  /\ next' = next + 1
  /\ UNCHANGED <<order, route>>

RoutingNext == Visit \/ \E target \in Targets : Ask(target)

RoutingSpec == RoutingInit /\ [][RoutingNext]_routing

\* The loop is over.
Settled == order # <<>> /\ next > Len(order)

\* The location that is used, which need not be configured.
LocationOf(f) == IF f = <<>> THEN <<Slash>> ELSE f

-----------------------------------------------------------------------------
(* Files *)

\* substr(from - 1, n), where n may reach beyond the end.
Sub(s, from, n) == SubSeq(s, from, IF from + n - 1 > Len(s) THEN Len(s) ELSE from + n - 1)

\* _requestRoute as readLocationData leaves it: from the location's last character on.
Rest(r, location) == IF location = <<Slash>> THEN r ELSE SubSeq(r, Len(location), Len(r))

Extension(s) == LET n == Before(s, Dot) IN SubSeq(s, Len(n) + 1, Len(s))

\* setContentType: the last segment, if it has an extension that is known.
RequestedFile(r) ==
  LET path == Segments(Tail(r))
  IN  IF path # <<>> /\ Extension(Last(path)) \in Known THEN Last(path) ELSE <<>>

\* checkPathForLocation: what is opened and read.
ReadName(root, rest) ==
  root \o (IF Last(root) = Slash THEN <<>> ELSE <<Slash>>) \o Sub(rest, 2, Len(rest) - 2)

\* savePostBody, for an upload that is no form.  Empty stands for a number.
SavedFile(r, rest) == IF RequestedFile(r) # <<>> THEN RequestedFile(r) ELSE Tail(rest)
SaveName(root, r, rest) ==
  root \o <<Slash>> \o SubSeq(SavedFile(r, rest), 1, Len(SavedFile(r, rest)) - 1)

\* Faulty variant: the wrong slash of the route is cut.
DeleteNameWhole(root, rest) == root \o Tail(rest)

\* handleDelete.
DeleteName(root, rest) == root \o SubSeq(rest, 1, Len(rest) - 1)

\* Faulty variant: the location is not cut.
LinkWhole(location, rest, name) == location \o rest \o name

\* createAutoIndexPage: the link to an entry of a directory.
Link(location, rest, name) == SubSeq(location, 1, Len(location) - 1) \o rest \o name
-----------------------------------------------------------------------------
(* Properties *)

\* The loop ends with the longest path that the route begins with, in spite of
\* keeping the last match and not the longest: which is the same as long as the
\* paths are visited in the order of the map.
LongestLocation ==
  Settled =>
    /\ \A i \in DOMAIN order : Matches(route, order[i]) => Len(order[i]) <= Len(found)
    /\ found # <<>> => found \in Range(order) /\ Matches(route, found)
=============================================================================
