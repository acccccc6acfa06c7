----------------------------- MODULE SitesProofs -----------------------------
(***************************************************************************)
(* Proofs about the configuration: its reading (ConfigLoad), the lookup of *)
(* a location (Routing), and the two together (Sites), for any files and   *)
(* any targets.                                                            *)
(***************************************************************************)
EXTENDS Sites, Orders, SequenceTheorems, TLAPS

-----------------------------------------------------------------------------
(* The lookup *)

\* What the loop has found among the entries it has visited.
Best ==
  \/ found = <<>> /\ \A i \in 1..next - 1 : ~Matches(route, order[i])
  \/ \E j \in 1..next - 1 :
       /\ found = order[j] /\ Matches(route, found)
       /\ \A i \in 1..next - 1 : Matches(route, order[i]) => Len(order[i]) <= Len(found)

RoutingInv ==
  /\ order \in Seq(CharSeq) /\ MapOrder(order)
  /\ route \in CharSeq
  /\ next \in 1..Len(order) + 1
  /\ Best

LEMMA BeforeType ==
  ASSUME NEW s \in CharSeq, NEW c
  PROVE  Before(s, c) \in CharSeq
<1> DEFINE at == {i \in DOMAIN s : s[i] = c}
<1>1. CASE at = {}
  BY <1>1 DEF Before
<1>2. CASE at # {}
  <2>1. at \subseteq Nat
    BY DEF CharSeq
  <2>2. PICK m \in at : \A i \in at : m <= i
    BY <1>2, <2>1, LeastNatural
  <2>3. Min(at) \in at
    BY <2>2 DEF Min
  <2>4. Min(at) - 1 \in 0..Len(s)
    BY <2>3 DEF CharSeq
  <2>5. \A n \in 0..Len(s) : SubSeq(s, 1, n) \in CharSeq
    BY DEF CharSeq
  <2>6. Before(s, c) = SubSeq(s, 1, Min(at) - 1)
    BY <1>2 DEF Before
  <2> QED BY <2>4, <2>5, <2>6
<1> QED BY <1>1, <1>2

LEMMA RouteType ==
  ASSUME NEW target \in Targets
  PROVE  Route(target) \in CharSeq
<1>1. target \in CharSeq
  BY TargetsAssumption
<1> DEFINE r == Before(target, Query)
<1>2. r \in CharSeq
  BY <1>1, BeforeType
<1>3. Append(r, Slash) \in CharSeq
  BY <1>2 DEF CharSeq, Slash
<1>4. <<Dot, Slash>> \in CharSeq
  BY DEF CharSeq, Dot, Slash
<1> QED BY <1>2, <1>3, <1>4 DEF Route

\* A path that matches agrees with the route on each of its characters.
LEMMA MatchAgrees ==
  ASSUME NEW r \in CharSeq, NEW p \in CharSeq, Matches(r, p), NEW k \in 1..Len(p)
  PROVE  p[k] = r[k]
<1>1. CASE p = r
  BY <1>1
<1>2. CASE IsPrefix(p, r)
  <2>1. SubSeq(p, 1, Len(p)) = SubSeq(r, 1, Len(p)) /\ Len(p) <= Len(r)
    BY <1>2 DEF IsPrefix
  <2>2. SubSeq(p, 1, Len(p))[k] = p[k] /\ SubSeq(r, 1, Len(p))[k] = r[k]
    BY <2>1 DEF CharSeq
  <2> QED BY <2>1, <2>2
<1> QED BY <1>1, <1>2 DEF Matches

\* Of two paths that match, the later in the order of the map is not the shorter.
LEMMA LaterIsLonger ==
  ASSUME NEW r \in CharSeq, NEW a \in CharSeq, NEW b \in CharSeq,
         Matches(r, a), Matches(r, b), Less(a, b)
  PROVE  Len(a) <= Len(b)
<1>1. CASE IsStrictPrefix(a, b)
  BY <1>1 DEF IsStrictPrefix, IsPrefix
<1>2. ASSUME NEW k \in 1..Len(a), k <= Len(b), a[k] < b[k] PROVE FALSE
  <2>1. a[k] = r[k]
    BY MatchAgrees
  <2>2. b[k] = r[k]
    BY <1>2, MatchAgrees DEF CharSeq
  <2>3. a[k] \in Nat
    BY DEF CharSeq
  <2> QED BY <1>2, <2>1, <2>2, <2>3
<1> QED BY <1>1, <1>2 DEF Less

LEMMA VisitInv ==
  ASSUME RoutingInv, Visit
  PROVE  RoutingInv'
<1> DEFINE p == order[next]
<1>1. /\ next \in 1..Len(order) /\ next' = next + 1
      /\ order' = order /\ route' = route
      /\ found' = IF Matches(route, p) THEN p ELSE found
  BY DEF RoutingInv, Visit, Better
<1>2. p \in CharSeq /\ \A i \in 1..next - 1 : order[i] \in CharSeq /\ Less(order[i], p)
  BY <1>1 DEF RoutingInv, MapOrder
<1>3. 1..next' - 1 = 1..next - 1 \cup {next}
  BY <1>1
<1>4. ASSUME Matches(route, p) PROVE Best'
  <2>1. found' = order'[next] /\ Matches(route', found')
    BY <1>1, <1>4
  <2>2. ASSUME NEW i \in 1..next - 1, Matches(route, order[i])
        PROVE  Len(order[i]) <= Len(p)
    BY <1>2, <1>4, <2>2, LaterIsLonger DEF RoutingInv
  <2>3. Len(p) <= Len(p)
    BY <1>2 DEF CharSeq
  <2>4. \A i \in 1..next' - 1 : Matches(route', order'[i]) => Len(order'[i]) <= Len(found')
    BY <1>1, <1>3, <1>4, <2>2, <2>3
  <2> QED BY <1>3, <2>1, <2>4 DEF Best
<1>5. ASSUME ~Matches(route, p) PROVE Best'
  <2>1. found' = found
    BY <1>1, <1>5
  <2> QED BY <1>1, <1>3, <1>5, <2>1 DEF RoutingInv, Best
<1> QED BY <1>1, <1>4, <1>5 DEF RoutingInv

LEMMA RoutingAlways == RoutingSpec => []RoutingInv
<1>1. RoutingInit => RoutingInv
  BY DEF RoutingInit, RoutingInv, Best, MapOrder, CharSeq
<1>2. RoutingInv /\ [RoutingNext]_routing => RoutingInv'
  <2> SUFFICES ASSUME RoutingInv, [RoutingNext]_routing PROVE RoutingInv'
    OBVIOUS
  <2>1. CASE UNCHANGED routing
    BY <2>1 DEF routing, RoutingInv, Best
  <2>2. CASE Visit
    BY <2>2, VisitInv
  <2>3. ASSUME NEW target \in Targets, Ask(target) PROVE RoutingInv'
    <3>1. route' \in CharSeq
      BY <2>3, RouteType DEF Ask, Begin
    <3>2. next' = 1 /\ found' = <<>> /\ order' \in Seq(CharSeq) /\ MapOrder(order')
      BY <2>3 DEF Ask, Begin
    <3>3. next' \in 1..Len(order') + 1 /\ 1..next' - 1 = {}
      BY <3>2
    <3> QED BY <3>1, <3>2, <3>3 DEF RoutingInv, Best
  <2> QED BY <2>1, <2>2, <2>3 DEF RoutingNext
<1> QED BY <1>1, <1>2, PTL DEF RoutingSpec

\* Whatever the locations and the target, the loop of readLocationData, which keeps the
\* last match, ends with the longest: the order of the map makes the two the same.
THEOREM LongestWins == RoutingSpec => []LongestLocation
<1>1. RoutingInv => LongestLocation
  <2> SUFFICES ASSUME RoutingInv, Settled PROVE LongestLocation
    BY DEF LongestLocation
  <2>1. DOMAIN order = 1..next - 1 /\ next - 1 \in Nat
    BY DEF RoutingInv, Settled
  <2>2. \A j \in DOMAIN order : order[j] \in Range(order)
    BY DEF Range
  <2> QED BY <2>1, <2>2 DEF RoutingInv, Best, LongestLocation
<1> QED BY <1>1, RoutingAlways, PTL

-----------------------------------------------------------------------------
(* The order of the map *)

\* a is less than b because of position k: a ends before it or has the smaller character.
Beats(a, b, k) ==
  /\ k \in 1..Len(b)
  /\ \A j \in 1..k - 1 : j <= Len(a) /\ a[j] = b[j]
  /\ k = Len(a) + 1 \/ (k <= Len(a) /\ a[k] < b[k])

LEMMA SameChars ==
  ASSUME NEW a \in CharSeq, NEW b \in CharSeq, Len(a) = Len(b),
         \A j \in 1..Len(a) : a[j] = b[j]
  PROVE  a = b
<1>1. a \in Seq(Nat) /\ b \in Seq(Nat)
  BY DEF CharSeq
<1> QED BY <1>1, SeqEqual

LEMMA LessAt ==
  ASSUME NEW a \in CharSeq, NEW b \in CharSeq
  PROVE  Less(a, b) <=> \E k \in Nat : Beats(a, b, k)
<1>1. /\ Len(a) \in Nat /\ Len(b) \in Nat /\ DOMAIN a = 1..Len(a) /\ DOMAIN b = 1..Len(b)
      /\ a \in Seq(Nat) /\ b \in Seq(Nat)
  BY DEF CharSeq
<1>2. ASSUME Len(a) <= Len(b)
      PROVE  SubSeq(a, 1, Len(a)) = SubSeq(b, 1, Len(a)) <=> \A j \in 1..Len(a) : a[j] = b[j]
  <2>1. /\ SubSeq(a, 1, Len(a)) = [j \in 1..Len(a) |-> a[j]]
        /\ SubSeq(b, 1, Len(a)) = [j \in 1..Len(a) |-> b[j]]
    BY <1>1, <1>2
  <2> QED BY <2>1
<1>4. ASSUME IsStrictPrefix(a, b) PROVE Beats(a, b, Len(a) + 1)
  <2>1. Len(a) <= Len(b) /\ \A j \in 1..Len(a) : a[j] = b[j]
    BY <1>2, <1>4 DEF IsStrictPrefix, IsPrefix
  <2>2. Len(a) # Len(b)
    BY <1>4, <2>1, SameChars DEF IsStrictPrefix
  <2>3. Len(a) \in Nat /\ Len(b) \in Nat
    BY <1>1
  <2>4. Len(a) + 1 \in 1..Len(b) /\ (Len(a) + 1) - 1 = Len(a) /\ \A j \in 1..Len(a) : j <= Len(a)
    BY <2>1, <2>2, <2>3
  <2> QED BY <2>1, <2>4 DEF Beats
<1>5. ASSUME NEW k \in Nat, Beats(a, b, k), k = Len(a) + 1 PROVE IsStrictPrefix(a, b)
  <2>1. Len(a) < Len(b) /\ \A j \in 1..Len(a) : a[j] = b[j]
    BY <1>1, <1>5 DEF Beats
  <2> QED BY <1>1, <1>2, <2>1 DEF IsStrictPrefix, IsPrefix
<1>6. ASSUME NEW k \in 1..Len(a), k <= Len(b), a[k] < b[k], \A j \in 1..k - 1 : a[j] = b[j]
      PROVE  Beats(a, b, k)
  BY <1>1, <1>6 DEF Beats
<1>7. ASSUME Less(a, b) PROVE \E k \in Nat : Beats(a, b, k)
  <2>1. Len(a) + 1 \in Nat /\ 1..Len(a) \subseteq Nat
    BY <1>1
  <2> QED BY <1>4, <1>6, <1>7, <2>1 DEF Less
<1>8. ASSUME NEW k \in Nat, Beats(a, b, k) PROVE Less(a, b)
  <2>1. CASE k = Len(a) + 1
    BY <1>5, <1>8, <2>1 DEF Less
  <2>2. CASE k # Len(a) + 1
    BY <1>1, <1>8, <2>2 DEF Beats, Less
  <2> QED BY <2>1, <2>2
<1> QED BY <1>7, <1>8

LEMMA LessIrreflexive == ASSUME NEW a \in CharSeq PROVE ~Less(a, a)
<1>1. ASSUME NEW k \in Nat, Beats(a, a, k) PROVE FALSE
  <2>1. Len(a) \in Nat /\ \A j \in 1..Len(a) : a[j] \in Nat
    BY DEF CharSeq
  <2> QED BY <1>1, <2>1 DEF Beats
<1> QED BY <1>1, LessAt

LEMMA LessTransitive ==
  ASSUME NEW a \in CharSeq, NEW b \in CharSeq, NEW c \in CharSeq, Less(a, b), Less(b, c)
  PROVE  Less(a, c)
<1>1. PICK i \in Nat : Beats(a, b, i)
  BY LessAt
<1>2. PICK k \in Nat : Beats(b, c, k)
  BY LessAt
<1>3. /\ Len(a) \in Nat /\ Len(b) \in Nat /\ Len(c) \in Nat
      /\ \A j \in 1..Len(a) : a[j] \in Nat
      /\ \A j \in 1..Len(b) : b[j] \in Nat
      /\ \A j \in 1..Len(c) : c[j] \in Nat
  BY DEF CharSeq
<1>4. CASE i <= k
  <2>1. Beats(a, c, i)
    BY <1>1, <1>2, <1>3, <1>4 DEF Beats
  <2> QED BY <2>1, LessAt
<1>5. CASE k < i
  <2>1. Beats(a, c, k)
    BY <1>1, <1>2, <1>3, <1>5 DEF Beats
  <2> QED BY <2>1, LessAt
<1> QED BY <1>4, <1>5

LEMMA LessTotal ==
  ASSUME NEW a \in CharSeq, NEW b \in CharSeq, a # b
  PROVE  Less(a, b) \/ Less(b, a)
<1>1. /\ Len(a) \in Nat /\ Len(b) \in Nat
      /\ \A j \in 1..Len(a) : a[j] \in Nat
      /\ \A j \in 1..Len(b) : b[j] \in Nat
  BY DEF CharSeq
<1> DEFINE differ == {j \in Nat : j \in 1..Len(a) /\ j \in 1..Len(b) /\ a[j] # b[j]}
<1>2. CASE differ = {}
  <2>1. \A j \in Nat : j \in 1..Len(a) /\ j \in 1..Len(b) => a[j] = b[j]
    BY <1>2
  <2>2. Len(a) # Len(b)
    <3>1. SUFFICES ASSUME Len(a) = Len(b) PROVE FALSE
      OBVIOUS
    <3>2. \A j \in 1..Len(a) : a[j] = b[j]
      BY <1>1, <2>1, <3>1
    <3> QED BY <3>1, <3>2, SameChars
  <2>3. CASE Len(a) < Len(b)
    <3>1. \A j \in 1..Len(a) : j <= Len(b) /\ a[j] = b[j]
      BY <1>1, <2>3, <2>1
    <3>2. Len(a) + 1 \in 1..Len(b) /\ Len(a) + 1 \in Nat /\ (Len(a) + 1) - 1 = Len(a)
      BY <1>1, <2>3
    <3>3. Beats(a, b, Len(a) + 1)
      BY <1>1, <3>1, <3>2 DEF Beats
    <3> QED BY <3>2, <3>3, LessAt
  <2>4. CASE Len(b) < Len(a)
    <3>1. \A j \in 1..Len(b) : j <= Len(a) /\ b[j] = a[j]
      BY <1>1, <2>4, <2>1
    <3>2. Len(b) + 1 \in 1..Len(a) /\ Len(b) + 1 \in Nat /\ (Len(b) + 1) - 1 = Len(b)
      BY <1>1, <2>4
    <3>3. Beats(b, a, Len(b) + 1)
      BY <1>1, <3>1, <3>2 DEF Beats
    <3> QED BY <3>2, <3>3, LessAt
  <2>5. Len(a) < Len(b) \/ Len(b) < Len(a)
    BY <1>1, <2>2
  <2> QED BY <2>3, <2>4, <2>5
<1>3. CASE differ # {}
  <2>1. PICK k \in differ : \A j \in differ : k <= j
    BY <1>3, LeastNatural
  <2>2. \A j \in 1..k - 1 : j <= Len(a) /\ j <= Len(b) /\ a[j] = b[j]
    BY <1>1, <2>1
  <2>3. Beats(a, b, k) \/ Beats(b, a, k)
    BY <1>1, <2>1, <2>2 DEF Beats
  <2> QED BY <2>1, <2>3, LessAt
<1> QED BY <1>2, <1>3

\* How many of the paths come before p.
Rank(S, p) == Cardinality({q \in S : Less(q, p)})

LEMMA RankLess ==
  ASSUME NEW S, IsFiniteSet(S), S \subseteq CharSeq, NEW p \in S
  PROVE  /\ Rank(S, p) \in Nat /\ Rank(S, p) < Cardinality(S)
         /\ \A r \in S : Less(p, r) => Rank(S, p) < Rank(S, r)
<1> DEFINE under(r) == {q \in S : Less(q, r)}
<1>1. Cardinality(S) \in Nat
  BY FS_CardinalityType
<1>2. ASSUME NEW T \in SUBSET S PROVE IsFiniteSet(T) /\ Cardinality(T) \in Nat
  BY FS_Subset, FS_CardinalityType
<1>3. ASSUME NEW T \in SUBSET S, p \in T, under(p) \subseteq T
      PROVE  Cardinality(under(p)) < Cardinality(T)
  <2>1. p \notin under(p)
    BY LessIrreflexive
  <2>2. IsFiniteSet(T) /\ under(p) \in SUBSET T /\ under(p) # T
    BY <1>2, <1>3, <2>1
  <2>3. /\ Cardinality(under(p)) <= Cardinality(T)
        /\ Cardinality(under(p)) # Cardinality(T)
    BY <2>2, FS_Subset
  <2>4. Cardinality(under(p)) \in Nat /\ Cardinality(T) \in Nat
    BY <1>2
  <2> HIDE DEF under
  <2> QED BY <2>3, <2>4
<1>4. Cardinality(under(p)) < Cardinality(S)
  BY <1>3
<1>5. ASSUME NEW r \in S, Less(p, r) PROVE Cardinality(under(p)) < Cardinality(under(r))
  <2>1. under(p) \subseteq under(r)
    BY <1>5, LessTransitive
  <2> QED BY <1>3, <1>5, <2>1
<1>6. Cardinality(under(p)) \in Nat
  BY <1>2
<1> QED BY <1>4, <1>5, <1>6 DEF Rank

\* The map's order of some paths: all of them, each after those that are less.
LEMMA PathOrderSorts ==
  ASSUME NEW S, IsFiniteSet(S), S \subseteq CharSeq
  PROVE  PathOrder(S) \in Seq(CharSeq) /\ MapOrder(PathOrder(S)) /\ Range(PathOrder(S)) = S
<1> DEFINE n == Cardinality(S)
           rank == [p \in S |-> Rank(S, p) + 1]
           s == PathOrder(S)
<1>1. n \in Nat
  BY FS_CardinalityType
<1>2. rank \in [S -> 1..n]
  BY <1>1, RankLess
<1>3. ASSUME NEW p \in S, NEW q \in S, rank[p] = rank[q] PROVE p = q
  BY <1>3, RankLess, LessTotal
<1>4. IsFiniteSet(1..n) /\ Cardinality(1..n) = n
  BY <1>1, FS_Interval
<1>5. rank \in Surjection(S, 1..n)
  <2>1. rank \in Injection(S, 1..n)
    BY <1>2, <1>3 DEF Injection, IsInjective
  <2> HIDE DEF rank, n
  <2> QED BY <1>4, <2>1, FS_Injection DEF n
<1>6. ASSUME NEW i \in 1..n PROVE \E p \in S : Rank(S, p) = i - 1
  <2>1. PICK p \in S : rank[p] = i
    BY <1>5 DEF Surjection
  <2> QED BY <1>1, <2>1, RankLess
<1>7. ASSUME NEW i \in 1..n PROVE s[i] \in S /\ Rank(S, s[i]) = i - 1
  BY <1>6, <1>7 DEF PathOrder, Rank
<1> DEFINE pick(i) == CHOOSE p \in S : Cardinality({q \in S : Less(q, p)}) = i - 1
<1>8. s = [i \in 1..n |-> s[i]] /\ DOMAIN s = 1..n
  <2>1. s = [i \in 1..n |-> pick(i)]
    BY DEF PathOrder
  <2> HIDE DEF s, n, pick
  <2> QED BY <2>1
<1> HIDE DEF s, n, rank
<1>9. s \in Seq(S) /\ s \in Seq(CharSeq)
  BY <1>1, <1>7, <1>8
<1>10. ASSUME NEW i \in 1..n, NEW j \in 1..n, i < j PROVE Less(s[i], s[j])
  <2>1. Rank(S, s[i]) < Rank(S, s[j])
    BY <1>1, <1>7, <1>10
  <2>2. s[i] # s[j] /\ ~Less(s[j], s[i])
    BY <1>1, <1>7, <2>1, RankLess
  <2> QED BY <1>7, <2>2, LessTotal
<1>11. ASSUME NEW p \in S PROVE \E i \in 1..n : s[i] = p
  <2>1. rank[p] \in 1..n /\ Rank(S, p) = rank[p] - 1
    BY <1>1, <1>2, RankLess DEF rank
  <2>2. rank[s[rank[p]]] = rank[p]
    BY <1>1, <1>7, <2>1, RankLess DEF rank
  <2> QED BY <1>3, <1>7, <2>1, <2>2
<1> QED BY <1>7, <1>8, <1>9, <1>10, <1>11 DEF s, MapOrder, Range

-----------------------------------------------------------------------------
(* The file *)

\* The texts: the provers have to be told that those of the program are among them.
Strings == STRING \cup {NoText, "GET", "index.html", "www/errors/404.html"}

\* The maps of some keys to values.
Maps(K, V) == UNION {[D -> V] : D \in SUBSET K}

Pages == Maps(Codes, Strings)

\* Those whose characters are known.
Written == {w \in Strings : Chars(w) \in CharSeq}

\* A Location under construction, and one that is finished.
Places == [methods: SUBSET Strings, index: SUBSET Strings, redirection: Written, alias: Written,
           autoindex: BOOLEAN, maxBody: Sizes \cup {-1}]
Finals == {loc \in Places : loc.methods # {} /\ loc.index # {}}

\* A ServerConfig under construction.
Locations == {map \in Maps(Written, Finals) : IsFiniteSet(DOMAIN map)}
Servers ==
  [port: Ports, maxBody: Sizes, host: Strings, server_name: Strings, cgi: Strings, cgi_ext: Strings,
   pages: Pages, locations: Locations]

\* What assigning to a map makes of it.
LEMMA AssignedType ==
  ASSUME NEW K, NEW V, NEW map \in Maps(K, V), NEW keys \in SUBSET K, NEW v \in V
  PROVE  /\ Assigned(map, keys, v) \in Maps(K, V)
         /\ DOMAIN Assigned(map, keys, v) = DOMAIN map \cup keys
<1>1. PICK D \in SUBSET K : map \in [D -> V]
  BY DEF Maps
<1>2. Assigned(map, keys, v) \in [D \cup keys -> V]
  BY <1>1 DEF Assigned
<1> QED BY <1>1, <1>2 DEF Maps

LEMMA LocationsAssigned ==
  ASSUME NEW map \in Locations, NEW p \in Written, NEW loc \in Finals
  PROVE  Assigned(map, {p}, loc) \in Locations
<1>1. map \in Maps(Written, Finals) /\ {p} \in SUBSET Written
  BY DEF Locations
<1>2. Assigned(map, {p}, loc) \in Maps(Written, Finals)
  BY <1>1, AssignedType, Zenon
<1>3. IsFiniteSet(DOMAIN map)
  BY DEF Locations
<1>4. IsFiniteSet(DOMAIN map \cup {p}) /\ DOMAIN Assigned(map, {p}, loc) = DOMAIN map \cup {p}
  BY <1>3, FS_AddElement DEF Assigned
<1> QED BY <1>2, <1>4 DEF Locations

LEMMA MapsType ==
  ASSUME NEW K, NEW V, NEW map \in Maps(K, V)
  PROVE  DOMAIN map \subseteq K /\ \A k \in DOMAIN map : map[k] \in V
  BY DEF Maps

LEMMA ElementType == ASSUME NEW W, NEW s \in Seq(W), NEW i \in DOMAIN s PROVE s[i] \in W
  OBVIOUS

\* The words of a line.
LEMMA TextsType ==
  ASSUME NEW l \in Line
  PROVE  /\ Texts(l) \in Seq(Strings) /\ Len(Texts(l)) = Len(l.words) /\ Len(l.words) \in Nat
         /\ DOMAIN l.words = 1..Len(l.words)
         /\ \A i \in DOMAIN l.words : l.words[i].text \in Strings
<1>1. l.words \in Seq(Word)
  BY DEF Line
<1>2. ASSUME NEW i \in DOMAIN l.words PROVE l.words[i].text \in Strings
  <2>1. l.words[i] \in Word
    BY <1>1, ElementType
  <2> QED BY <2>1 DEF Word, Strings
<1>3. DOMAIN l.words = 1..Len(l.words) /\ Len(l.words) \in Nat
  BY <1>1
<1>4. Texts(l) = [i \in 1..Len(l.words) |-> l.words[i].text]
  BY <1>3 DEF Texts
<1>5. Texts(l) \in Seq(Strings) /\ Len(Texts(l)) = Len(l.words)
  BY <1>2, <1>3, <1>4
<1> QED BY <1>2, <1>3, <1>5

LEMMA TextType == ASSUME NEW l \in Line, Len(l.words) >= 1 PROVE Text(l) \in Strings
  BY TextsType DEF Text

\* Those up to the first that ends in a semicolon.
LEMMA UpToType == ASSUME NEW l \in Line PROVE UpToSemicolon(l) \in Seq(Strings)
<1> DEFINE ends == {i \in DOMAIN l.words : l.words[i].semi}
<1>1. CASE ends = {}
  BY <1>1 DEF UpToSemicolon
<1>2. CASE ends # {}
  <2>1. ends \subseteq 1..Len(l.words) /\ ends \subseteq Nat
    BY TextsType
  <2>2. PICK m \in ends : \A i \in ends : m <= i
    BY <1>2, <2>1, LeastNatural
  <2>3. Min(ends) \in ends
    BY <2>2 DEF Min
  <2>4. UpToSemicolon(l) = SubSeq(Texts(l), 1, Min(ends))
    BY <1>2 DEF UpToSemicolon
  <2> HIDE DEF ends
  <2>5. Len(Texts(l)) = Len(l.words) /\ Len(l.words) \in Nat /\ Texts(l) \in Seq(Strings)
    BY TextsType
  <2>6. Min(ends) \in 1..Len(l.words)
    BY <2>1, <2>3
  <2> QED BY <2>4, <2>5, <2>6
<1> QED BY <1>1, <1>2

LEMMA NumberType == ASSUME NEW w PROVE StringToNumber(w) \in Sizes
<1>1. MaxInt \in Nat /\ \A v \in DigitWords : Number(v) \in Nat
  BY NumberAssumption
<1> QED BY <1>1 DEF StringToNumber, Sizes

LEMMA EmptyMaps == Empty \in Pages /\ Empty \in Locations
<1>1. Empty \in [{} -> Strings] /\ Empty \in [{} -> Finals] /\ DOMAIN Empty = {}
  BY DEF Empty
<1>2. IsFiniteSet(DOMAIN Empty)
  BY <1>1, FS_EmptySet
<1> QED BY <1>1, <1>2 DEF Pages, Locations, Maps

LEMMA NewServerType == NewServer \in Servers
<1>1. DefaultMaxBody \in Sizes /\ 8080 \in Ports
  BY NumberAssumption DEF DefaultMaxBody, Sizes, Ports
<1>2. NoText \in Strings
  BY DEF Strings
<1> QED BY <1>1, <1>2, EmptyMaps DEF NewServer, Servers

LEMMA NewLocationType == NewLocation \in Places
<1>2. NoText \in Written
  BY CharsAssumption DEF Strings, Written
<1> QED BY <1>2 DEF NewLocation, Places

-----------------------------------------------------------------------------
(* What a directive makes of the object under construction. *)

LEMMA ServerTextType ==
  ASSUME NEW s \in Servers, NEW field \in {"host", "server_name", "cgi", "cgi_ext"}, NEW x \in Strings
  PROVE  [s EXCEPT ![field] = x] \in Servers
<1>1. CASE field = "host" \/ field = "server_name"
  BY <1>1 DEF Servers
<1>2. CASE field = "cgi" \/ field = "cgi_ext"
  BY <1>2 DEF Servers
<1> QED BY <1>1, <1>2

LEMMA PlaceTextType ==
  ASSUME NEW loc \in Places, NEW field \in {"redirection", "alias"}, NEW x \in Written
  PROVE  [loc EXCEPT ![field] = x] \in Places
  BY DEF Places

LEMMA PlaceWordsType ==
  ASSUME NEW loc \in Places, NEW field \in {"methods", "index"}, NEW x \in SUBSET Strings
  PROVE  [loc EXCEPT ![field] = x] \in Places
  BY DEF Places

LEMMA SetPortType == ASSUME NEW s \in Servers, NEW l \in Line, NEW t \in SetPort(s, l) PROVE t \in Servers
<1>1. IsPort(Text(l)) /\ t = [s EXCEPT !.port = Number(Text(l))]
  BY DEF SetPort
<1>2. Number(Text(l)) \in Ports
  BY <1>1 DEF IsPort
<1> QED BY <1>1, <1>2 DEF Servers

\* The pages are those of errors.
LEMMA SetErrorPageType ==
  ASSUME NEW s \in Servers, NEW l \in Line, NEW t \in SetErrorPage(s, l) PROVE t \in Servers
<1> DEFINE ws    == UpToSemicolon(l)
           codes == [i \in 1..Len(ws) - 1 |-> StringToNumber(ws[i])]
<1>1. /\ Len(ws) >= 2 /\ \A i \in DOMAIN codes : codes[i] \in Codes
      /\ t = [s EXCEPT !.pages = Assigned(@, Range(codes), Last(ws))]
  BY DEF SetErrorPage
<1>2. ws \in Seq(Strings)
  BY UpToType
<1> HIDE DEF ws
<1>3. Last(ws) \in Strings
  BY <1>1, <1>2 DEF Last
<1> HIDE DEF codes
<1>4. Range(codes) \in SUBSET Codes
  BY <1>1 DEF Range
<1>5. s.pages \in Pages
  BY DEF Servers
<1>6. Assigned(s.pages, Range(codes), Last(ws)) \in Pages
  BY <1>3, <1>4, <1>5, AssignedType DEF Pages
<1>7. t = [s EXCEPT !.pages = Assigned(s.pages, Range(codes), Last(ws))]
  BY <1>1
<1> QED BY <1>6, <1>7 DEF Servers

LEMMA ServerAfterType ==
  ASSUME NEW s \in Servers, NEW l \in Line, NEW t \in ServerAfter(s, l) PROVE t \in Servers
<1>1. Single(l) => Text(l) \in Strings
  BY TextType DEF Single
<1>2. CASE l.key \in {"host", "server_name", "cgi", "cgi_ext"}
  <2>1. t \in Set(s, l, l.key)
    BY <1>2 DEF ServerAfter, SetCgi
  <2>2. Single(l) /\ t = [s EXCEPT ![l.key] = Text(l)]
    BY <2>1 DEF Set
  <2> QED BY <1>1, <1>2, <2>2, ServerTextType
<1>3. CASE l.key = "listen"
  BY <1>3, SetPortType DEF ServerAfter
<1>4. CASE l.key = "error_page"
  BY <1>4, SetErrorPageType DEF ServerAfter
<1>5. CASE l.key = "client_max__bodysize"
  <2>1. t = [s EXCEPT !.maxBody = StringToNumber(Text(l))]
    BY <1>5 DEF ServerAfter, SetClientMaxBodySize
  <2>2. StringToNumber(Text(l)) \in Sizes
    BY NumberType
  <2> QED BY <2>1, <2>2 DEF Servers
<1> QED BY <1>2, <1>3, <1>4, <1>5 DEF ServerAfter

LEMMA LocationAfterType ==
  ASSUME NEW loc \in Places, NEW l \in Line, NEW t \in LocationAfter(loc, l),
         Len(l.words) >= 1 => Text(l) \in Written
  PROVE  t \in Places
<1>1. Single(l) => Text(l) \in Written
  BY DEF Single
<1>2. CASE l.key \in {"methods", "index"}
  <2>1. t = [loc EXCEPT ![l.key] = Range(UpToSemicolon(l))]
    BY <1>2 DEF LocationAfter, SetWords
  <2>2. Range(UpToSemicolon(l)) \in SUBSET Strings
    BY UpToType DEF Range
  <2> QED BY <1>2, <2>1, <2>2, PlaceWordsType
<1>3. CASE l.key \in {"redirection", "alias"}
  <2>1. Single(l) /\ t = [loc EXCEPT ![l.key] = Text(l)]
    BY <1>3 DEF LocationAfter, SetAlias, Set
  <2> QED BY <1>1, <1>3, <2>1, PlaceTextType
<1>4. CASE l.key = "autoindex"
  <2> DEFINE on == Text(l) = "on"
  <2>1. t = [loc EXCEPT !.autoindex = on] /\ on \in BOOLEAN
    BY <1>4 DEF LocationAfter, SetAutoindex
  <2> HIDE DEF on
  <2> QED BY <2>1 DEF Places
<1>5. CASE l.key = "client_max__bodysize"
  <2>1. t = [loc EXCEPT !.maxBody = StringToNumber(Text(l))]
    BY <1>5 DEF LocationAfter, SetClientMaxBodySize
  <2>2. StringToNumber(Text(l)) \in Sizes
    BY NumberType
  <2> QED BY <2>1, <2>2 DEF Places
<1> QED BY <1>2, <1>3, <1>4, <1>5 DEF LocationAfter

LEMMA WithDefaultsType == ASSUME NEW loc \in Places PROVE WithDefaults(loc) \in Finals
<1> DEFINE ms == IF loc.methods = {} THEN {"GET"} ELSE loc.methods
           is == IF loc.index = {} THEN {"index.html"} ELSE loc.index
<1>1. WithDefaults(loc) = [loc EXCEPT !.methods = ms, !.index = is]
  BY DEF WithDefaults
<1>2. ms \in SUBSET Strings /\ is \in SUBSET Strings /\ ms # {} /\ is # {}
  BY DEF Places, Strings
<1> HIDE DEF ms, is
<1> QED BY <1>1, <1>2 DEF Finals, Places

\* A server that is finished is as its constructor promises.
LEMMA FinishedOK ==
  ASSUME NEW s \in Servers, Complete(s) PROVE Finished(s) \in Servers /\ ServerOK(Finished(s))
<1>1. PICK t \in Servers : /\ t = Finished(s) /\ t.pages # Empty /\ t.host = s.host
                           /\ t.cgi = s.cgi /\ t.cgi_ext = s.cgi_ext /\ t.locations = s.locations
  <2>1. CASE s.pages # Empty
    BY <2>1 DEF Finished
  <2>2. CASE s.pages = Empty
    <3> DEFINE page  == "www/errors/404.html"
               codes == {404}
               pages == Assigned(s.pages, codes, page)
    <3>1. pages \in Pages /\ DOMAIN pages = DOMAIN s.pages \cup codes
      <4>1. page \in Strings
        BY DEF Strings
      <4>2. codes \in SUBSET Codes
        BY DEF Codes
      <4> HIDE DEF page, codes
      <4>3. s.pages \in Maps(Codes, Strings)
        BY DEF Servers, Pages
      <4>4. PICK map \in Maps(Codes, Strings) : map = s.pages
        BY <4>3
      <4>5. /\ Assigned(map, codes, page) \in Maps(Codes, Strings)
            /\ DOMAIN Assigned(map, codes, page) = DOMAIN map \cup codes
        BY <4>1, <4>2, AssignedType
      <4> QED BY <4>4, <4>5 DEF Pages
    <3>2. pages # Empty
      BY <3>1 DEF Empty
    <3>3. Finished(s) = [s EXCEPT !.pages = pages]
      BY <2>2 DEF Finished
    <3> HIDE DEF pages
    <3> QED BY <3>1, <3>2, <3>3 DEF Servers
  <2> QED BY <2>1, <2>2
<1>2. /\ t.host # NoText /\ (t.cgi = NoText <=> t.cgi_ext = NoText) /\ t.locations # Empty
  BY <1>1 DEF Complete
<1>3. t.port \in Ports /\ t.maxBody \in Sizes /\ t.pages \in Pages /\ t.locations \in Locations
  BY DEF Servers
<1>4. DOMAIN t.pages \subseteq Codes
  BY <1>3, MapsType DEF Pages
<1>5. \A p \in DOMAIN t.locations : t.locations[p] \in Finals
  BY <1>3, MapsType DEF Locations
<1>6. \A p \in DOMAIN t.locations : LocationOK(t.locations[p])
  <2>1. ASSUME NEW loc \in Finals PROVE LocationOK(loc)
    BY DEF Finals, Places, LocationOK
  <2> QED BY <1>5, <2>1
<1>7. ServerOK(t)
  BY <1>1, <1>2, <1>3, <1>4, <1>6 DEF ServerOK
<1> QED BY <1>1, <1>7
-----------------------------------------------------------------------------
(* The invariant *)

Modes == {"file", "server", "location", "loaded", "failed"}

\* What a constructor has in hand.
LoadTypes == /\ file \in Files /\ pos \in Nat \ {0} /\ mode \in Modes
             /\ server \in Servers /\ path \in Written /\ place \in Places

\* What Config holds, also before the file is read to its end.
Usable == {s \in Servers : ServerOK(s)}
Kept == /\ servers \in Seq(Usable)
        /\ \A i, j \in DOMAIN servers : SameAddress(servers[i], servers[j]) => i = j
        /\ mode = "loaded" => servers # <<>>

LoadInv == LoadTypes /\ Kept

LEMMA LineType == ASSUME file \in Files, pos \in Nat \ {0}, More PROVE Here \in Line
<1>1. file.lines \in Seq(Line)
  BY FilesAssumption DEF File
<1>2. pos \in DOMAIN file.lines
  BY <1>1 DEF More
<1> QED BY <1>1, <1>2, ElementType DEF Here

\* The words of the files have characters.
LEMMA TextWritten ==
  ASSUME file \in Files, pos \in Nat \ {0}, More, Len(Here.words) >= 1
  PROVE  Text(Here) \in Written
<1>1. Here \in Line /\ Text(Here) \in Strings
  BY LineType, TextType
<1>2. pos \in DOMAIN file.lines /\ 1 \in DOMAIN Here.words
  BY <1>1, FilesAssumption, TextsType DEF More, File
<1>3. Chars(Here.words[1].text) \in CharSeq
  BY <1>2, CharsAssumption DEF Here
<1> QED BY <1>1, <1>3 DEF Text, Written

LEMMA FinishedType == ASSUME NEW s \in Servers, Complete(s) PROVE Finished(s) \in Usable
  BY FinishedOK DEF Usable

\* The first server of an address is kept.
LEMMA AddedOK ==
  ASSUME NEW s \in Usable, Kept
  PROVE  /\ Added(s) \in Seq(Usable)
         /\ \A i, j \in DOMAIN Added(s) : SameAddress(Added(s)[i], Added(s)[j]) => i = j
<1>1. CASE \E i \in DOMAIN servers : SameAddress(servers[i], s)
  BY <1>1 DEF Added, Kept
<1>2. CASE ~\E i \in DOMAIN servers : SameAddress(servers[i], s)
  <2> DEFINE n == Len(servers)
             more == Append(servers, s)
  <2>1. Added(s) = more
    BY <1>2 DEF Added
  <2>2. servers \in Seq(Usable) /\ n \in Nat /\ DOMAIN servers = 1..n
    BY DEF Kept
  <2>3. more \in Seq(Usable) /\ DOMAIN more = 1..n + 1 /\ more[n + 1] = s
    BY <2>2
  <2>4. \A i \in 1..n : more[i] = servers[i]
    BY <2>2
  <2>5. \A i \in 1..n : ~SameAddress(servers[i], s) /\ ~SameAddress(s, servers[i])
    BY <1>2, <2>2 DEF SameAddress
  <2>6. \A i \in 1..n + 1 : i \in 1..n \/ i = n + 1
    BY <2>2
  <2> HIDE DEF n, more
  <2>7. ASSUME NEW i \in DOMAIN more, NEW j \in DOMAIN more, SameAddress(more[i], more[j]) PROVE i = j
    <3>1. CASE i \in 1..n /\ j \in 1..n
      <4>1. SameAddress(servers[i], servers[j])
        BY <2>4, <2>7, <3>1
      <4> QED BY <2>2, <3>1, <4>1 DEF Kept
    <3>2. CASE i \in 1..n /\ j = n + 1
      BY <2>3, <2>4, <2>5, <2>7, <3>2
    <3>3. CASE i = n + 1 /\ j \in 1..n
      BY <2>3, <2>4, <2>5, <2>7, <3>3
    <3>4. CASE i = n + 1 /\ j = n + 1
      BY <3>4
    <3> QED BY <2>3, <2>6, <3>1, <3>2, <3>3, <3>4
  <2> QED BY <2>1, <2>3, <2>7
<1> QED BY <1>1, <1>2

LEMMA LoadInitInv == LoadInit => LoadInv
<1> SUFFICES ASSUME LoadInit PROVE LoadInv
  OBVIOUS
<1>1. LoadTypes
  BY NewServerType, NewLocationType, CharsAssumption
  DEF LoadInit, LoadTypes, Modes, Strings, Written
<1>2. Kept
  BY DEF LoadInit, Kept
<1> QED BY <1>1, <1>2 DEF LoadInv

\* The steps that give up, or move on from one key word to the next.
LEMMA StepType ==
  ASSUME LoadInv, NEW m \in Modes, Step(m)
  PROVE  file' \in Files /\ pos' \in Nat \ {0} /\ mode' \in Modes
  BY DEF LoadInv, LoadTypes, Step

LEMMA KeptOn ==
  ASSUME LoadInv, UNCHANGED servers, mode' = "loaded" => servers # <<>>
  PROVE  Kept'
  BY DEF LoadInv, Kept, SameAddress

LEMMA FailStep == ASSUME LoadInv, Fail PROVE LoadInv'
<1>1. Step("failed") /\ "failed" \in Modes /\ mode' # "loaded"
  BY DEF Fail, Step, Modes
<1>2. LoadTypes'
  BY <1>1, StepType DEF Fail, LoadInv, LoadTypes
<1> QED BY <1>1, <1>2, KeptOn DEF Fail, LoadInv

LEMMA ReadFileStep == ASSUME LoadInv, ReadFile PROVE LoadInv'
<1>1. CASE LoadDone
  <2> DEFINE m == IF servers = <<>> THEN "failed" ELSE "loaded"
  <2>1. Step(m) /\ UNCHANGED <<server, path, place, servers>>
    BY <1>1 DEF ReadFile
  <2>2. m \in Modes /\ (m = "loaded" => servers # <<>>)
    BY DEF Modes
  <2> HIDE DEF m
  <2>3. LoadTypes'
    BY <2>1, <2>2, StepType DEF LoadInv, LoadTypes
  <2>4. Kept'
    BY <2>1, <2>2, KeptOn DEF Step
  <2> QED BY <2>3, <2>4 DEF LoadInv
<1>2. CASE ~LoadDone /\ Here.key = "server" /\ Texts(Here) = <<"{">>
  <2>1. Step("server") /\ server' = NewServer /\ UNCHANGED <<path, place, servers>>
    BY <1>2 DEF ReadFile
  <2>2. "server" \in Modes /\ mode' # "loaded"
    BY <2>1 DEF Modes, Step
  <2>3. LoadTypes'
    BY <2>1, <2>2, StepType, NewServerType DEF LoadInv, LoadTypes
  <2> QED BY <2>1, <2>2, <2>3, KeptOn DEF LoadInv
<1>3. CASE ~LoadDone /\ ~(Here.key = "server" /\ Texts(Here) = <<"{">>)
  BY <1>3, FailStep DEF ReadFile
<1> QED BY <1>1, <1>2, <1>3

LEMMA ReadServerStep == ASSUME LoadInv, ReadServer PROVE LoadInv'
<1> DEFINE closes == More /\ Here.key = "}" /\ Here.words = <<>> /\ Complete(server)
           goesOn == More /\ ServerAfter(server, Here) # {}
<1>1. More => Here \in Line
  BY LineType DEF LoadInv, LoadTypes
<1>2. server \in Servers
  BY DEF LoadInv, LoadTypes
<1>3. CASE closes
  <2>1. Step("file") /\ servers' = Added(Finished(server)) /\ UNCHANGED <<server, path, place>>
    BY <1>3 DEF ReadServer
  <2>2. "file" \in Modes /\ mode' # "loaded"
    BY <2>1 DEF Modes, Step
  <2>3. LoadTypes'
    BY <2>1, <2>2, StepType DEF LoadInv, LoadTypes
  <2>4. Finished(server) \in Usable
    BY <1>2, <1>3, FinishedType
  <2>5. /\ servers' \in Seq(Usable)
        /\ \A i, j \in DOMAIN servers' : SameAddress(servers'[i], servers'[j]) => i = j
    BY <2>1, <2>4, AddedOK DEF LoadInv
  <2>6. Kept'
    BY <2>2, <2>5 DEF Kept, Usable, SameAddress
  <2> QED BY <2>3, <2>6 DEF LoadInv
<1>4. CASE ~closes /\ OpensLocation
  <2>1. /\ Step("location") /\ path' = Text(Here) /\ place' = NewLocation
        /\ UNCHANGED <<server, servers>>
    BY <1>4 DEF ReadServer, FreshLocation
  <2>2. "location" \in Modes /\ mode' # "loaded"
    BY <2>1 DEF Modes, Step
  <2>3. Text(Here) \in Written
    <3>1. OpensLocation
      BY <1>4
    <3>2. More /\ Len(Here.words) = 2
      BY <3>1, Zenon DEF OpensLocation
    <3> QED BY <3>2, TextWritten DEF LoadInv, LoadTypes
  <2>4. LoadTypes'
    BY <2>1, <2>2, <2>3, StepType, NewLocationType DEF LoadInv, LoadTypes
  <2> QED BY <2>1, <2>2, <2>4, KeptOn DEF LoadInv
<1>5. CASE ~closes /\ ~OpensLocation /\ goesOn
  <2>1. Step("server") /\ server' \in ServerAfter(server, Here) /\ UNCHANGED <<path, place, servers>>
    BY <1>5 DEF ReadServer
  <2>2. "server" \in Modes /\ mode' # "loaded"
    BY <2>1 DEF Modes, Step
  <2>3. server' \in Servers
    BY <1>1, <1>2, <1>5, <2>1, ServerAfterType
  <2>4. LoadTypes'
    BY <2>1, <2>2, <2>3, StepType DEF LoadInv, LoadTypes
  <2> QED BY <2>1, <2>2, <2>4, KeptOn DEF LoadInv
<1>6. CASE ~closes /\ ~OpensLocation /\ ~goesOn
  BY <1>6, FailStep DEF ReadServer
<1> QED BY <1>3, <1>4, <1>5, <1>6

LEMMA ReadLocationStep == ASSUME LoadInv, ReadLocation PROVE LoadInv'
<1> DEFINE closes == More /\ Here.key = "}" /\ Here.words = <<>>
           goesOn == More /\ LocationAfter(place, Here) # {}
<1>1. More => Here \in Line
  BY LineType DEF LoadInv, LoadTypes
<1>2. server \in Servers /\ place \in Places /\ path \in Written
  BY DEF LoadInv, LoadTypes
<1>3. CASE closes
  <2> DEFINE locs == Assigned(server.locations, {path}, WithDefaults(place))
  <2>1. Step("server") /\ server' = [server EXCEPT !.locations = locs] /\ UNCHANGED <<path, place, servers>>
    BY <1>3 DEF ReadLocation
  <2>2. "server" \in Modes /\ mode' # "loaded"
    BY <2>1 DEF Modes, Step
  <2>3. locs \in Locations
    <3>1. server.locations \in Locations /\ WithDefaults(place) \in Finals
      BY <1>2, WithDefaultsType DEF Servers
    <3> QED BY <1>2, <3>1, LocationsAssigned
  <2> HIDE DEF locs
  <2>4. server' \in Servers
    BY <1>2, <2>1, <2>3 DEF Servers
  <2>5. LoadTypes'
    BY <2>1, <2>2, <2>4, StepType DEF LoadInv, LoadTypes
  <2> QED BY <2>1, <2>2, <2>5, KeptOn DEF LoadInv
<1>4. CASE ~closes /\ goesOn
  <2>1. Step("location") /\ place' \in LocationAfter(place, Here) /\ UNCHANGED <<server, path, servers>>
    BY <1>4 DEF ReadLocation
  <2>2. "location" \in Modes /\ mode' # "loaded"
    BY <2>1 DEF Modes, Step
  <2>3. place' \in Places
    <3>1. Len(Here.words) >= 1 => Text(Here) \in Written
      BY <1>4, TextWritten DEF LoadInv, LoadTypes
    <3> QED BY <1>1, <1>2, <1>4, <2>1, <3>1, LocationAfterType
  <2>4. LoadTypes'
    BY <2>1, <2>2, <2>3, StepType DEF LoadInv, LoadTypes
  <2> QED BY <2>1, <2>2, <2>4, KeptOn DEF LoadInv
<1>5. CASE ~closes /\ ~goesOn
  BY <1>5, FailStep DEF ReadLocation
<1> QED BY <1>3, <1>4, <1>5

LEMMA LoadStep == ASSUME LoadInv, [LoadNext]_config PROVE LoadInv'
<1>1. CASE UNCHANGED config
  BY <1>1 DEF config, LoadInv, LoadTypes, Kept, SameAddress
<1> QED BY <1>1, ReadFileStep, ReadServerStep, ReadLocationStep DEF LoadNext

LEMMA LoadInvUsable == ASSUME LoadInv PROVE ServersUsable
<1> SUFFICES ASSUME mode = "loaded" PROVE ServersUsable
  BY DEF ServersUsable
<1>1. ASSUME NEW i \in DOMAIN servers PROVE ServerOK(servers[i])
  <2>1. servers[i] \in Usable
    BY ElementType DEF LoadInv, Kept
  <2> QED BY <2>1 DEF Usable
<1> QED BY <1>1 DEF LoadInv, Kept, ServersUsable

\* Whatever the files, the words and the numbers: what the constructors hand to the
\* servers is usable, and no two servers have the same address.
THEOREM LoadedServersUsable == LoadSpec => []ServersUsable
<1> QED BY LoadInitInv, LoadStep, LoadInvUsable, PTL DEF LoadSpec

\* And it stays so while requests are looked up in it.
THEOREM SitesUsable == Spec => []ServersUsable
<1>1. Init => LoadInv
  BY LoadInitInv DEF Init
<1>2. LoadInv /\ [Next]_vars => LoadInv'
  <2> SUFFICES ASSUME LoadInv, [Next]_vars PROVE LoadInv'
    OBVIOUS
  <2>1. [LoadNext]_config
    BY DEF Next, Load, Request, LookUp, vars
  <2> QED BY <2>1, LoadStep
<1> QED BY <1>1, <1>2, LoadInvUsable, PTL DEF Spec
-----------------------------------------------------------------------------
(* The file as a whole *)

\* Every block within b that is opened before line m is closed before line m.
Closed(ls, b, m) ==
  \A c \in Keyed(ls, Opening) \ {b} : b < c /\ c < m => End(ls, c) \in Nat /\ End(ls, c) < m

\* No brace before line m closes b.
Unended(ls, b, m) ==
  \A e \in Keyed(ls, Closing) : b < e /\ e < m => Within(ls, b, e, Opening) # Within(ls, b, e, Closing)

\* How many blocks are open before line m, from b on.
Depth(ls, b, m, d) == Within(ls, b, m - 1, Opening) = Within(ls, b, m - 1, Closing) + d

LEMMA KeyedType ==
  ASSUME NEW ls \in Seq(Line), NEW keys
  PROVE  /\ Keyed(ls, keys) \subseteq 1..Len(ls) /\ Len(ls) \in Nat
         /\ \A i \in Keyed(ls, keys) : i \in Nat /\ ls[i] \in Line /\ ls[i].key \in keys
         /\ \A T \in SUBSET Keyed(ls, keys) : IsFiniteSet(T) /\ Cardinality(T) \in Nat
<1>1. Len(ls) \in Nat /\ DOMAIN ls = 1..Len(ls) /\ \A i \in 1..Len(ls) : ls[i] \in Line
  OBVIOUS
<1>2. Keyed(ls, keys) \subseteq 1..Len(ls) /\ \A i \in Keyed(ls, keys) : ls[i].key \in keys
  BY <1>1 DEF Keyed
<1>3. ASSUME NEW T \in SUBSET Keyed(ls, keys) PROVE IsFiniteSet(T) /\ Cardinality(T) \in Nat
  <2>1. IsFiniteSet(1..Len(ls))
    BY <1>1, FS_Interval
  <2>2. T \in SUBSET (1..Len(ls))
    BY <1>2
  <2>3. IsFiniteSet(T)
    BY <2>1, <2>2, FS_Subset
  <2> QED BY <2>3, FS_CardinalityType
<1>4. Keyed(ls, keys) \subseteq 1..Len(ls) /\ \A i \in 1..Len(ls) : i \in Nat
  BY <1>1, <1>2
<1> QED BY <1>1, <1>2, <1>3, <1>4

\* One more line counts for one more, if it has the key.
LEMMA WithinStep ==
  ASSUME NEW ls \in Seq(Line), NEW a \in Nat, NEW n \in Nat, a <= n, NEW keys
  PROVE  /\ Within(ls, a, n, keys) \in Nat /\ Within(ls, a, n - 1, keys) \in Nat
         /\ n \in Keyed(ls, keys) => Within(ls, a, n, keys) = Within(ls, a, n - 1, keys) + 1
         /\ n \notin Keyed(ls, keys) => Within(ls, a, n, keys) = Within(ls, a, n - 1, keys)
<1> DEFINE K == Keyed(ls, keys)
           T == {i \in K : a <= i /\ i <= n}
           S == {i \in K : a <= i /\ i <= n - 1}
<1>1. \A i \in K : i \in Nat
  BY KeyedType
<1>2. IsFiniteSet(S) /\ IsFiniteSet(T) /\ Cardinality(S) \in Nat /\ Cardinality(T) \in Nat
  BY KeyedType
<1>3. Within(ls, a, n, keys) = Cardinality(T) /\ Within(ls, a, n - 1, keys) = Cardinality(S)
  BY DEF Within
<1> HIDE DEF K
<1>4. CASE n \in K
  <2>0. \A i \in Nat : (i <= n <=> i <= n - 1 \/ i = n) /\ ~(n <= n - 1)
    OBVIOUS
  <2>1. T = S \cup {n} /\ n \notin S
    BY <1>1, <1>4, <2>0, a <= n, Zenon
  <2> HIDE DEF S, T
  <2>2. Cardinality(T) = Cardinality(S) + 1
    BY <1>2, <2>1, FS_AddElement
  <2> QED BY <1>2, <1>3, <1>4, <2>2 DEF K
<1>5. CASE n \notin K
  <2>0. \A i \in Nat : i # n => (i <= n <=> i <= n - 1)
    OBVIOUS
  <2>1. T = S
    BY <1>1, <1>5, <2>0, Zenon
  <2> QED BY <1>2, <1>3, <1>5, <2>1 DEF K
<1> QED BY <1>4, <1>5

\* The brace that closes a block.
LEMMA EndIs ==
  ASSUME NEW ls \in Seq(Line), NEW b \in Nat, NEW e \in Keyed(ls, Closing), b < e,
         Within(ls, b, e, Opening) = Within(ls, b, e, Closing), Unended(ls, b, e)
  PROVE  End(ls, b) = e
<1> DEFINE S == {x \in Keyed(ls, Closing) : x > b /\ Within(ls, b, x, Opening) = Within(ls, b, x, Closing)}
<1>1. e \in S /\ e \in Nat
  BY KeyedType
<1>2. ASSUME NEW x \in S PROVE e <= x /\ x \in Nat
  <2>1. x \in Keyed(ls, Closing) /\ x \in Nat /\ b < x /\ ~(Within(ls, b, x, Opening) # Within(ls, b, x, Closing))
    BY KeyedType
  <2>2. ~(x < e)
    BY <2>1 DEF Unended
  <2> QED BY <1>1, <2>1, <2>2
<1>3. End(ls, b) = CHOOSE x \in S : \A y \in S : x <= y
  BY DEF End, Min
<1> HIDE DEF S
<1>4. \A x \in S : (\A y \in S : x <= y) => x = e
  BY <1>1, <1>2
<1> QED BY <1>1, <1>2, <1>3, <1>4

\* The own lines of a block.
LEMMA OwnType ==
  ASSUME NEW ls \in Seq(Line), NEW b, NEW m, NEW key
  PROVE  \A i \in Own(ls, b, m, key) : i \in 1..Len(ls) /\ i \in Nat /\ b < i /\ i < m /\ ls[i] \in Line /\ ls[i].key = key
<1>1. \A i \in Own(ls, b, m, key) : i \in Keyed(ls, {key}) /\ b < i /\ i < m
  BY DEF Own
<1> QED BY <1>1, KeyedType

LEMMA OwnStep ==
  ASSUME NEW ls \in Seq(Line), NEW b \in Nat, NEW m \in 1..Len(ls), b < m, Closed(ls, b, m), NEW key
  PROVE  Own(ls, b, m + 1, key) = IF ls[m].key = key THEN Own(ls, b, m, key) \cup {m} ELSE Own(ls, b, m, key)
<1>1. Keyed(ls, {key}) \subseteq Nat /\ m \in Nat /\ m \in DOMAIN ls
  BY KeyedType
<1>2. \A i \in Keyed(ls, {key}) : i < m + 1 <=> i < m \/ i = m
  BY <1>1
<1>3. \A c \in Keyed(ls, Opening) \ {b} : b < c /\ c < m => End(ls, c) < m
  BY DEF Closed
<1>4. m \in Keyed(ls, {key}) <=> ls[m].key = key
  BY <1>1 DEF Keyed
<1> DEFINE Q(i) == \A c \in Keyed(ls, Opening) \ {b} : b < c /\ c < i => End(ls, c) < i
<1>5. /\ Own(ls, b, m + 1, key) = {i \in Keyed(ls, {key}) : b < i /\ i < m + 1 /\ Q(i)}
      /\ Own(ls, b, m, key) = {i \in Keyed(ls, {key}) : b < i /\ i < m /\ Q(i)}
  BY DEF Own
<1>6. Q(m)
  BY <1>3
<1>7. ~(m < m)
  BY <1>1
<1> HIDE DEF Q
<1> QED BY <1>1, <1>2, <1>4, <1>5, <1>6, <1>7

LEMMA ClosedStep ==
  ASSUME NEW ls \in Seq(Line), NEW b \in Nat, NEW m \in 1..Len(ls), b < m, Closed(ls, b, m),
         ls[m].key \notin Opening
  PROVE  Closed(ls, b, m + 1)
<1>1. \A c \in Keyed(ls, Opening) : c \in Nat /\ c # m
  BY KeyedType
<1>2. m \in Nat /\ (\A c \in Nat : c < m + 1 /\ c # m => c < m) /\ \A e \in Nat : e < m => e < m + 1
  OBVIOUS
<1> QED BY <1>1, <1>2 DEF Closed

\* The braces of a block one line further.
LEMMA DepthStep ==
  ASSUME NEW ls \in Seq(Line), NEW b \in Nat, NEW m \in 1..Len(ls), b < m, NEW d \in Nat,
         Depth(ls, b, m, d), Unended(ls, b, m)
  PROVE  /\ ls[m].key \notin Opening \cup Closing => Depth(ls, b, m + 1, d) /\ Unended(ls, b, m + 1)
         /\ ls[m].key \in Opening => Depth(ls, b, m + 1, d + 1) /\ Unended(ls, b, m + 1)
         /\ ls[m].key \in Closing => /\ Within(ls, b, m, Opening) + 1 = Within(ls, b, m, Closing) + d
                                     /\ d = 2 => Depth(ls, b, m + 1, 1) /\ Unended(ls, b, m + 1)
                                     /\ d = 1 => End(ls, b) = m
<1> DEFINE o == Within(ls, b, m, Opening)
           c == Within(ls, b, m, Closing)
           o1 == Within(ls, b, m - 1, Opening)
           c1 == Within(ls, b, m - 1, Closing)
<1>1. m \in Nat /\ b <= m /\ m \in DOMAIN ls /\ m + 1 - 1 = m
  OBVIOUS
<1>2. /\ m \in Keyed(ls, Opening) <=> ls[m].key \in Opening
      /\ m \in Keyed(ls, Closing) <=> ls[m].key \in Closing
      /\ ~(ls[m].key \in Opening /\ ls[m].key \in Closing)
  BY <1>1 DEF Keyed, Opening, Closing
<1>3. /\ o \in Nat /\ o1 \in Nat
      /\ o = IF ls[m].key \in Opening THEN o1 + 1 ELSE o1
  <2>1. /\ o \in Nat /\ o1 \in Nat
        /\ m \in Keyed(ls, Opening) => o = o1 + 1
        /\ m \notin Keyed(ls, Opening) => o = o1
    BY <1>1, WithinStep
  <2> QED BY <1>2, <2>1
<1>4. /\ c \in Nat /\ c1 \in Nat
      /\ c = IF ls[m].key \in Closing THEN c1 + 1 ELSE c1
  <2>1. /\ c \in Nat /\ c1 \in Nat
        /\ m \in Keyed(ls, Closing) => c = c1 + 1
        /\ m \notin Keyed(ls, Closing) => c = c1
    BY <1>1, WithinStep
  <2> QED BY <1>2, <2>1
<1>5. o1 = c1 + d
  BY DEF Depth
<1>6. \A e \in Nat : Depth(ls, b, m + 1, e) <=> o = c + e
  BY <1>1 DEF Depth
<1>7. Unended(ls, b, m + 1) <=> (ls[m].key \in Closing => o # c)
  <2>1. \A e \in Keyed(ls, Closing) : e \in Nat /\ (e < m + 1 <=> e < m \/ e = m)
    BY <1>1, KeyedType
  <2> QED BY <1>1, <1>2, <2>1 DEF Unended
<1>8. ASSUME ls[m].key \in Closing, d = 1 PROVE End(ls, b) = m
  <2>1. o = c /\ m \in Keyed(ls, Closing)
    BY <1>2, <1>3, <1>4, <1>5, <1>8
  <2> QED BY <2>1, EndIs
<1> HIDE DEF o, c, o1, c1
<1> QED BY <1>2, <1>3, <1>4, <1>5, <1>6, <1>7, <1>8 DEF o, c

-----------------------------------------------------------------------------
(* What the lines say *)

\* The last of the lines.
LEMMA LastOf ==
  ASSUME NEW own, NEW m \in Nat, \A i \in own : i \in Nat /\ i < m
  PROVE  Max(own \cup {m}) = m /\ own \cup {m} # {}
<1> DEFINE S == own \cup {m}
<1>1. m \in S /\ (\A y \in S : m >= y) /\ \A x \in S : x >= m => x = m
  OBVIOUS
<1>2. Max(S) = CHOOSE x \in S : \A y \in S : x >= y
  BY DEF Max
<1> HIDE DEF S
<1> QED BY <1>1, <1>2 DEF S

LEMMA SaysStep ==
  ASSUME NEW ls, NEW own, NEW m \in Nat, \A i \in own : i \in Nat /\ i < m
  PROVE  /\ \A x : Says(ls, own \cup {m}, x) = Text(ls[m])
         /\ \A x : SaysNumber(ls, own \cup {m}, x) = StringToNumber(Text(ls[m]))
<1>1. Max(own \cup {m}) = m /\ own \cup {m} # {}
  BY LastOf
<1> QED BY <1>1 DEF Says, SaysNumber

\* The words of some lines.
Words(ls, own) == UNION {Range(UpToSemicolon(ls[i])) : i \in own}

\* A location in the making is what its block's lines so far say, defaults aside.
PlaceAt(ls, b, m) ==
  [methods |-> Words(ls, Own(ls, b, m, "methods")),
   index |-> Words(ls, Own(ls, b, m, "index")),
   redirection |-> Says(ls, Own(ls, b, m, "redirection"), NoText),
   alias |-> Says(ls, Own(ls, b, m, "alias"), NoText),
   autoindex |-> Says(ls, Own(ls, b, m, "autoindex"), "off") = "on",
   maxBody |-> SaysNumber(ls, Own(ls, b, m, "client_max__bodysize"), -1)]

PlaceFits(loc, ls, b, m) ==
  /\ loc = PlaceAt(ls, b, m)
  /\ \A i \in Own(ls, b, m, "methods") \cup Own(ls, b, m, "index") : UpToSemicolon(ls[i]) # <<>>

LEMMA WordsNone ==
  ASSUME NEW ls \in Seq(Line), NEW own, \A i \in own : ls[i] \in Line /\ UpToSemicolon(ls[i]) # <<>>
  PROVE  Words(ls, own) = {} => own = {}
<1>1. ASSUME NEW i \in own PROVE Range(UpToSemicolon(ls[i])) # {}
  <2>1. UpToSemicolon(ls[i]) \in Seq(Strings) /\ UpToSemicolon(ls[i]) # <<>>
    BY <1>1, UpToType
  <2>2. 1 \in DOMAIN UpToSemicolon(ls[i])
    BY <2>1
  <2> QED BY <2>2 DEF Range
<1> QED BY <1>1 DEF Words

\* A location of given fields, .
PlaceOf(ms, is, r, a, on, size) ==
  [methods |-> ms, index |-> is, redirection |-> r, alias |-> a, autoindex |-> on, maxBody |-> size]

LEMMA PlaceWords ==
  ASSUME NEW ms, NEW is, NEW r, NEW a, NEW on, NEW size
  PROVE  PlaceOf(ms, is, r, a, on, size).methods = ms /\ PlaceOf(ms, is, r, a, on, size).index = is
  BY DEF PlaceOf

LEMMA PlaceDirective ==
  ASSUME NEW ls \in Seq(Line), NEW b \in Nat, NEW m \in 1..Len(ls), b < m, Closed(ls, b, m),
         NEW loc, PlaceFits(loc, ls, b, m), NEW t \in LocationAfter(loc, ls[m])
  PROVE  PlaceFits(t, ls, b, m + 1)
<1> DEFINE l == ls[m]
           own(key) == Own(ls, b, m, key)
           now(key) == Own(ls, b, m + 1, key)
           ws == UpToSemicolon(l)
<1>0. l \in Line /\ m \in Nat
  BY ElementType
<1>1. \A key : now(key) = IF l.key = key THEN own(key) \cup {m} ELSE own(key)
  BY OwnStep
<1>2. \A key : \A i \in own(key) : i \in Nat /\ i < m /\ ls[i] \in Line
  BY OwnType
<1>3. \A key : /\ \A x : Says(ls, own(key) \cup {m}, x) = Text(l)
               /\ \A x : SaysNumber(ls, own(key) \cup {m}, x) = StringToNumber(Text(l))
  BY <1>0, <1>2, SaysStep
<1>4. /\ loc = PlaceAt(ls, b, m)
      /\ \A i \in own("methods") \cup own("index") : UpToSemicolon(ls[i]) # <<>>
  BY DEF PlaceFits
<1>5. /\ Words(ls, own("methods")) = {} => own("methods") = {}
      /\ Words(ls, own("index")) = {} => own("index") = {}
  BY <1>2, <1>4, WordsNone
<1>6. Words(ls, {m}) = Range(ws)
  BY DEF Words
<1> DEFINE ms == Words(ls, own("methods"))
           is == Words(ls, own("index"))
           r == Says(ls, own("redirection"), NoText)
           a == Says(ls, own("alias"), NoText)
           on == Says(ls, own("autoindex"), "off") = "on"
           size == SaysNumber(ls, own("client_max__bodysize"), -1)
<1>7. loc = PlaceOf(ms, is, r, a, on, size)
  BY <1>4 DEF PlaceAt, PlaceOf
<1>8. PlaceAt(ls, b, m + 1) =
            PlaceOf(Words(ls, now("methods")), Words(ls, now("index")), Says(ls, now("redirection"), NoText),
                    Says(ls, now("alias"), NoText), Says(ls, now("autoindex"), "off") = "on",
                    SaysNumber(ls, now("client_max__bodysize"), -1))
  BY DEF PlaceAt, PlaceOf
<1>20. loc.methods = ms /\ loc.index = is
  BY <1>7, PlaceWords
<1> HIDE DEF l, own, now, ws
<1>9. CASE l.key = "methods"
  <2>1. /\ loc.methods = {} /\ ws # <<>> /\ t = [loc EXCEPT !.methods = Range(ws)]
    BY <1>9 DEF LocationAfter, SetWords, ws, l
  <2>2. own("methods") = {} /\ now("methods") = {m}
    BY <1>1, <1>5, <1>9, <1>20, <2>1
  <2>3. t = PlaceAt(ls, b, m + 1)
    <3>1. /\ now("index") = own("index") /\ now("redirection") = own("redirection") /\ now("alias") = own("alias") /\ now("autoindex") = own("autoindex") /\ now("client_max__bodysize") = own("client_max__bodysize")
      BY <1>1, <1>9
    <3>2. PlaceAt(ls, b, m + 1) = PlaceOf(Range(ws), is, r, a, on, size)
      BY <1>6, <1>8, <2>2, <3>1
    <3>3. t = [PlaceOf(ms, is, r, a, on, size) EXCEPT !.methods = Range(ws)]
      BY <1>7, <2>1
    <3> HIDE DEF ms, is, r, a, on, size
    <3> QED BY <3>2, <3>3 DEF PlaceOf
  <2>4. \A i \in now("methods") \cup now("index") : UpToSemicolon(ls[i]) # <<>>
    BY <1>1, <1>4, <1>9, <2>1, <2>2 DEF ws, l
  <2> QED BY <2>3, <2>4 DEF PlaceFits, now
<1>10. CASE l.key = "index"
  <2>1. /\ loc.index = {} /\ ws # <<>> /\ t = [loc EXCEPT !.index = Range(ws)]
    BY <1>10 DEF LocationAfter, SetWords, ws, l
  <2>2. own("index") = {} /\ now("index") = {m}
    BY <1>1, <1>5, <1>10, <1>20, <2>1
  <2>3. t = PlaceAt(ls, b, m + 1)
    <3>1. /\ now("methods") = own("methods") /\ now("redirection") = own("redirection") /\ now("alias") = own("alias") /\ now("autoindex") = own("autoindex") /\ now("client_max__bodysize") = own("client_max__bodysize")
      BY <1>1, <1>10
    <3>2. PlaceAt(ls, b, m + 1) = PlaceOf(ms, Range(ws), r, a, on, size)
      BY <1>6, <1>8, <2>2, <3>1
    <3>3. t = [PlaceOf(ms, is, r, a, on, size) EXCEPT !.index = Range(ws)]
      BY <1>7, <2>1
    <3> HIDE DEF ms, is, r, a, on, size
    <3> QED BY <3>2, <3>3 DEF PlaceOf
  <2>4. \A i \in now("methods") \cup now("index") : UpToSemicolon(ls[i]) # <<>>
    BY <1>1, <1>4, <1>10, <2>1, <2>2 DEF ws, l
  <2> QED BY <2>3, <2>4 DEF PlaceFits, now
<1>11. CASE l.key \notin {"methods", "index"}
  <2>1. \A i \in now("methods") \cup now("index") : UpToSemicolon(ls[i]) # <<>>
    BY <1>1, <1>4, <1>11
  <2>2. CASE l.key = "redirection"
    <3>1. t = [loc EXCEPT !.redirection = Text(l)]
      BY <2>2 DEF LocationAfter, SetAlias, Set, l
    <3>2. /\ now("redirection") = own("redirection") \cup {m}
          /\ now("methods") = own("methods") /\ now("index") = own("index") /\ now("alias") = own("alias") /\ now("autoindex") = own("autoindex") /\ now("client_max__bodysize") = own("client_max__bodysize")
      BY <1>1, <2>2
    <3>3. Says(ls, now("redirection"), NoText) = Text(l)
      BY <1>3, <3>2
    <3>4. t = PlaceAt(ls, b, m + 1)
      <4>1. PlaceAt(ls, b, m + 1) = PlaceOf(ms, is, Text(l), a, on, size)
        BY <1>8, <3>2, <3>3
      <4>2. t = [PlaceOf(ms, is, r, a, on, size) EXCEPT !.redirection = Text(l)]
        BY <1>7, <3>1
      <4> HIDE DEF ms, is, r, a, on, size
      <4> QED BY <4>1, <4>2 DEF PlaceOf
    <3> QED BY <2>1, <3>4 DEF PlaceFits, now
  <2>3. CASE l.key = "alias"
    <3>1. t = [loc EXCEPT !.alias = Text(l)]
      BY <2>3 DEF LocationAfter, SetAlias, Set, l
    <3>2. /\ now("alias") = own("alias") \cup {m}
          /\ now("methods") = own("methods") /\ now("index") = own("index") /\ now("redirection") = own("redirection") /\ now("autoindex") = own("autoindex") /\ now("client_max__bodysize") = own("client_max__bodysize")
      BY <1>1, <2>3
    <3>3. Says(ls, now("alias"), NoText) = Text(l)
      BY <1>3, <3>2
    <3>4. t = PlaceAt(ls, b, m + 1)
      <4>1. PlaceAt(ls, b, m + 1) = PlaceOf(ms, is, r, Text(l), on, size)
        BY <1>8, <3>2, <3>3
      <4>2. t = [PlaceOf(ms, is, r, a, on, size) EXCEPT !.alias = Text(l)]
        BY <1>7, <3>1
      <4> HIDE DEF ms, is, r, a, on, size
      <4> QED BY <4>1, <4>2 DEF PlaceOf
    <3> QED BY <2>1, <3>4 DEF PlaceFits, now
  <2>4. CASE l.key = "autoindex"
    <3>1. t = [loc EXCEPT !.autoindex = (Text(l) = "on")]
      BY <2>4 DEF LocationAfter, SetAutoindex, l
    <3>2. /\ now("autoindex") = own("autoindex") \cup {m}
          /\ now("methods") = own("methods") /\ now("index") = own("index") /\ now("redirection") = own("redirection") /\ now("alias") = own("alias") /\ now("client_max__bodysize") = own("client_max__bodysize")
      BY <1>1, <2>4
    <3>3. (Says(ls, now("autoindex"), "off") = "on") = (Text(l) = "on")
      BY <1>3, <3>2
    <3>4. t = PlaceAt(ls, b, m + 1)
      <4>1. PlaceAt(ls, b, m + 1) = PlaceOf(ms, is, r, a, (Text(l) = "on"), size)
        BY <1>8, <3>2, <3>3
      <4>2. t = [PlaceOf(ms, is, r, a, on, size) EXCEPT !.autoindex = (Text(l) = "on")]
        BY <1>7, <3>1
      <4> HIDE DEF ms, is, r, a, on, size
      <4> QED BY <4>1, <4>2 DEF PlaceOf
    <3> QED BY <2>1, <3>4 DEF PlaceFits, now
  <2>5. CASE l.key = "client_max__bodysize"
    <3>1. t = [loc EXCEPT !.maxBody = StringToNumber(Text(l))]
      BY <2>5 DEF LocationAfter, SetClientMaxBodySize, l
    <3>2. /\ now("client_max__bodysize") = own("client_max__bodysize") \cup {m}
          /\ now("methods") = own("methods") /\ now("index") = own("index") /\ now("redirection") = own("redirection") /\ now("alias") = own("alias") /\ now("autoindex") = own("autoindex")
      BY <1>1, <2>5
    <3>3. SaysNumber(ls, now("client_max__bodysize"), -1) = StringToNumber(Text(l))
      BY <1>3, <3>2
    <3>4. t = PlaceAt(ls, b, m + 1)
      <4>1. PlaceAt(ls, b, m + 1) = PlaceOf(ms, is, r, a, on, StringToNumber(Text(l)))
        BY <1>8, <3>2, <3>3
      <4>2. t = [PlaceOf(ms, is, r, a, on, size) EXCEPT !.maxBody = StringToNumber(Text(l))]
        BY <1>7, <3>1
      <4> HIDE DEF ms, is, r, a, on, size
      <4> QED BY <4>1, <4>2 DEF PlaceOf
    <3> QED BY <2>1, <3>4 DEF PlaceFits, now
  <2> QED BY <1>11, <2>2, <2>3, <2>4, <2>5 DEF LocationAfter, l
<1> QED BY <1>9, <1>10, <1>11

\* The end of a location's block: its lines are complete, and its defaults are set.
LEMMA PlaceClosed ==
  ASSUME NEW ls \in Seq(Line), NEW b \in Nat, NEW m, NEW loc, PlaceFits(loc, ls, b, m)
  PROVE  WithDefaults(loc) = LocationAt(ls, b, m)
<1> DEFINE ms == Own(ls, b, m, "methods")
           is == Own(ls, b, m, "index")
<1>1. /\ \A i \in ms \cup is : ls[i] \in Line /\ UpToSemicolon(ls[i]) # <<>>
      /\ loc = PlaceAt(ls, b, m)
  BY OwnType DEF PlaceFits
<1>2. (Words(ls, ms) = {} <=> ms = {}) /\ (Words(ls, is) = {} <=> is = {})
  <2>1. (Words(ls, ms) = {} => ms = {}) /\ (Words(ls, is) = {} => is = {})
    BY <1>1, WordsNone
  <2> QED BY <2>1 DEF Words
<1>3. /\ WordsOf(ls, ms, "GET") = IF Words(ls, ms) = {} THEN {"GET"} ELSE Words(ls, ms)
      /\ WordsOf(ls, is, "index.html") = IF Words(ls, is) = {} THEN {"index.html"} ELSE Words(ls, is)
  BY <1>2 DEF WordsOf, Words
<1> DEFINE r == Says(ls, Own(ls, b, m, "redirection"), NoText)
           a == Says(ls, Own(ls, b, m, "alias"), NoText)
           on == Says(ls, Own(ls, b, m, "autoindex"), "off") = "on"
           size == SaysNumber(ls, Own(ls, b, m, "client_max__bodysize"), -1)
<1>4. loc = PlaceOf(Words(ls, ms), Words(ls, is), r, a, on, size)
  BY <1>1 DEF PlaceAt, PlaceOf
<1>5. LocationAt(ls, b, m) = PlaceOf(WordsOf(ls, ms, "GET"), WordsOf(ls, is, "index.html"), r, a, on, size)
  BY DEF LocationAt, PlaceOf
<1> HIDE DEF ms, is, r, a, on, size
<1>6. WithDefaults(loc) = [loc EXCEPT !.methods = IF loc.methods = {} THEN {"GET"} ELSE loc.methods,
                                      !.index = IF loc.index = {} THEN {"index.html"} ELSE loc.index]
  BY DEF WithDefaults
<1> QED BY <1>3, <1>4, <1>5, <1>6, PlaceWords DEF PlaceOf

\* A server's locations are what their blocks say, and its pages what the lines say.
LocationsFit(locs, ls, own) ==
  /\ DOMAIN locs = {Text(ls[l]) : l \in own}
  /\ \A l \in own : locs[Text(ls[l])] = LocationAt(ls, l, End(ls, l))

PagesFit(pages, ls, own) ==
  \A i \in own : LET ws == UpToSemicolon(ls[i]) IN
    /\ Len(ws) >= 2
    /\ \A k \in 1..Len(ws) - 1 : /\ StringToNumber(ws[k]) \in DOMAIN pages
                                 /\ pages[StringToNumber(ws[k])] = Last(ws)

\* A server in the making is what its block's lines so far say.
ServerFits(s, ls, b, m) ==
  /\ s.port = SaysNumber(ls, Own(ls, b, m, "listen"), 8080)
  /\ s.maxBody = SaysNumber(ls, Own(ls, b, m, "client_max__bodysize"), DefaultMaxBody)
  /\ s.host = Says(ls, Own(ls, b, m, "host"), NoText)
  /\ s.server_name = Says(ls, Own(ls, b, m, "server_name"), NoText)
  /\ s.cgi = Says(ls, Own(ls, b, m, "cgi"), NoText)
  /\ s.cgi_ext = Says(ls, Own(ls, b, m, "cgi_ext"), NoText)
  /\ LocationsFit(s.locations, ls, Own(ls, b, m, "location"))
  /\ PagesFit(s.pages, ls, Own(ls, b, m, "error_page"))

LEMMA FitsAgrees == ASSUME NEW s, NEW ls, NEW b, NEW m, ServerFits(s, ls, b, m) PROVE Agrees(s, ls, b, m)
<1>1. \A key \in {"host", "server_name", "cgi", "cgi_ext"} : s[key] = Says(ls, Own(ls, b, m, key), NoText)
  BY DEF ServerFits
<1>2. LocationsFit(s.locations, ls, Own(ls, b, m, "location")) /\ PagesFit(s.pages, ls, Own(ls, b, m, "error_page"))
  BY DEF ServerFits
<1> QED BY <1>1, <1>2 DEF ServerFits, LocationsFit, PagesFit, Agrees

LEMMA PagesStep ==
  ASSUME NEW ls, NEW own, NEW m, NEW s \in Servers, NEW t \in SetErrorPage(s, ls[m]), PagesFit(s.pages, ls, own)
  PROVE  PagesFit(t.pages, ls, own \cup {m})
<1> DEFINE ws    == UpToSemicolon(ls[m])
           codes == [i \in 1..Len(ws) - 1 |-> StringToNumber(ws[i])]
           pages == Assigned(s.pages, Range(codes), Last(ws))
<1>1. /\ Len(ws) >= 2 /\ Range(codes) \cap DOMAIN s.pages = {}
      /\ t = [s EXCEPT !.pages = pages]
  BY DEF SetErrorPage
<1>2. /\ DOMAIN pages = DOMAIN s.pages \cup Range(codes)
      /\ \A k \in Range(codes) : pages[k] = Last(ws)
      /\ \A k \in DOMAIN s.pages : pages[k] = s.pages[k]
  BY <1>1 DEF Assigned
<1>3. \A k \in 1..Len(ws) - 1 : StringToNumber(ws[k]) \in Range(codes)
  BY DEF Range
<1> HIDE DEF codes, pages
<1>4. PagesFit(pages, ls, own \cup {m})
  BY <1>1, <1>2, <1>3 DEF PagesFit
<1>5. t.pages = pages
  BY <1>1 DEF Servers
<1> QED BY <1>1, <1>4, <1>5

LEMMA PagesOnly ==
  ASSUME NEW l, NEW s \in Servers, NEW t \in SetErrorPage(s, l)
  PROVE  /\ t.port = s.port /\ t.maxBody = s.maxBody /\ t.host = s.host /\ t.server_name = s.server_name
         /\ t.cgi = s.cgi /\ t.cgi_ext = s.cgi_ext /\ t.locations = s.locations
<1>1. PICK pages : t = [s EXCEPT !.pages = pages]
  BY DEF SetErrorPage
<1> QED BY <1>1 DEF Servers

LEMMA ServerDirective ==
  ASSUME NEW ls \in Seq(Line), NEW b \in Nat, NEW m \in 1..Len(ls), b < m, Closed(ls, b, m),
         NEW s \in Servers, ServerFits(s, ls, b, m), NEW t \in ServerAfter(s, ls[m])
  PROVE  ServerFits(t, ls, b, m + 1)
<1> DEFINE l == ls[m]
           own(key) == Own(ls, b, m, key)
           now(key) == Own(ls, b, m + 1, key)
<1>0. l \in Line /\ m \in Nat
  BY ElementType
<1>1. \A key : now(key) = IF l.key = key THEN own(key) \cup {m} ELSE own(key)
  BY OwnStep
<1>2. \A key : \A i \in own(key) : i \in Nat /\ i < m /\ ls[i] \in Line
  BY OwnType
<1>3. \A key : /\ \A x : Says(ls, own(key) \cup {m}, x) = Text(l)
               /\ \A x : SaysNumber(ls, own(key) \cup {m}, x) = StringToNumber(Text(l))
  BY <1>0, <1>2, SaysStep
<1>4. /\ s.port = SaysNumber(ls, own("listen"), 8080)
      /\ s.maxBody = SaysNumber(ls, own("client_max__bodysize"), DefaultMaxBody)
      /\ s.host = Says(ls, own("host"), NoText) /\ s.server_name = Says(ls, own("server_name"), NoText)
      /\ s.cgi = Says(ls, own("cgi"), NoText) /\ s.cgi_ext = Says(ls, own("cgi_ext"), NoText)
      /\ LocationsFit(s.locations, ls, own("location")) /\ PagesFit(s.pages, ls, own("error_page"))
  BY DEF ServerFits
<1>5. (/\ t.port = SaysNumber(ls, now("listen"), 8080)
       /\ t.maxBody = SaysNumber(ls, now("client_max__bodysize"), DefaultMaxBody)
       /\ t.host = Says(ls, now("host"), NoText) /\ t.server_name = Says(ls, now("server_name"), NoText)
       /\ t.cgi = Says(ls, now("cgi"), NoText) /\ t.cgi_ext = Says(ls, now("cgi_ext"), NoText)
       /\ LocationsFit(t.locations, ls, now("location")) /\ PagesFit(t.pages, ls, now("error_page")))
      => ServerFits(t, ls, b, m + 1)
  BY DEF ServerFits
<1> HIDE DEF own, now
<1>6. CASE l.key = "listen"
  <2>1. t = [s EXCEPT !.port = StringToNumber(Text(l))]
    BY <1>6 DEF ServerAfter, SetPort, IsPort, StringToNumber
  <2>2. now("listen") = own("listen") \cup {m} /\ \A key : key # "listen" => now(key) = own(key)
    BY <1>1, <1>6
  <2> HIDE DEF l
  <2>3. /\ t.port = StringToNumber(Text(l)) /\ t.maxBody = s.maxBody /\ t.host = s.host
        /\ t.server_name = s.server_name /\ t.cgi = s.cgi /\ t.cgi_ext = s.cgi_ext
        /\ t.locations = s.locations /\ t.pages = s.pages
    BY <2>1 DEF Servers
  <2> QED BY <1>3, <1>4, <1>5, <2>2, <2>3
<1>7. CASE l.key = "client_max__bodysize"
  <2>1. t = [s EXCEPT !.maxBody = StringToNumber(Text(l))]
    BY <1>7 DEF ServerAfter, SetClientMaxBodySize
  <2>2. now("client_max__bodysize") = own("client_max__bodysize") \cup {m} /\ \A key : key # "client_max__bodysize" => now(key) = own(key)
    BY <1>1, <1>7
  <2> HIDE DEF l
  <2>3. /\ t.maxBody = StringToNumber(Text(l))
        /\ t.port = s.port /\ t.host = s.host /\ t.server_name = s.server_name /\ t.cgi = s.cgi /\ t.cgi_ext = s.cgi_ext /\ t.locations = s.locations /\ t.pages = s.pages
    BY <2>1 DEF Servers
  <2> QED BY <1>3, <1>4, <1>5, <2>2, <2>3
<1>8. CASE l.key = "host"
  <2>1. t = [s EXCEPT !.host = Text(l)]
    BY <1>8 DEF ServerAfter, Set
  <2>2. now("host") = own("host") \cup {m} /\ \A key : key # "host" => now(key) = own(key)
    BY <1>1, <1>8
  <2> HIDE DEF l
  <2>3. /\ t.host = Text(l)
        /\ t.port = s.port /\ t.maxBody = s.maxBody /\ t.server_name = s.server_name /\ t.cgi = s.cgi /\ t.cgi_ext = s.cgi_ext /\ t.locations = s.locations /\ t.pages = s.pages
    BY <2>1 DEF Servers
  <2> QED BY <1>3, <1>4, <1>5, <2>2, <2>3
<1>9. CASE l.key = "server_name"
  <2>1. t = [s EXCEPT !.server_name = Text(l)]
    BY <1>9 DEF ServerAfter, Set
  <2>2. now("server_name") = own("server_name") \cup {m} /\ \A key : key # "server_name" => now(key) = own(key)
    BY <1>1, <1>9
  <2> HIDE DEF l
  <2>3. /\ t.server_name = Text(l)
        /\ t.port = s.port /\ t.maxBody = s.maxBody /\ t.host = s.host /\ t.cgi = s.cgi /\ t.cgi_ext = s.cgi_ext /\ t.locations = s.locations /\ t.pages = s.pages
    BY <2>1 DEF Servers
  <2> QED BY <1>3, <1>4, <1>5, <2>2, <2>3
<1>10. CASE l.key = "cgi"
  <2>1. t = [s EXCEPT !.cgi = Text(l)]
    BY <1>10 DEF ServerAfter, Set, SetCgi
  <2>2. now("cgi") = own("cgi") \cup {m} /\ \A key : key # "cgi" => now(key) = own(key)
    BY <1>1, <1>10
  <2> HIDE DEF l
  <2>3. /\ t.cgi = Text(l)
        /\ t.port = s.port /\ t.maxBody = s.maxBody /\ t.host = s.host /\ t.server_name = s.server_name /\ t.cgi_ext = s.cgi_ext /\ t.locations = s.locations /\ t.pages = s.pages
    BY <2>1 DEF Servers
  <2> QED BY <1>3, <1>4, <1>5, <2>2, <2>3
<1>11. CASE l.key = "cgi_ext"
  <2>1. t = [s EXCEPT !.cgi_ext = Text(l)]
    BY <1>11 DEF ServerAfter, Set, SetCgi
  <2>2. now("cgi_ext") = own("cgi_ext") \cup {m} /\ \A key : key # "cgi_ext" => now(key) = own(key)
    BY <1>1, <1>11
  <2> HIDE DEF l
  <2>3. /\ t.cgi_ext = Text(l)
        /\ t.port = s.port /\ t.maxBody = s.maxBody /\ t.host = s.host /\ t.server_name = s.server_name /\ t.cgi = s.cgi /\ t.locations = s.locations /\ t.pages = s.pages
    BY <2>1 DEF Servers
  <2> QED BY <1>3, <1>4, <1>5, <2>2, <2>3
<1>12. CASE l.key = "error_page"
  <2>1. t \in SetErrorPage(s, ls[m])
    BY <1>12 DEF ServerAfter
  <2>2. PagesFit(t.pages, ls, own("error_page") \cup {m})
    <3>1. PICK lines : lines = own("error_page")
      OBVIOUS
    <3>2. PagesFit(s.pages, ls, lines)
      BY <1>4, <3>1
    <3>3. PagesFit(t.pages, ls, lines \cup {m})
      BY <2>1, <3>2, PagesStep
    <3> QED BY <3>1, <3>3
  <2>3. now("error_page") = own("error_page") \cup {m} /\ \A key : key # "error_page" => now(key) = own(key)
    BY <1>1, <1>12
  <2> HIDE DEF l
  <2>4. /\ t.port = s.port /\ t.maxBody = s.maxBody /\ t.host = s.host /\ t.server_name = s.server_name /\ t.cgi = s.cgi /\ t.cgi_ext = s.cgi_ext /\ t.locations = s.locations
    BY <2>1, PagesOnly
  <2>5. PagesFit(t.pages, ls, now("error_page"))
    BY <2>3, <2>2
  <2>6. LocationsFit(t.locations, ls, now("location"))
    BY <1>4, <2>3, <2>4
  <2> QED BY <1>4, <1>5, <2>3, <2>4, <2>5, <2>6
<1> QED BY <1>6, <1>7, <1>8, <1>9, <1>10, <1>11, <1>12 DEF ServerAfter

-----------------------------------------------------------------------------
(* The ends of the blocks *)

\* A location's block ends at the next brace, and its lines are its own.
LEMMA LocationEnds ==
  ASSUME NEW ls \in Seq(Line), NEW b \in Nat, NEW l \in 1..Len(ls), NEW e \in 1..Len(ls),
         b < l, l < e, ls[l].key = "location", ls[e].key \in Closing, Closed(ls, b, l),
         \A i \in 1..Len(ls) : ls[i].key \in Opening \cup Closing /\ l < i => e <= i
  PROVE  /\ End(ls, l) = e
         /\ Closed(ls, b, e + 1)
<1>1. l \in Nat /\ e \in Nat /\ Len(ls) \in Nat /\ DOMAIN ls = 1..Len(ls)
  OBVIOUS
<1>2. /\ l \in Keyed(ls, Opening) /\ e \in Keyed(ls, Closing)
      /\ l \notin Keyed(ls, Closing) /\ e \notin Keyed(ls, Opening)
  BY <1>1 DEF Keyed, Opening, Closing
<1>3. \A i \in Keyed(ls, Opening) \cup Keyed(ls, Closing) : i \in Nat /\ (l < i => e <= i)
  BY <1>1 DEF Keyed
<1>4. End(ls, l) = e
  <2>1. {i \in Keyed(ls, Opening) : l <= i /\ i <= e} = {l}
    <3>1. \A i \in Keyed(ls, Opening) : i \in Nat /\ (l < i => e <= i) /\ i # e
      BY <1>2, <1>3
    <3>2. \A i \in Keyed(ls, Opening) : l <= i /\ i <= e <=> i = l
      BY <1>1, <3>1
    <3>3. l \in Keyed(ls, Opening)
      BY <1>2
    <3> QED BY <3>2, <3>3, Zenon
  <2>2. {i \in Keyed(ls, Closing) : l <= i /\ i <= e} = {e}
    <3>1. \A i \in Keyed(ls, Closing) : i \in Nat /\ (l < i => e <= i) /\ i # l
      BY <1>2, <1>3
    <3>2. \A i \in Keyed(ls, Closing) : l <= i /\ i <= e <=> i = e
      BY <1>1, <3>1
    <3>3. e \in Keyed(ls, Closing)
      BY <1>2
    <3> QED BY <3>2, <3>3, Zenon
  <2>3. Within(ls, l, e, Opening) = Within(ls, l, e, Closing)
    BY <2>1, <2>2, FS_Singleton DEF Within
  <2>4. Unended(ls, l, e)
    BY <1>1, <1>3 DEF Unended
  <2> QED BY <1>1, <1>2, <2>3, <2>4, EndIs
<1>5. Closed(ls, b, e + 1)
  <2>1. ASSUME NEW c \in Keyed(ls, Opening) \ {b}, b < c, c < e + 1 PROVE End(ls, c) \in Nat /\ End(ls, c) < e + 1
    <3>1. c \in Nat /\ c # e
      BY <1>2, <1>3
    <3>2. CASE c = l
      BY <1>1, <1>4, <3>2
    <3>3. CASE c < l
      <4>1. End(ls, c) \in Nat /\ End(ls, c) < l
        BY <2>1, <3>3 DEF Closed
      <4> QED BY <1>1, <4>1
    <3>4. CASE l < c
      BY <1>1, <1>3, <2>1, <3>1, <3>4
    <3> QED BY <1>1, <3>1, <3>2, <3>3, <3>4
  <2> QED BY <2>1 DEF Closed
<1> QED BY <1>4, <1>5

LEMMA LocationOwn ==
  ASSUME NEW ls \in Seq(Line), NEW b \in Nat, NEW l \in 1..Len(ls), NEW e \in 1..Len(ls),
         b < l, l < e, ls[l].key = "location", Closed(ls, b, l), End(ls, l) = e, NEW key
  PROVE  /\ key = "location" => Own(ls, b, e + 1, key) = Own(ls, b, l, key) \cup {l}
         /\ key # "location" => Own(ls, b, e + 1, key) = Own(ls, b, l, key)
<1>1. l \in Nat /\ e \in Nat /\ DOMAIN ls = 1..Len(ls)
  OBVIOUS
<1>2. l \in Keyed(ls, Opening)
  BY <1>1 DEF Keyed, Opening
<1>3. Own(ls, b, e + 1, key) = Own(ls, b, l + 1, key)
  <2>1. \A i \in Keyed(ls, {key}) : i \in Nat /\ (i < l + 1 => i < e + 1)
    <3>1. \A i \in Keyed(ls, {key}) : i \in Nat
      BY KeyedType
    <3> QED BY <1>1, <3>1
  <2>2. ASSUME NEW i \in Own(ls, b, e + 1, key) PROVE i < l + 1
    <3>1. i \in Nat /\ i < e + 1 /\ \A c \in Keyed(ls, Opening) \ {b} : b < c /\ c < i => End(ls, c) < i
      BY <2>1 DEF Own
    <3>2. l < i => e < i
      BY <1>1, <1>2, <3>1
    <3> QED BY <1>1, <3>1, <3>2
  <2> QED BY <2>1, <2>2 DEF Own
<1>4. \A k : Own(ls, b, l + 1, k) = IF ls[l].key = k THEN Own(ls, b, l, k) \cup {l} ELSE Own(ls, b, l, k)
  BY <1>1, OwnStep
<1> QED BY <1>1, <1>3, <1>4

LEMMA LocationAdded ==
  ASSUME NEW ls, NEW own, NEW l, NEW locs, LocationsFit(locs, ls, own), Text(ls[l]) \notin DOMAIN locs
  PROVE  LocationsFit(Assigned(locs, {Text(ls[l])}, LocationAt(ls, l, End(ls, l))), ls, own \cup {l})
<1> DEFINE p == Text(ls[l])
           v == LocationAt(ls, l, End(ls, l))
           more == Assigned(locs, {p}, v)
<1>1. /\ DOMAIN more = DOMAIN locs \cup {p} /\ more[p] = v
      /\ \A k \in DOMAIN locs : k # p /\ more[k] = locs[k]
  BY DEF Assigned
<1> HIDE DEF more, v
<1>2. DOMAIN more = {Text(ls[i]) : i \in own \cup {l}}
  BY <1>1 DEF LocationsFit
<1>3. ASSUME NEW i \in own \cup {l} PROVE more[Text(ls[i])] = LocationAt(ls, i, End(ls, i))
  BY <1>1 DEF LocationsFit, v
<1> QED BY <1>2, <1>3 DEF LocationsFit, more, v

\* The page of a server without any.
LEMMA FinishedFits ==
  ASSUME NEW s \in Servers, NEW ls, NEW b, NEW m, ServerFits(s, ls, b, m)
  PROVE  ServerFits(Finished(s), ls, b, m)
<1>1. CASE s.pages # Empty
  BY <1>1 DEF Finished
<1>2. CASE s.pages = Empty
  <2> DEFINE pages == Assigned(s.pages, {404}, "www/errors/404.html")
             own == Own(ls, b, m, "error_page")
  <2>1. own = {}
    <3>1. PagesFit(s.pages, ls, own) /\ DOMAIN s.pages = {}
      BY <1>2 DEF ServerFits, Empty
    <3>2. ASSUME NEW i \in own PROVE FALSE
      <4>1. Len(UpToSemicolon(ls[i])) >= 2 /\ \A k \in 1..Len(UpToSemicolon(ls[i])) - 1 : FALSE
        BY <3>1 DEF PagesFit
      <4>2. Len(UpToSemicolon(ls[i])) \in Nat => 1 \in 1..Len(UpToSemicolon(ls[i])) - 1
        BY <4>1
      <4> QED BY <4>1, <4>2
    <3> QED BY <3>2
  <2>2. PagesFit(pages, ls, own)
    BY <2>1 DEF PagesFit
  <2>3. Finished(s) = [s EXCEPT !.pages = pages]
    BY <1>2 DEF Finished
  <2> HIDE DEF pages
  <2>4. /\ Finished(s).port = s.port /\ Finished(s).maxBody = s.maxBody /\ Finished(s).host = s.host
        /\ Finished(s).server_name = s.server_name /\ Finished(s).cgi = s.cgi /\ Finished(s).cgi_ext = s.cgi_ext
        /\ Finished(s).locations = s.locations /\ Finished(s).pages = pages
    BY <2>3 DEF Servers
  <2> QED BY <2>2, <2>4 DEF ServerFits
<1> QED BY <1>1, <1>2

-----------------------------------------------------------------------------
(* The servers of a file *)

\* The places of the members of a finite set that are numbered apart are 1, 2, ...
RankBy(S, num, p) == Cardinality({q \in S : num[q] <= num[p]})

LEMMA RankCounts ==
  ASSUME NEW S, IsFiniteSet(S), NEW num \in [S -> Nat], \A p, q \in S : num[p] = num[q] => p = q
  PROVE  /\ Cardinality(S) \in Nat
         /\ \A p \in S : RankBy(S, num, p) \in 1..Cardinality(S)
         /\ \A p, q \in S : RankBy(S, num, p) = RankBy(S, num, q) => p = q
         /\ \A i \in 1..Cardinality(S) : \E p \in S : RankBy(S, num, p) = i
<1> DEFINE n == Cardinality(S)
           upTo(p) == {q \in S : num[q] <= num[p]}
           rank(p) == RankBy(S, num, p)
           nth == [p \in S |-> rank(p)]
<1>1. n \in Nat
  BY FS_CardinalityType
<1>2. ASSUME NEW T \in SUBSET S PROVE IsFiniteSet(T) /\ Cardinality(T) \in Nat /\ Cardinality(T) <= n
  BY FS_Subset, FS_CardinalityType
<1>3. ASSUME NEW p \in S PROVE rank(p) \in 1..n
  <2>1. {p} \in SUBSET upTo(p) /\ upTo(p) \in SUBSET S
    BY <1>3
  <2>2. IsFiniteSet(upTo(p)) /\ Cardinality(upTo(p)) \in Nat /\ Cardinality(upTo(p)) <= n
    BY <1>2, <2>1
  <2>3. Cardinality({p}) = 1 /\ Cardinality({p}) <= Cardinality(upTo(p))
    BY <2>1, <2>2, FS_Subset, FS_Singleton
  <2> QED BY <1>1, <2>2, <2>3 DEF RankBy
<1>4. ASSUME NEW p \in S, NEW q \in S, num[p] < num[q] PROVE rank(p) # rank(q)
  <2>1. upTo(p) \in SUBSET upTo(q) /\ q \in upTo(q) /\ q \notin upTo(p)
    BY <1>4
  <2>2. IsFiniteSet(upTo(q))
    BY <1>2
  <2>3. upTo(p) # upTo(q)
    BY <2>1
  <2>4. Cardinality(upTo(p)) # Cardinality(upTo(q))
    <3> HIDE DEF upTo
    <3> QED BY <2>1, <2>2, <2>3, FS_Subset
  <2> QED BY <2>4 DEF RankBy
<1>5. ASSUME NEW p \in S, NEW q \in S, rank(p) = rank(q) PROVE p = q
  <2>1. num[p] = num[q] \/ num[p] < num[q] \/ num[q] < num[p]
    BY <1>5
  <2> QED BY <1>4, <1>5, <2>1
<1>6. nth \in Injection(S, 1..n)
  <2> HIDE DEF rank
  <2> QED BY <1>3, <1>5 DEF Injection, IsInjective
<1>7. nth \in Surjection(S, 1..n)
  <2>1. IsFiniteSet(1..n) /\ Cardinality(1..n) = n
    BY <1>1, FS_Interval
  <2> HIDE DEF nth, n
  <2> QED BY <1>6, <2>1, FS_Injection DEF n
<1>8. ASSUME NEW i \in 1..n PROVE \E p \in S : rank(p) = i
  <2> HIDE DEF rank
  <2> QED BY <1>7 DEF Surjection
<1> QED BY <1>1, <1>3, <1>5, <1>8

LEMMA FirstsType ==
  ASSUME NEW ls \in Seq(Line), NEW m
  PROVE  /\ Blocks(ls, m) \subseteq Nat /\ Firsts(ls, m) \subseteq Blocks(ls, m)
         /\ IsFiniteSet(Firsts(ls, m)) /\ Cardinality(Firsts(ls, m)) \in Nat
         /\ \A i \in 1..Cardinality(Firsts(ls, m)) :
              \E f \in Firsts(ls, m) : Cardinality({a \in Firsts(ls, m) : a <= f}) = i
         /\ \A f \in Firsts(ls, m) : Cardinality({a \in Firsts(ls, m) : a <= f}) \in 1..Cardinality(Firsts(ls, m))
<1> DEFINE F == Firsts(ls, m)
           num == [f \in F |-> f]
<1>1. F \subseteq Blocks(ls, m) /\ Blocks(ls, m) \subseteq Keyed(ls, {"server"})
  BY DEF Firsts, Blocks
<1>2. Keyed(ls, {"server"}) \subseteq Nat
  <2>1. \A i \in Keyed(ls, {"server"}) : i \in Nat
    BY KeyedType
  <2> QED BY <2>1
<1> HIDE DEF F
<1>3. IsFiniteSet(F) /\ Cardinality(F) \in Nat
  <2>1. F \in SUBSET Keyed(ls, {"server"})
    BY <1>1
  <2> QED BY <2>1, KeyedType
<1>4. num \in [F -> Nat] /\ \A p, q \in F : num[p] = num[q] => p = q
  BY <1>1, <1>2
<1>5. \A p \in F : RankBy(F, num, p) = Cardinality({q \in F : q <= p})
  <2>1. \A p \in F : {q \in F : num[q] <= num[p]} = {q \in F : q <= p}
    OBVIOUS
  <2> QED BY <2>1 DEF RankBy
<1> HIDE DEF num
<1>6. /\ \A p \in F : RankBy(F, num, p) \in 1..Cardinality(F)
      /\ \A i \in 1..Cardinality(F) : \E p \in F : RankBy(F, num, p) = i
  BY <1>3, <1>4, RankCounts
<1> QED BY <1>1, <1>2, <1>3, <1>5, <1>6 DEF F

\* The address that a block says is that of its server.
LEMMA AddressIs ==
  ASSUME NEW s, NEW ls, NEW b, Agrees(s, ls, b, End(ls, b))
  PROVE  Address(ls, b) = <<s.port, s.host>>
<1>1. s["host"] = Says(ls, Own(ls, b, End(ls, b), "host"), NoText)
  BY DEF Agrees
<1> QED BY <1>1 DEF Agrees, Address

\* A block is read to its end: its server is added if its address is the first of
\* its kind, and dropped otherwise.
LEMMA AddedAgrees ==
  ASSUME NEW ls \in Seq(Line), NEW b \in 1..Len(ls), ls[b].key = "server", NEW e \in Nat, b < e,
         \A a \in 1..Len(ls) : ls[a].key = "server" /\ a < e + 1 => a <= b,
         NEW V, servers \in Seq(V), AsWritten(servers, ls, b),
         NEW s, End(ls, b) = e, Agrees(s, ls, b, e)
  PROVE  AsWritten(Added(s), ls, e + 1)
<1> DEFINE n == Len(servers)
           B == Blocks(ls, b)
           F == Firsts(ls, b)
           G == Firsts(ls, e + 1)
           rank(f) == Cardinality({a \in F : a <= f})
           known == \E i \in DOMAIN servers : SameAddress(servers[i], s)
<1>1. /\ B \subseteq Nat /\ F \subseteq B /\ IsFiniteSet(F) /\ n = Cardinality(F) /\ n \in Nat
      /\ \A i \in 1..n : \E f \in F : rank(f) = i
      /\ \A f \in F : rank(f) \in 1..n
  <2>1. n = Cardinality(F) /\ n \in Nat
    BY DEF AsWritten
  <2>2. /\ B \subseteq Nat /\ F \subseteq B /\ IsFiniteSet(F)
        /\ \A i \in 1..Cardinality(F) : \E f \in F : rank(f) = i
        /\ \A f \in F : rank(f) \in 1..Cardinality(F)
    BY FirstsType
  <2> QED BY <2>1, <2>2
<1>2. b \in Nat /\ DOMAIN servers = 1..n /\ DOMAIN ls = 1..Len(ls)
  OBVIOUS
<1>3. /\ Blocks(ls, e + 1) = B \cup {b} /\ b \notin B /\ \A a \in B : a \in Nat /\ a < b
  <2>1. \A a \in Keyed(ls, {"server"}) : a \in Nat /\ (a < e + 1 <=> a < b \/ a = b)
    BY <1>2 DEF Keyed
  <2>2. b \in Keyed(ls, {"server"})
    BY <1>2 DEF Keyed
  <2> QED BY <1>2, <2>1, <2>2 DEF Blocks
<1>4. /\ F = {f \in B : \A a \in B : a < f => Address(ls, a) # Address(ls, f)}
      /\ G = {f \in B \cup {b} : \A a \in B \cup {b} : a < f => Address(ls, a) # Address(ls, f)}
  BY <1>3 DEF Firsts
<1>5. \A f \in F : Agrees(servers[rank(f)], ls, f, End(ls, f))
  BY DEF AsWritten
<1>6. /\ \A f \in F : Address(ls, f) = <<servers[rank(f)].port, servers[rank(f)].host>>
      /\ Address(ls, b) = <<s.port, s.host>>
  <2> HIDE DEF rank, F
  <2> QED BY <1>5, AddressIs
<1>7. \A f \in F : Address(ls, f) = Address(ls, b) <=> SameAddress(servers[rank(f)], s)
  <2> HIDE DEF rank, F
  <2> QED BY <1>6 DEF SameAddress
<1> HIDE DEF B, F, G, rank
<1>8. known <=> \E a \in B : Address(ls, a) = Address(ls, b)
  <2>1. ASSUME known PROVE \E a \in B : Address(ls, a) = Address(ls, b)
    <3>1. PICK i \in 1..n : SameAddress(servers[i], s)
      BY <1>2, <2>1
    <3>2. PICK f \in F : rank(f) = i
      BY <1>1, <3>1
    <3> QED BY <1>1, <1>7, <3>1, <3>2
  <2>2. ASSUME NEW a \in B, Address(ls, a) = Address(ls, b) PROVE known
    <3> DEFINE S == {x \in B : Address(ls, x) = Address(ls, b)}
    <3>1. S # {} /\ S \subseteq Nat
      BY <1>1, <2>2
    <3>2. PICK f \in S : \A x \in S : f <= x
      BY <3>1, LeastNatural
    <3>3. f \in F
      <4>1. \A x \in B : x < f => x \notin S
        BY <1>1, <3>1, <3>2
      <4> QED BY <1>4, <3>2, <4>1
    <3>4. SameAddress(servers[rank(f)], s) /\ rank(f) \in DOMAIN servers
      BY <1>1, <1>2, <1>7, <3>2, <3>3
    <3> QED BY <3>4
  <2> QED BY <2>1, <2>2
<1>9. \A a \in B : ~(b < a) /\ a < b /\ a # b
  BY <1>2, <1>3
<1>10. CASE known
  <2>1. Added(s) = servers
    BY <1>10 DEF Added
  <2>2. G = F
    BY <1>4, <1>8, <1>9, <1>10
  <2> QED BY <2>1, <2>2 DEF AsWritten, F, G
<1>11. CASE ~known
  <2> DEFINE more == Append(servers, s)
             nth(f) == Cardinality({a \in G : a <= f})
  <2>1. Added(s) = more
    BY <1>11 DEF Added
  <2>2. G = F \cup {b} /\ b \notin F
    <3>1. b \in G
      BY <1>2, <1>4, <1>8, <1>11
    <3>2. ASSUME NEW f \in B PROVE f \in G <=> f \in F
      BY <1>4, <1>9
    <3>3. G \subseteq B \cup {b} /\ F \subseteq B /\ b \notin B
      BY <1>3, <1>4
    <3> QED BY <3>1, <3>2, <3>3
  <2>3. IsFiniteSet(G) /\ Cardinality(G) = n + 1
    BY <1>1, <2>2, FS_AddElement
  <2>4. Len(more) = n + 1 /\ more[n + 1] = s /\ \A i \in 1..n : more[i] = servers[i]
    BY <1>1
  <2>5. ASSUME NEW f \in F PROVE more[nth(f)] = servers[rank(f)]
    <3>1. {a \in G : a <= f} = {a \in F : a <= f}
      <4>1. f \in Nat /\ f < b
        BY <1>1, <1>3
      <4>2. ~(b <= f)
        BY <1>2, <4>1
      <4> QED BY <2>2, <4>2
    <3> QED BY <1>1, <2>4, <3>1 DEF rank
  <2>6. more[nth(b)] = s
    <3>1. \A a \in G : a <= b
      BY <1>1, <1>2, <1>3, <2>2
    <3>2. {a \in G : a <= b} = G
      BY <3>1
    <3> QED BY <2>3, <2>4, <3>2
  <2> HIDE DEF more, nth
  <2>7. ASSUME NEW f \in G PROVE Agrees(more[nth(f)], ls, f, End(ls, f))
    BY <1>5, <2>2, <2>5, <2>6
  <2> QED BY <2>1, <2>3, <2>4, <2>7 DEF AsWritten, G, nth
<1> QED BY <1>10, <1>11

-----------------------------------------------------------------------------
(* The reading, line by line *)

\* Line p is to be read, in the block b of a server that has come to line m, behind
\* the blocks of the servers ss.
Reads(ls, p, ss, s, b, m) ==
  /\ b \in 1..Len(ls) /\ b < m /\ ls[b].key = "server"
  /\ \A a \in 1..Len(ls) : ls[a].key = "server" /\ a < p => a <= b
  /\ AsWritten(ss, ls, b)
  /\ Unended(ls, b, p) /\ Closed(ls, b, m) /\ ServerFits(s, ls, b, m)

InServer(ls, p, ss, s, b) == Reads(ls, p, ss, s, b, p) /\ Depth(ls, b, p, 1)

\* ... and in the block l of a location with path x.
InLocation(ls, p, ss, s, x, loc, b, l) ==
  /\ Reads(ls, p, ss, s, b, l) /\ Depth(ls, b, p, 2)
  /\ l \in 1..Len(ls) /\ l < p /\ ls[l].key = "location"
  /\ x = Text(ls[l]) /\ x \notin DOMAIN s.locations
  /\ \A i \in 1..Len(ls) : ls[i].key \in Opening \cup Closing /\ l < i => p <= i
  /\ PlaceFits(loc, ls, l, p)

LEMMA NothingYet ==
  ASSUME NEW ls \in Seq(Line), NEW m \in 1..Len(ls)
  PROVE  /\ Closed(ls, m, m + 1) /\ Unended(ls, m, m + 1)
         /\ \A key : Own(ls, m, m + 1, key) = {}
<1>1. m \in Nat /\ DOMAIN ls = 1..Len(ls) /\ \A i \in 1..Len(ls) : ~(m < i /\ i < m + 1)
  OBVIOUS
<1>2. \A keys : \A i \in Keyed(ls, keys) : ~(m < i /\ i < m + 1)
  BY <1>1 DEF Keyed
<1> QED BY <1>2 DEF Closed, Unended, Own

LEMMA ServerBegins ==
  ASSUME NEW ls \in Seq(Line), NEW m \in 1..Len(ls), ls[m].key = "server", NEW ss, AsWritten(ss, ls, m)
  PROVE  InServer(ls, m + 1, ss, NewServer, m)
<1>1. m \in Nat /\ DOMAIN ls = 1..Len(ls) /\ m + 1 - 1 = m /\ m < m + 1 /\ m <= m
  OBVIOUS
<1>2. \A a \in 1..Len(ls) : a < m + 1 => a <= m
  OBVIOUS
<1>3. /\ Closed(ls, m, m + 1) /\ Unended(ls, m, m + 1)
      /\ \A key : Own(ls, m, m + 1, key) = {}
  BY NothingYet
<1>4. Depth(ls, m, m + 1, 1)
  <2>1. m \in Keyed(ls, Opening) /\ m \notin Keyed(ls, Closing)
    BY <1>1 DEF Keyed, Opening, Closing
  <2>2. \A keys : {i \in Keyed(ls, keys) : m <= i /\ i <= m - 1} = {}
    BY <1>1 DEF Keyed
  <2>3. \A keys : Within(ls, m, m - 1, keys) = 0
    BY <2>2, FS_EmptySet DEF Within
  <2>4. Within(ls, m, m, Opening) = 1 /\ Within(ls, m, m, Closing) = 0
    <3>1. Within(ls, m, m, Opening) = Within(ls, m, m - 1, Opening) + 1
      BY <1>1, <2>1, WithinStep
    <3>2. Within(ls, m, m, Closing) = Within(ls, m, m - 1, Closing)
      BY <1>1, <2>1, WithinStep
    <3> QED BY <2>3, <3>1, <3>2
  <2> QED BY <1>1, <2>4 DEF Depth
<1>5. ServerFits(NewServer, ls, m, m + 1)
  BY <1>3 DEF ServerFits, NewServer, Says, SaysNumber, LocationsFit, PagesFit, Empty
<1> QED BY <1>1, <1>2, <1>3, <1>4, <1>5 DEF InServer, Reads

LEMMA ServerGoesOn ==
  ASSUME NEW ls \in Seq(Line), NEW m \in 1..Len(ls), NEW ss, NEW s \in Servers, NEW b,
         InServer(ls, m, ss, s, b), NEW t \in ServerAfter(s, ls[m])
  PROVE  InServer(ls, m + 1, ss, t, b)
<1>1. /\ b \in 1..Len(ls) /\ b \in Nat /\ b < m /\ b < m + 1 /\ ls[b].key = "server"
      /\ AsWritten(ss, ls, b) /\ Unended(ls, b, m) /\ Closed(ls, b, m) /\ ServerFits(s, ls, b, m)
      /\ Depth(ls, b, m, 1)
  BY DEF InServer, Reads
<1>2. ls[m].key \notin Opening \cup Closing /\ ls[m].key # "server"
  BY Zenon DEF ServerAfter, Opening, Closing
<1>3. \A a \in 1..Len(ls) : ls[a].key = "server" /\ a < m + 1 => a <= b
  <2>1. \A a \in 1..Len(ls) : a < m + 1 => a < m \/ a = m
    OBVIOUS
  <2> QED BY <1>2, <2>1 DEF InServer, Reads
<1>4. Depth(ls, b, m + 1, 1) /\ Unended(ls, b, m + 1)
  BY <1>1, <1>2, DepthStep
<1>5. Closed(ls, b, m + 1)
  BY <1>1, <1>2, ClosedStep
<1>6. ServerFits(t, ls, b, m + 1)
  BY <1>1, ServerDirective
<1> QED BY <1>1, <1>3, <1>4, <1>5, <1>6 DEF InServer, Reads

LEMMA LocationBegins ==
  ASSUME NEW ls \in Seq(Line), NEW m \in 1..Len(ls), NEW ss, NEW s, NEW b,
         InServer(ls, m, ss, s, b), ls[m].key = "location", Text(ls[m]) \notin DOMAIN s.locations
  PROVE  InLocation(ls, m + 1, ss, s, Text(ls[m]), NewLocation, b, m)
<1>1. /\ b \in 1..Len(ls) /\ b \in Nat /\ b < m /\ ls[b].key = "server"
      /\ AsWritten(ss, ls, b) /\ Unended(ls, b, m) /\ Closed(ls, b, m) /\ ServerFits(s, ls, b, m)
      /\ Depth(ls, b, m, 1)
  BY DEF InServer, Reads
<1>2. ls[m].key \in Opening /\ ls[m].key # "server"
  BY DEF Opening
<1>3. \A a \in 1..Len(ls) : ls[a].key = "server" /\ a < m + 1 => a <= b
  <2>1. \A a \in 1..Len(ls) : a < m + 1 => a < m \/ a = m
    OBVIOUS
  <2> QED BY <1>2, <2>1 DEF InServer, Reads
<1>4. Depth(ls, b, m + 1, 1 + 1) /\ Unended(ls, b, m + 1)
  BY <1>1, <1>2, DepthStep
<1>5. PlaceFits(NewLocation, ls, m, m + 1)
  <2>1. \A key : Own(ls, m, m + 1, key) = {}
    BY NothingYet
  <2>2. Words(ls, {}) = {}
    BY DEF Words
  <2>3. NewLocation = PlaceOf({}, {}, NoText, NoText, FALSE, -1)
    BY DEF NewLocation, PlaceOf
  <2>4. PlaceAt(ls, m, m + 1) = PlaceOf({}, {}, NoText, NoText, "off" = "on", -1)
    BY <2>1, <2>2 DEF PlaceAt, PlaceOf, Says, SaysNumber
  <2>5. ("off" = "on") = FALSE
    OBVIOUS
  <2> QED BY <2>1, <2>3, <2>4, <2>5 DEF PlaceFits
<1>6. \A i \in 1..Len(ls) : m < i => m + 1 <= i
  OBVIOUS
<1>7. m < m + 1 /\ 1 + 1 = 2
  OBVIOUS
<1>8. Reads(ls, m + 1, ss, s, b, m)
  BY <1>1, <1>3, <1>4 DEF Reads
<1> QED BY <1>4, <1>5, <1>6, <1>7, <1>8 DEF InLocation

LEMMA LocationGoesOn ==
  ASSUME NEW ls \in Seq(Line), NEW m \in 1..Len(ls), NEW ss, NEW s, NEW x, NEW loc, NEW b, NEW l,
         InLocation(ls, m, ss, s, x, loc, b, l), NEW t \in LocationAfter(loc, ls[m])
  PROVE  InLocation(ls, m + 1, ss, s, x, t, b, l)
<1>1. /\ b \in 1..Len(ls) /\ b \in Nat /\ b < l /\ ls[b].key = "server" /\ l \in 1..Len(ls) /\ l \in Nat /\ l < m
      /\ AsWritten(ss, ls, b) /\ Unended(ls, b, m) /\ Closed(ls, b, l) /\ ServerFits(s, ls, b, l)
      /\ Depth(ls, b, m, 2) /\ PlaceFits(loc, ls, l, m)
      /\ \A i \in 1..Len(ls) : ls[i].key \in Opening \cup Closing /\ l < i => m <= i
  BY DEF InLocation, Reads
<1>2. ls[m].key \notin Opening \cup Closing /\ ls[m].key # "server"
  BY Zenon DEF LocationAfter, Opening, Closing
<1>3. b < m /\ l < m + 1
  BY <1>1
<1>4. \A a \in 1..Len(ls) : ls[a].key = "server" /\ a < m + 1 => a <= b
  <2>1. \A a \in 1..Len(ls) : a < m + 1 => a < m \/ a = m
    OBVIOUS
  <2> QED BY <1>2, <2>1 DEF InLocation, Reads
<1>5. Depth(ls, b, m + 1, 2) /\ Unended(ls, b, m + 1)
  BY <1>1, <1>2, <1>3, DepthStep
<1>6. Closed(ls, l, m)
  <2>1. \A c \in Keyed(ls, Opening) : l < c => ~(c < m)
    BY <1>1 DEF Keyed
  <2> QED BY <2>1 DEF Closed
<1>7. PlaceFits(t, ls, l, m + 1)
  BY <1>1, <1>6, PlaceDirective
<1>8. \A i \in 1..Len(ls) : ls[i].key \in Opening \cup Closing /\ l < i => m + 1 <= i
  <2>1. \A i \in 1..Len(ls) : m <= i /\ i # m => m + 1 <= i
    OBVIOUS
  <2> QED BY <1>1, <1>2, <2>1
<1>9. Reads(ls, m + 1, ss, s, b, l)
  BY <1>1, <1>4, <1>5 DEF Reads
<1> QED BY <1>1, <1>3, <1>5, <1>7, <1>8, <1>9 DEF InLocation

LEMMA LocationCloses ==
  ASSUME NEW ls \in Seq(Line), NEW m \in 1..Len(ls), NEW ss, NEW s \in Servers, NEW x, NEW loc, NEW b, NEW l,
         InLocation(ls, m, ss, s, x, loc, b, l), ls[m].key \in Closing
  PROVE  InServer(ls, m + 1, ss, [s EXCEPT !.locations = Assigned(@, {x}, WithDefaults(loc))], b)
<1> DEFINE locs == Assigned(s.locations, {x}, WithDefaults(loc))
           t    == [s EXCEPT !.locations = locs]
<1>1. /\ b \in 1..Len(ls) /\ b \in Nat /\ b < l /\ ls[b].key = "server" /\ l \in 1..Len(ls) /\ l \in Nat /\ l < m
      /\ ls[l].key = "location" /\ x = Text(ls[l]) /\ x \notin DOMAIN s.locations
      /\ AsWritten(ss, ls, b) /\ Unended(ls, b, m) /\ Closed(ls, b, l) /\ ServerFits(s, ls, b, l)
      /\ Depth(ls, b, m, 2) /\ PlaceFits(loc, ls, l, m)
      /\ \A i \in 1..Len(ls) : ls[i].key \in Opening \cup Closing /\ l < i => m <= i
  BY DEF InLocation, Reads
<1>2. ls[m].key # "server"
  BY Zenon DEF Closing
<1>3. b < m /\ b < m + 1
  BY <1>1
<1>4. \A a \in 1..Len(ls) : ls[a].key = "server" /\ a < m + 1 => a <= b
  <2>1. \A a \in 1..Len(ls) : a < m + 1 => a < m \/ a = m
    OBVIOUS
  <2> QED BY <1>2, <2>1 DEF InLocation, Reads
<1>5. Depth(ls, b, m + 1, 1) /\ Unended(ls, b, m + 1)
  BY <1>1, <1>3, DepthStep
<1>6. /\ End(ls, l) = m /\ Closed(ls, b, m + 1)
      /\ Own(ls, b, m + 1, "location") = Own(ls, b, l, "location") \cup {l}
      /\ \A key : key # "location" => Own(ls, b, m + 1, key) = Own(ls, b, l, key)
  <2> HIDE DEF t, locs
  <2>1. End(ls, l) = m /\ Closed(ls, b, m + 1)
    BY <1>1, LocationEnds
  <2>2. \A key : /\ key = "location" => Own(ls, b, m + 1, key) = Own(ls, b, l, key) \cup {l}
                 /\ key # "location" => Own(ls, b, m + 1, key) = Own(ls, b, l, key)
    <3>1. b \in Nat /\ l \in 1..Len(ls) /\ b < l /\ l < m /\ ls[l].key = "location" /\ Closed(ls, b, l) /\ End(ls, l) = m
      BY <1>1, <2>1
    <3> QED BY ONLY <3>1, ls \in Seq(Line), m \in 1..Len(ls), LocationOwn
  <2> QED BY <2>1, <2>2
<1>7. LocationsFit(locs, ls, Own(ls, b, l, "location") \cup {l})
  <2>1. WithDefaults(loc) = LocationAt(ls, l, End(ls, l))
    BY <1>1, <1>6, PlaceClosed
  <2>2. LocationsFit(s.locations, ls, Own(ls, b, l, "location"))
    BY <1>1 DEF ServerFits
  <2>3. LocationsFit(Assigned(s.locations, {Text(ls[l])}, LocationAt(ls, l, End(ls, l))), ls,
                     Own(ls, b, l, "location") \cup {l})
    BY <1>1, <2>2, LocationAdded
  <2> QED BY <1>1, <2>1, <2>3
<1> HIDE DEF locs
<1>8. /\ t.port = s.port /\ t.maxBody = s.maxBody /\ t.host = s.host /\ t.server_name = s.server_name
      /\ t.cgi = s.cgi /\ t.cgi_ext = s.cgi_ext /\ t.locations = locs /\ t.pages = s.pages
  BY DEF Servers
<1> HIDE DEF t
<1>9. ServerFits(t, ls, b, m + 1)
  <2> DEFINE own(key) == Own(ls, b, l, key)
             now(key) == Own(ls, b, m + 1, key)
  <2>1. /\ now("listen") = own("listen") /\ now("client_max__bodysize") = own("client_max__bodysize")
        /\ now("host") = own("host") /\ now("server_name") = own("server_name") /\ now("cgi") = own("cgi")
        /\ now("cgi_ext") = own("cgi_ext") /\ now("error_page") = own("error_page")
    BY <1>6
  <2>2. LocationsFit(t.locations, ls, now("location"))
    BY <1>6, <1>7, <1>8
  <2>3. PagesFit(t.pages, ls, now("error_page"))
    BY <1>1, <1>8, <2>1 DEF ServerFits
  <2> QED BY <1>1, <1>8, <2>1, <2>2, <2>3 DEF ServerFits
<1>10. Reads(ls, m + 1, ss, t, b, m + 1)
  BY <1>1, <1>3, <1>4, <1>5, <1>6, <1>9 DEF Reads
<1> QED BY <1>5, <1>10 DEF InServer, t, locs

LEMMA ServerCloses ==
  ASSUME NEW ls \in Seq(Line), NEW m \in 1..Len(ls), NEW V, servers \in Seq(V), NEW s \in Servers, NEW b,
         InServer(ls, m, servers, s, b), ls[m].key \in Closing
  PROVE  AsWritten(Added(Finished(s)), ls, m + 1)
<1>1. /\ b \in 1..Len(ls) /\ b \in Nat /\ b < m /\ ls[b].key = "server"
      /\ AsWritten(servers, ls, b) /\ Unended(ls, b, m) /\ Closed(ls, b, m) /\ ServerFits(s, ls, b, m)
      /\ Depth(ls, b, m, 1)
  BY DEF InServer, Reads
<1>0. m \in Nat
  OBVIOUS
<1>2. ls[m].key # "server"
  BY Zenon DEF Closing
<1>3. \A a \in 1..Len(ls) : ls[a].key = "server" /\ a < m + 1 => a <= b
  <2>1. \A a \in 1..Len(ls) : a < m + 1 => a < m \/ a = m
    OBVIOUS
  <2> QED BY <1>2, <2>1 DEF InServer, Reads
<1>4. End(ls, b) = m
  BY <1>1, DepthStep
<1>5. Agrees(Finished(s), ls, b, m)
  BY <1>1, FinishedFits, FitsAgrees
<1> QED BY <1>0, <1>1, <1>2, <1>3, <1>4, <1>5, AddedAgrees

\* What has been read is as it is written.
WrittenInv ==
  /\ mode = "file" => AsWritten(servers, file.lines, pos)
  /\ mode = "server" => \E b \in Nat : InServer(file.lines, pos, servers, server, b)
  /\ mode = "location" => \E b, l \in Nat : InLocation(file.lines, pos, servers, server, path, place, b, l)
  /\ mode = "loaded" => AsWritten(servers, file.lines, pos - 1)

LEMMA HereIs ==
  ASSUME LoadInv
  PROVE  /\ file.lines \in Seq(Line)
         /\ More => pos \in 1..Len(file.lines) /\ Here = file.lines[pos]
         /\ pos \in Nat /\ server \in Servers /\ servers \in Seq(Usable)
<1>1. file.lines \in Seq(Line)
  BY FilesAssumption DEF File, LoadInv, LoadTypes
<1> QED BY <1>1 DEF LoadInv, LoadTypes, Kept, More, Here

LEMMA WrittenInit == LoadInit => WrittenInv
<1> SUFFICES ASSUME LoadInit PROVE AsWritten(<<>>, file.lines, 1)
  BY DEF LoadInit, WrittenInv
<1>1. file.lines \in Seq(Line)
  BY FilesAssumption DEF File, LoadInit
<1>2. \A i \in Keyed(file.lines, {"server"}) : ~(i < 1)
  <2>1. \A i \in 1..Len(file.lines) : ~(i < 1)
    OBVIOUS
  <2>2. DOMAIN file.lines = 1..Len(file.lines)
    BY <1>1
  <2> QED BY <2>1, <2>2 DEF Keyed
<1>3. Firsts(file.lines, 1) = {}
  BY <1>2 DEF Firsts, Blocks
<1> QED BY <1>3, FS_EmptySet DEF AsWritten

\* Giving up says nothing.
LEMMA FailWritten == ASSUME Fail PROVE WrittenInv'
  BY DEF Fail, Step, WrittenInv

\* A step to the next line of a server, a location or the file.
LEMMA ToWritten ==
  ASSUME UNCHANGED file, pos' = pos + 1
  PROVE  /\ mode' = "file" /\ AsWritten(servers', file.lines, pos + 1) => WrittenInv'
         /\ mode' = "server" /\ (\E b \in Nat : InServer(file.lines, pos + 1, servers', server', b)) => WrittenInv'
         /\ mode' = "location"
            /\ (\E b, l \in Nat : InLocation(file.lines, pos + 1, servers', server', path', place', b, l)) => WrittenInv'
  BY DEF WrittenInv

LEMMA FileWritten == ASSUME LoadInv, WrittenInv, ReadFile PROVE WrittenInv'
<1>1. CASE LoadDone
  <2>1. /\ mode' \in {"failed", "loaded"} /\ pos' = pos + 1 /\ servers' = servers /\ file' = file
        /\ AsWritten(servers, file.lines, pos)
    BY <1>1 DEF ReadFile, Step, WrittenInv
  <2>2. pos' - 1 = pos
    BY <2>1 DEF LoadInv, LoadTypes
  <2>3. AsWritten(servers', file'.lines, pos' - 1)
    BY <2>1, <2>2
  <2> QED BY <2>1, <2>3 DEF WrittenInv
<1>2. CASE ~LoadDone /\ Here.key = "server" /\ Texts(Here) = <<"{">>
  <2>1. mode' = "server" /\ pos' = pos + 1 /\ server' = NewServer /\ UNCHANGED <<file, servers>>
    BY <1>2 DEF ReadFile, Step
  <2>2. More
    BY <1>2 DEF LoadDone
  <2>3. /\ file.lines \in Seq(Line) /\ pos \in 1..Len(file.lines) /\ pos \in Nat
        /\ file.lines[pos].key = "server"
    BY <1>2, <2>2, HereIs
  <2>4. AsWritten(servers, file.lines, pos)
    BY DEF ReadFile, WrittenInv
  <2>5. InServer(file.lines, pos + 1, servers, NewServer, pos)
    BY <2>3, <2>4, ServerBegins
  <2> QED BY <2>1, <2>3, <2>5, ToWritten
<1>3. CASE ~LoadDone /\ ~(Here.key = "server" /\ Texts(Here) = <<"{">>)
  BY <1>3, FailWritten DEF ReadFile
<1> QED BY <1>1, <1>2, <1>3

LEMMA ServerWritten == ASSUME LoadInv, WrittenInv, ReadServer PROVE WrittenInv'
<1> DEFINE closes == More /\ Here.key = "}" /\ Here.words = <<>> /\ Complete(server)
           goesOn == More /\ ServerAfter(server, Here) # {}
           ls == file.lines
<1>1. PICK b \in Nat : InServer(ls, pos, servers, server, b)
  BY DEF ReadServer, WrittenInv
<1>2. /\ ls \in Seq(Line) /\ pos \in Nat /\ server \in Servers /\ servers \in Seq(Usable)
      /\ More => pos \in 1..Len(ls) /\ Here = ls[pos]
  BY HereIs
<1>3. CASE closes
  <2>1. mode' = "file" /\ pos' = pos + 1 /\ servers' = Added(Finished(server)) /\ UNCHANGED file
    BY <1>3 DEF ReadServer, Step
  <2>2. pos \in 1..Len(ls) /\ ls[pos].key \in Closing
    BY <1>2, <1>3, Zenon DEF Closing
  <2>3. AsWritten(Added(Finished(server)), ls, pos + 1)
    BY <1>1, <1>2, <2>2, ServerCloses
  <2> QED BY <2>1, <2>3, ToWritten
<1>4. CASE ~closes /\ OpensLocation
  <2>1. /\ mode' = "location" /\ pos' = pos + 1 /\ path' = Text(Here) /\ place' = NewLocation
        /\ UNCHANGED <<file, server, servers>>
    BY <1>4 DEF ReadServer, FreshLocation, Step
  <2>2. More /\ Here.key = "location" /\ Text(Here) \notin DOMAIN server.locations
    BY <1>4 DEF OpensLocation
  <2>3. pos \in 1..Len(ls) /\ ls[pos].key = "location" /\ Text(ls[pos]) \notin DOMAIN server.locations
    BY <1>2, <2>2
  <2>4. InLocation(ls, pos + 1, servers, server, Text(ls[pos]), NewLocation, b, pos)
    BY <1>1, <1>2, <2>3, LocationBegins
  <2>5. path' = Text(ls[pos])
    BY <1>2, <2>1, <2>2
  <2> QED BY <1>2, <2>1, <2>4, <2>5, ToWritten
<1>5. CASE ~closes /\ ~OpensLocation /\ goesOn
  <2>1. /\ mode' = "server" /\ pos' = pos + 1 /\ server' \in ServerAfter(server, Here)
        /\ UNCHANGED <<file, servers>>
    BY <1>5 DEF ReadServer, Step
  <2>2. pos \in 1..Len(ls) /\ server' \in ServerAfter(server, ls[pos])
    BY <1>2, <1>5, <2>1
  <2>3. InServer(ls, pos + 1, servers, server', b)
    BY <1>1, <1>2, <2>2, ServerGoesOn
  <2> QED BY <2>1, <2>3, ToWritten
<1>6. CASE ~closes /\ ~OpensLocation /\ ~goesOn
  BY <1>6, FailWritten DEF ReadServer
<1> QED BY <1>3, <1>4, <1>5, <1>6

LEMMA LocationWritten == ASSUME LoadInv, WrittenInv, ReadLocation PROVE WrittenInv'
<1> DEFINE closes == More /\ Here.key = "}" /\ Here.words = <<>>
           goesOn == More /\ LocationAfter(place, Here) # {}
           ls == file.lines
<1>1. PICK b \in Nat, l \in Nat : InLocation(ls, pos, servers, server, path, place, b, l)
  BY DEF ReadLocation, WrittenInv
<1>2. /\ ls \in Seq(Line) /\ pos \in Nat /\ server \in Servers
      /\ More => pos \in 1..Len(ls) /\ Here = ls[pos]
  BY HereIs
<1>3. CASE closes
  <2> DEFINE s == [server EXCEPT !.locations = Assigned(@, {path}, WithDefaults(place))]
  <2>1. mode' = "server" /\ pos' = pos + 1 /\ server' = s /\ UNCHANGED <<file, servers>>
    BY <1>3 DEF ReadLocation, Step
  <2>2. pos \in 1..Len(ls) /\ ls[pos].key \in Closing
    BY <1>2, <1>3, Zenon DEF Closing
  <2>3. InServer(ls, pos + 1, servers, s, b)
    BY <1>1, <1>2, <2>2, LocationCloses
  <2> HIDE DEF s
  <2> QED BY <2>1, <2>3, ToWritten
<1>4. CASE ~closes /\ goesOn
  <2>1. /\ mode' = "location" /\ pos' = pos + 1 /\ place' \in LocationAfter(place, Here)
        /\ UNCHANGED <<file, server, path, servers>>
    BY <1>4 DEF ReadLocation, Step
  <2>2. pos \in 1..Len(ls) /\ place' \in LocationAfter(place, ls[pos])
    BY <1>2, <1>4, <2>1
  <2>3. InLocation(ls, pos + 1, servers, server, path, place', b, l)
    BY <1>1, <1>2, <2>2, LocationGoesOn
  <2> QED BY <2>1, <2>3, ToWritten
<1>5. CASE ~closes /\ ~goesOn
  BY <1>5, FailWritten DEF ReadLocation
<1> QED BY <1>3, <1>4, <1>5

LEMMA WrittenStep == ASSUME LoadInv, WrittenInv, [LoadNext]_config PROVE WrittenInv'
<1>1. CASE UNCHANGED config
  BY <1>1 DEF config, WrittenInv
<1> QED BY <1>1, FileWritten, ServerWritten, LocationWritten DEF LoadNext

\* Whatever the files: each server is the first block of the file with its address, and
\* says what that block and its locations say.
THEOREM LoadedAsWritten == LoadSpec => []ReadAsWritten
<1>1. LoadInit => LoadInv /\ WrittenInv
  BY LoadInitInv, WrittenInit
<1>2. LoadInv /\ WrittenInv /\ [LoadNext]_config => LoadInv' /\ WrittenInv'
  BY LoadStep, WrittenStep
<1>3. WrittenInv => ReadAsWritten
  BY DEF WrittenInv, ReadAsWritten
<1> QED BY <1>1, <1>2, <1>3, PTL DEF LoadSpec

\* And they stay so while they serve requests.
THEOREM SitesAsWritten == Spec => []ReadAsWritten
<1>1. Init => LoadInv /\ WrittenInv
  BY LoadInitInv, WrittenInit DEF Init
<1>2. [Next]_vars => [LoadNext]_config
  BY DEF Next, Load, Request, LookUp, vars, config
<1>3. LoadInv /\ WrittenInv /\ [LoadNext]_config => LoadInv' /\ WrittenInv'
  BY LoadStep, WrittenStep
<1>4. WrittenInv => ReadAsWritten
  BY DEF WrittenInv, ReadAsWritten
<1> QED BY <1>1, <1>2, <1>3, <1>4, PTL DEF Spec
-----------------------------------------------------------------------------
(* The lookups of the servers that were loaded *)

\* The loop visits the paths of the server that is asked, and no others.
OfTheSite ==
  order # <<>> => /\ mode = "loaded" /\ site \in DOMAIN servers
                  /\ Range(order) = Paths(site)

LEMMA PathsType ==
  ASSUME LoadInv, NEW i \in DOMAIN servers
  PROVE  IsFiniteSet(Paths(i)) /\ Paths(i) \subseteq CharSeq
<1>1. servers[i].locations \in Locations
  <2>1. servers[i] \in Usable
    BY ElementType DEF LoadInv, Kept
  <2> QED BY <2>1 DEF Usable, Servers
<1> DEFINE keys == DOMAIN servers[i].locations
<1>2. IsFiniteSet(keys) /\ keys \subseteq Written
  BY <1>1, MapsType DEF Locations
<1>3. Paths(i) = {Chars(p) : p \in keys}
  BY DEF Paths
<1> HIDE DEF keys
<1> DEFINE chars == [p \in keys |-> Chars(p)]
           all   == {Chars(p) : p \in keys}
<1>4. IsFiniteSet(all)
  <2>1. chars \in Surjection(keys, all)
    BY DEF Surjection
  <2> HIDE DEF chars, all
  <2> QED BY <1>2, <2>1, FS_Surjection
<1> QED BY <1>2, <1>3, <1>4 DEF Written

LEMMA RequestOrder ==
  ASSUME LoadInv, Request
  PROVE  /\ \E target \in Targets : Ask(target)
         /\ mode' = "loaded" /\ servers' = servers /\ site' \in DOMAIN servers
         /\ Range(order') = Paths(site')
<1>1. PICK i \in DOMAIN servers, target \in Targets :
        site' = i /\ order' = PathOrder(Paths(i)) /\ Begin(target)
  BY DEF Request
<1>2. order' \in Seq(CharSeq) /\ MapOrder(order') /\ Range(order') = Paths(i)
  BY <1>1, PathsType, PathOrderSorts
<1> QED BY <1>1, <1>2 DEF Request, Ask, config

\* A request to a server that was loaded is one that Routing allows: its paths, put in
\* the map's order, are sequences that the loop of readLocationData may meet there.
LEMMA SitesImplementRouting == Spec => Routes
<1>1. Init => LoadInv /\ RoutingInit
  BY LoadInitInv DEF Init
<1>2. LoadInv /\ [Next]_vars => LoadInv' /\ [RoutingNext]_routing
  <2> SUFFICES ASSUME LoadInv, [Next]_vars PROVE LoadInv' /\ [RoutingNext]_routing
    OBVIOUS
  <2>1. [LoadNext]_config
    BY DEF Next, Load, Request, LookUp, vars
  <2>2. [RoutingNext]_routing
    BY RequestOrder DEF Next, Load, LookUp, vars, RoutingNext
  <2> QED BY <2>1, <2>2, LoadStep
<1> QED BY <1>1, <1>2, PTL DEF Spec, Routes, RoutingSpec

LEMMA SiteInit == Init => LoadInv /\ OfTheSite
  BY LoadInitInv DEF Init, RoutingInit, OfTheSite

LEMMA SiteStep ==
  ASSUME LoadInv, OfTheSite, [Next]_vars
  PROVE  LoadInv' /\ OfTheSite'
<1>1. LoadInv'
  BY LoadStep DEF Next, Load, Request, LookUp, vars
<1>2. CASE Request
  <2>1. /\ mode' = "loaded" /\ servers' = servers /\ site' \in DOMAIN servers
        /\ Range(order') = Paths(site')
    BY <1>2, RequestOrder
  <2>2. Paths(site') = Paths(site)'
    BY <2>1 DEF Paths
  <2>3. Range(order') = Range(order)'
    BY DEF Range
  <2> QED BY <1>1, <2>1, <2>2, <2>3 DEF OfTheSite
<1>3. CASE Load
  <2>1. order = <<>>
    BY <1>3 DEF Load, OfTheSite
  <2>2. order' = order
    BY <1>3 DEF Load, routing
  <2> QED BY <1>1, <2>1, <2>2 DEF OfTheSite
<1>4. CASE LookUp \/ UNCHANGED vars
  <2>1. mode' = mode /\ servers' = servers /\ site' = site /\ order' = order
    BY <1>4 DEF LookUp, Visit, vars, config, routing
  <2>2. Paths(site)' = Paths(site) /\ Range(order)' = Range(order)
    BY <2>1 DEF Paths, Range
  <2> QED BY <1>1, <2>1, <2>2 DEF OfTheSite
<1> QED BY <1>1, <1>2, <1>3, <1>4 DEF Next

\* So each server answers from the longest of its own locations that the route begins
\* with, whatever the file it was loaded from and whatever is asked of it.
THEOREM LongestServes == Spec => [](LongestLocation /\ OfTheSite)
<1>1. LoadInv /\ OfTheSite /\ [Next]_vars => (LoadInv /\ OfTheSite)'
  BY SiteStep
<1> QED BY <1>1, SiteInit, SitesImplementRouting, LongestWins, PTL DEF Spec, Routes
-----------------------------------------------------------------------------
(* The segments of a path *)

\* How many of some pairs begin no later than c.
Nth(S, c) == Cardinality({q \in S : q[1] <= c[1]})

\* Pairs that begin at different places are numbered by how many begin no later.
LEMMA NthCounts ==
  ASSUME NEW S, IsFiniteSet(S), \A p \in S : p[1] \in Nat,
         \A p, q \in S : p[1] = q[1] => p = q
  PROVE  /\ Cardinality(S) \in Nat
         /\ \A p \in S : Nth(S, p) \in 1..Cardinality(S)
         /\ \A p, q \in S : Nth(S, p) = Nth(S, q) => p = q
         /\ \A i \in 1..Cardinality(S) : \E p \in S : Nth(S, p) = i
<1> DEFINE num == [p \in S |-> p[1]]
<1>1. num \in [S -> Nat] /\ \A p, q \in S : num[p] = num[q] => p = q
  OBVIOUS
<1>2. \A p \in S : RankBy(S, num, p) = Nth(S, p)
  <2>1. \A p \in S : {q \in S : num[q] <= num[p]} = {q \in S : q[1] <= p[1]}
    OBVIOUS
  <2> QED BY <2>1 DEF RankBy, Nth
<1> HIDE DEF num
<1>3. /\ Cardinality(S) \in Nat
      /\ \A p \in S : RankBy(S, num, p) \in 1..Cardinality(S)
      /\ \A p, q \in S : RankBy(S, num, p) = RankBy(S, num, q) => p = q
      /\ \A i \in 1..Cardinality(S) : \E p \in S : RankBy(S, num, p) = i
  BY <1>1, RankCounts
<1> QED BY <1>2, <1>3

\* The pairs of cuts that Segments numbers.
LEMMA BetweenType ==
  ASSUME NEW s \in CharSeq
  PROVE  /\ IsFiniteSet(Between(s)) /\ Cuts(s) \subseteq 0..Len(s) + 1 /\ Len(s) \in Nat
         /\ \A p \in Between(s) : /\ p \in Cuts(s) \X Cuts(s) /\ p = <<p[1], p[2]>> /\ p[1] \in Nat /\ p[2] \in Nat
                                  /\ p[1] + 1 < p[2]
                                  /\ \A c \in Cuts(s) : c <= p[1] \/ c >= p[2]
         /\ \A p, q \in Between(s) : p[1] = q[1] => p = q
<1>1. Len(s) \in Nat /\ DOMAIN s = 1..Len(s)
  BY DEF CharSeq
<1>2. Cuts(s) \subseteq 0..Len(s) + 1
  BY <1>1 DEF Cuts
<1>3. IsFiniteSet(Cuts(s) \X Cuts(s))
  <2>1. IsFiniteSet(0..Len(s) + 1)
    BY <1>1, FS_Interval
  <2>2. IsFiniteSet(Cuts(s))
    BY <1>2, <2>1, FS_Subset
  <2> QED BY <2>2, FS_Product
<1>4. Between(s) \in SUBSET (Cuts(s) \X Cuts(s))
  BY DEF Between
<1>5. IsFiniteSet(Between(s))
  BY <1>3, <1>4, FS_Subset
<1>6. ASSUME NEW p \in Between(s)
      PROVE  /\ p \in Cuts(s) \X Cuts(s) /\ p = <<p[1], p[2]>> /\ p[1] \in Nat /\ p[2] \in Nat
             /\ p[1] \in Cuts(s) /\ p[2] \in Cuts(s)
             /\ p[1] + 1 < p[2]
             /\ \A c \in Cuts(s) : c <= p[1] \/ c >= p[2]
  BY <1>1, <1>2, <1>6 DEF Between
<1>7. ASSUME NEW p \in Between(s), NEW q \in Between(s), p[1] = q[1] PROVE p = q
  <2>1. p[2] <= q[1] \/ p[2] >= q[2]
    BY <1>6
  <2>2. q[2] <= p[1] \/ q[2] >= p[2]
    BY <1>6
  <2>3. p[2] = q[2]
    BY <1>6, <1>7, <2>1, <2>2
  <2> QED BY <1>6, <1>7, <2>3
<1> QED BY <1>1, <1>2, <1>5, <1>6, <1>7

\* Two texts have the same segments when their pairs correspond, in the same order and
\* with the same text between them.
LEMMA SegmentsAgree ==
  ASSUME NEW s \in CharSeq, NEW t \in CharSeq, NEW f \in Bijection(Between(s), Between(t)),
         \A c, d \in Between(s) : c[1] <= d[1] <=> f[c][1] <= f[d][1],
         \A c \in Between(s) : SubSeq(t, f[c][1] + 1, f[c][2] - 1) = SubSeq(s, c[1] + 1, c[2] - 1)
  PROVE  Segments(s) = Segments(t)
<1> DEFINE S == Between(s)
           T == Between(t)
<1>1. /\ IsFiniteSet(S) /\ \A p \in S : p[1] \in Nat
      /\ \A p, q \in S : p[1] = q[1] => p = q
  BY BetweenType
<1>2. /\ IsFiniteSet(T) /\ \A p \in T : p[1] \in Nat
      /\ \A p, q \in T : p[1] = q[1] => p = q
  BY BetweenType
<1> DEFINE textS(i) == LET p == CHOOSE c \in S : Cardinality({q \in S : q[1] <= c[1]}) = i
                       IN  SubSeq(s, p[1] + 1, p[2] - 1)
           textT(i) == LET p == CHOOSE c \in T : Cardinality({q \in T : q[1] <= c[1]}) = i
                       IN  SubSeq(t, p[1] + 1, p[2] - 1)
<1>3. Segments(s) = [i \in 1..Cardinality(S) |-> textS(i)] /\ Segments(t) = [i \in 1..Cardinality(T) |-> textT(i)]
  BY DEF Segments
<1>4. /\ f \in [S -> T] /\ \A c, d \in S : f[c] = f[d] => c = d
      /\ \A d \in T : \E c \in S : f[c] = d
  BY DEF Bijection, Injection, Surjection, IsInjective
<1> HIDE DEF S, T
<1>5. Cardinality(S) = Cardinality(T)
  <2>1. f \in Bijection(S, T)
    BY DEF S, T
  <2> QED BY <1>1, <2>1, FS_Bijection DEF ExistsBijection
<1>6. ASSUME NEW c \in S PROVE Nth(S, c) = Nth(T, f[c])
  <2> DEFINE A == {q \in S : q[1] <= c[1]}
             B == {q \in T : q[1] <= f[c][1]}
             g == [q \in A |-> f[q]]
  <2>1. \A q \in S : q[1] <= c[1] <=> f[q][1] <= f[c][1]
    BY <1>6 DEF S
  <2>2. g \in [A -> B] /\ \A x, y \in A : g[x] = g[y] => x = y
    BY <1>4, <2>1
  <2>3. ASSUME NEW d \in B PROVE \E x \in A : g[x] = d
    BY <1>4, <2>1
  <2>4. g \in Bijection(A, B)
    BY <2>2, <2>3 DEF Bijection, Injection, Surjection, IsInjective
  <2>5. IsFiniteSet(A)
    BY <1>1, FS_Subset
  <2> HIDE DEF A, B, g
  <2>6. Cardinality(A) = Cardinality(B)
    BY <2>4, <2>5, FS_Bijection DEF ExistsBijection
  <2> QED BY <2>6 DEF A, B, Nth
<1>7. ASSUME NEW i \in 1..Cardinality(S) PROVE textS(i) = textT(i)
  <2> DEFINE c == CHOOSE x \in S : Nth(S, x) = i
             d == CHOOSE x \in T : Nth(T, x) = i
  <2>1. c \in S /\ Nth(S, c) = i
    <3>1. \E x \in S : Nth(S, x) = i
      BY <1>1, <1>7, NthCounts
    <3> QED BY <3>1
  <2>2. d \in T /\ Nth(T, d) = i
    <3>1. \E x \in T : Nth(T, x) = i
      BY <1>2, <1>5, <1>7, NthCounts
    <3> QED BY <3>1
  <2>3. textS(i) = SubSeq(s, c[1] + 1, c[2] - 1) /\ textT(i) = SubSeq(t, d[1] + 1, d[2] - 1)
    BY DEF Nth
  <2> HIDE DEF c, d, textS, textT
  <2>4. f[c] = d
    <3>1. Nth(T, f[c]) = Nth(T, d) /\ f[c] \in T
      BY <1>4, <1>6, <2>1, <2>2
    <3>2. \A p, q \in T : Nth(T, p) = Nth(T, q) => p = q
      BY <1>2, NthCounts
    <3> QED BY <2>2, <3>1, <3>2
  <2> QED BY <2>1, <2>3, <2>4 DEF S
<1> HIDE DEF textS, textT
<1> QED BY <1>3, <1>5, <1>7

\* A part of one text and a part of another, h places further on.
LEMMA SamePart ==
  ASSUME NEW s \in CharSeq, NEW t \in CharSeq, NEW a \in Nat, NEW b \in Nat, NEW h \in Nat,
         a + 1 < b, b <= Len(s) + 1, b + h <= Len(t) + 1,
         \A i \in (a + 1)..(b - 1) : t[i + h] = s[i]
  PROVE  SubSeq(t, a + h + 1, b + h - 1) = SubSeq(s, a + 1, b - 1)
<1> DEFINE m == a + 1
           l == b - 1
           n == b - a - 1
           x == SubSeq(s, m, l)
           y == SubSeq(t, m + h, l + h)
<1>1. /\ m \in Nat \ {0} /\ l \in Nat /\ n \in Nat /\ n = l - m + 1 /\ n = (l + h) - (m + h) + 1
      /\ m <= l /\ m + h <= l + h /\ m + h \in Nat \ {0} /\ l + h \in Nat
      /\ a + h + 1 = m + h /\ b + h - 1 = l + h
      /\ Len(s) \in Nat /\ Len(t) \in Nat /\ l <= Len(s) /\ l + h <= Len(t)
  BY DEF CharSeq
<1>2. ASSUME NEW i \in 1..n PROVE m + i - 1 \in m..l /\ m + h + i - 1 = (m + i - 1) + h
  BY <1>1, <1>2
<1>3. \A i \in m..l : t[i + h] = s[i]
  OBVIOUS
<1>4. (\A i \in m..l : s[i] \in Nat) /\ (\A i \in (m + h)..(l + h) : t[i] \in Nat)
  <2>1. \A i \in m..l : i \in 1..Len(s)
    BY <1>1
  <2>2. \A i \in (m + h)..(l + h) : i \in 1..Len(t)
    BY <1>1
  <2> HIDE DEF m, l
  <2> QED BY <2>1, <2>2 DEF CharSeq
<1> HIDE DEF m, l, n
<1>5. x \in Seq(Nat) /\ Len(x) = n /\ \A i \in 1..n : x[i] = s[m + i - 1]
  <2>1. /\ x \in Seq(Nat) /\ Len(x) = IF m <= l THEN l - m + 1 ELSE 0
        /\ \A i \in 1 .. l - m + 1 : x[i] = s[m + i - 1]
    BY <1>1, <1>4, SubSeqProperties
  <2> HIDE DEF x
  <2> QED BY <1>1, <2>1
<1>6. y \in Seq(Nat) /\ Len(y) = n /\ \A i \in 1..n : y[i] = t[m + h + i - 1]
  <2>1. /\ y \in Seq(Nat) /\ Len(y) = IF m + h <= l + h THEN (l + h) - (m + h) + 1 ELSE 0
        /\ \A i \in 1 .. (l + h) - (m + h) + 1 : y[i] = t[m + h + i - 1]
    <3> DEFINE mm == m + h
               ll == l + h
    <3>1. mm \in Int /\ ll \in Int /\ \A i \in mm..ll : t[i] \in Nat
      BY <1>1, <1>4
    <3> HIDE DEF mm, ll
    <3>2. /\ SubSeq(t, mm, ll) \in Seq(Nat) /\ Len(SubSeq(t, mm, ll)) = IF mm <= ll THEN ll - mm + 1 ELSE 0
          /\ \A i \in 1 .. ll - mm + 1 : SubSeq(t, mm, ll)[i] = t[mm + i - 1]
      BY <3>1, SubSeqProperties
    <3> QED BY <3>2 DEF mm, ll
  <2> HIDE DEF y
  <2> QED BY <1>1, <2>1
<1>7. \A i \in 1..n : y[i] = x[i]
  BY <1>2, <1>3, <1>5, <1>6
<1> HIDE DEF x, y
<1>8. y = x
  BY <1>5, <1>6, <1>7, SeqEqual
<1> QED BY <1>1, <1>8 DEF x, y, m, l

\* The cuts of a text in which a slash is doubled, or put first.
LEMMA MoreCuts ==
  ASSUME NEW s \in CharSeq, NEW t \in CharSeq, NEW k \in 0..Len(s), Len(t) = Len(s) + 1,
         \A i \in 1..k : t[i] = s[i], t[k + 1] = Slash,
         \A i \in (k + 1)..Len(s) : t[i + 1] = s[i],
         k = 0 \/ s[k] = Slash
  PROVE  /\ k \in Cuts(s) /\ k \in Cuts(t) /\ k + 1 \in Cuts(t)
         /\ \A c \in 0..k : c \in Cuts(t) <=> c \in Cuts(s)
         /\ \A c \in (k + 1)..(Len(s) + 1) : c + 1 \in Cuts(t) <=> c \in Cuts(s)
<1>1. Len(s) \in Nat /\ Len(t) \in Nat /\ DOMAIN s = 1..Len(s) /\ DOMAIN t = 1..Len(s) + 1 /\ k \in Nat
  BY DEF CharSeq
<1>2. k \in Cuts(s) /\ k + 1 \in Cuts(t)
  BY <1>1 DEF Cuts
<1>3. ASSUME NEW c \in 0..k PROVE c \in Cuts(t) <=> c \in Cuts(s)
  BY <1>1, <1>3 DEF Cuts
<1>4. ASSUME NEW c \in (k + 1)..(Len(s) + 1) PROVE c + 1 \in Cuts(t) <=> c \in Cuts(s)
  <2>1. CASE c = Len(s) + 1
    BY <1>1, <2>1 DEF Cuts
  <2>2. CASE c # Len(s) + 1
    <3>1. c \in (k + 1)..Len(s) /\ c \in 1..Len(s) /\ c + 1 \in 1..Len(s) + 1 /\ c + 1 # 0 /\ c # 0 /\ c + 1 # Len(t) + 1
      BY <1>1, <1>4, <2>2
    <3>2. t[c + 1] = s[c]
      BY <3>1
    <3> QED BY <1>1, <2>2, <3>1, <3>2 DEF Cuts
  <2> QED BY <2>1, <2>2
<1>5. k \in Cuts(t)
  BY <1>1, <1>2, <1>3
<1> QED BY <1>2, <1>3, <1>4, <1>5

\* A slash that is doubled, or put first, does not change the segments.
LEMMA DoubledSlash ==
  ASSUME NEW s \in CharSeq, NEW t \in CharSeq, NEW k \in 0..Len(s), Len(t) = Len(s) + 1,
         \A i \in 1..k : t[i] = s[i], t[k + 1] = Slash,
         \A i \in (k + 1)..Len(s) : t[i + 1] = s[i],
         k = 0 \/ s[k] = Slash
  PROVE  Segments(s) = Segments(t)
<1> DEFINE S == Between(s)
           T == Between(t)
           n == Len(s)
           up(p) == IF p[2] <= k THEN p ELSE <<p[1] + 1, p[2] + 1>>
           f == [p \in S |-> up(p)]
<1>1. n \in Nat /\ k \in Nat /\ k <= n /\ Cuts(s) \subseteq 0..n + 1 /\ Cuts(t) \subseteq 0..n + 2
  BY BetweenType DEF CharSeq
<1>2. /\ k \in Cuts(s) /\ k \in Cuts(t) /\ k + 1 \in Cuts(t)
      /\ \A c \in 0..k : c \in Cuts(t) <=> c \in Cuts(s)
      /\ \A c \in (k + 1)..(n + 1) : c + 1 \in Cuts(t) <=> c \in Cuts(s)
  BY MoreCuts
<1>3. ASSUME NEW p \in S
      PROVE  /\ p = <<p[1], p[2]>> /\ p[1] \in Nat /\ p[2] \in Nat /\ p[1] \in Cuts(s) /\ p[2] \in Cuts(s)
             /\ p[1] + 1 < p[2] /\ p[2] <= n + 1
             /\ \A c \in Cuts(s) : c <= p[1] \/ c >= p[2]
             /\ p[2] <= k \/ p[1] >= k
  BY <1>1, <1>2, <1>3, BetweenType
<1>4. ASSUME NEW p \in S PROVE up(p) \in T
  <2>1. /\ p[1] \in Nat /\ p[2] \in Nat /\ p[1] \in Cuts(s) /\ p[2] \in Cuts(s)
        /\ p[1] + 1 < p[2] /\ p[2] <= n + 1
        /\ \A c \in Cuts(s) : c <= p[1] \/ c >= p[2]
        /\ p[2] <= k \/ p[1] >= k
    BY <1>3, <1>4
  <2>2. CASE p[2] <= k
    <3>1. up(p) = p /\ p \in Cuts(t) \X Cuts(t)
      <4>1. p[1] \in 0..k /\ p[2] \in 0..k
        BY <1>1, <2>1, <2>2
      <4>2. p = <<p[1], p[2]>>
        BY <1>3, <1>4
      <4>3. p[1] \in Cuts(t) /\ p[2] \in Cuts(t)
        BY <1>2, <2>1, <4>1
      <4> QED BY <2>2, <4>2, <4>3
    <3>2. ASSUME NEW c \in Cuts(t) PROVE c <= p[1] \/ c >= p[2]
      <4>1. c \in 0..n + 2
        BY <1>1, <3>2
      <4>2. CASE c <= k
        <5>1. c \in Cuts(s)
          BY <1>1, <1>2, <3>2, <4>1, <4>2
        <5> QED BY <2>1, <5>1
      <4>3. CASE c > k
        BY <1>1, <2>1, <2>2, <4>1, <4>3
      <4> QED BY <1>1, <4>1, <4>2, <4>3
    <3> QED BY <2>1, <3>1, <3>2 DEF Between
  <2>3. CASE p[2] > k
    <3> DEFINE d == <<p[1] + 1, p[2] + 1>>
    <3>1. up(p) = d /\ d \in Cuts(t) \X Cuts(t)
      <4>1. p[1] >= k /\ p[2] \in (k + 1)..(n + 1)
        BY <1>1, <2>1, <2>3
      <4>2. p[2] + 1 \in Cuts(t)
        BY <1>2, <2>1, <4>1
      <4>3. p[1] + 1 \in Cuts(t)
        <5>1. CASE p[1] = k
          BY <1>2, <5>1
        <5>2. CASE p[1] # k
          <6>1. p[1] \in (k + 1)..(n + 1)
            BY <1>1, <2>1, <4>1, <5>2
          <6> QED BY <1>2, <2>1, <6>1
        <5> QED BY <5>1, <5>2
      <4>4. ~(p[2] <= k)
        BY <1>1, <2>1, <2>3
      <4> QED BY <4>2, <4>3, <4>4
    <3>2. ASSUME NEW c \in Cuts(t) PROVE c <= p[1] + 1 \/ c >= p[2] + 1
      <4>1. c \in 0..n + 2
        BY <1>1, <3>2
      <4>2. CASE c <= k + 1
        BY <1>1, <2>1, <2>3, <4>1, <4>2
      <4>3. CASE c > k + 1
        <5>1. c - 1 \in (k + 1)..(n + 1) /\ (c - 1) + 1 = c
          BY <1>1, <4>1, <4>3
        <5>2. c - 1 \in Cuts(s)
          BY <1>2, <3>2, <5>1
        <5> QED BY <2>1, <4>1, <5>2
      <4> QED BY <1>1, <4>1, <4>2, <4>3
    <3>3. d[1] + 1 < d[2] /\ d[1] = p[1] + 1 /\ d[2] = p[2] + 1
      BY <2>1
    <3> QED BY <3>1, <3>2, <3>3 DEF Between
  <2> QED BY <1>1, <2>1, <2>2, <2>3
<1>5. ASSUME NEW p \in S
      PROVE  \/ p[2] <= k /\ f[p] = p
             \/ p[1] >= k /\ p[2] > k /\ f[p] = <<p[1] + 1, p[2] + 1>> /\ f[p][1] = p[1] + 1 /\ f[p][2] = p[2] + 1
  BY <1>1, <1>3, <1>5
<1>6. ASSUME NEW c \in S, NEW d \in S PROVE c[1] <= d[1] <=> f[c][1] <= f[d][1]
  <2> HIDE DEF f, S
  <2> QED BY <1>1, <1>3, <1>5, <1>6
<1>7. ASSUME NEW d \in T PROVE \E p \in S : f[p] = d
  <2>1. /\ d = <<d[1], d[2]>> /\ d[1] \in Nat /\ d[2] \in Nat /\ d[1] \in Cuts(t) /\ d[2] \in Cuts(t)
        /\ d[1] + 1 < d[2] /\ d[2] <= n + 2
        /\ \A c \in Cuts(t) : c <= d[1] \/ c >= d[2]
    BY <1>1, <1>7, BetweenType
  <2>2. k <= d[1] \/ k >= d[2]
    BY <1>2, <2>1
  <2>3. k + 1 <= d[1] \/ k + 1 >= d[2]
    BY <1>2, <2>1
  <2>4. CASE d[2] <= k
    <3>1. d[1] \in 0..k /\ d[2] \in 0..k
      BY <1>1, <2>1, <2>4
    <3>2. d[1] \in Cuts(s) /\ d[2] \in Cuts(s)
      BY <1>2, <2>1, <3>1
    <3>3. ASSUME NEW c \in Cuts(s) PROVE c <= d[1] \/ c >= d[2]
      <4>1. CASE c <= k
        <5>1. c \in Cuts(t)
          BY <1>1, <1>2, <3>3, <4>1
        <5> QED BY <2>1, <5>1
      <4>2. CASE c > k
        BY <1>1, <2>1, <2>4, <3>3, <4>2
      <4> QED BY <1>1, <3>3, <4>1, <4>2
    <3>4. d \in S
      BY <2>1, <3>2, <3>3 DEF Between
    <3>5. f[d] = d
      BY <2>4, <3>4
    <3> QED BY <3>4, <3>5
  <2>5. CASE k + 1 <= d[1]
    <3> DEFINE a == d[1] - 1
               b == d[2] - 1
               p == <<a, b>>
    <3>1. a \in Nat /\ b \in Nat /\ a >= k /\ b \in (k + 1)..(n + 1) /\ a + 1 = d[1] /\ b + 1 = d[2] /\ a + 1 < b /\ a <= n + 1
      BY <1>1, <2>1, <2>5
    <3>2. b \in Cuts(s)
      BY <1>2, <2>1, <3>1
    <3>3. a \in Cuts(s)
      <4>1. CASE a = k
        BY <1>2, <4>1
      <4>2. CASE a # k
        <5>1. a \in (k + 1)..(n + 1)
          BY <1>1, <3>1, <4>2
        <5> QED BY <1>2, <2>1, <3>1, <5>1
      <4> QED BY <4>1, <4>2
    <3>4. ASSUME NEW c \in Cuts(s) PROVE c <= a \/ c >= b
      <4>1. CASE c <= k
        BY <1>1, <3>1, <3>4, <4>1
      <4>2. CASE c > k
        <5>1. c \in (k + 1)..(n + 1)
          BY <1>1, <3>4, <4>2
        <5>2. c + 1 \in Cuts(t)
          BY <1>2, <3>4, <5>1
        <5>3. c + 1 <= d[1] \/ c + 1 >= d[2]
          BY <2>1, <5>2
        <5>4. c \in Nat
          BY <1>1, <5>1
        <5> HIDE DEF a, b
        <5> QED BY <2>1, <3>1, <5>3, <5>4
      <4> QED BY <1>1, <3>4, <4>1, <4>2
    <3>5. p \in S
      BY <3>1, <3>2, <3>3, <3>4 DEF Between
    <3>6. f[p] = d
      <4>1. ~(p[2] <= k)
        BY <1>1, <3>1
      <4> QED BY <2>1, <3>1, <3>5, <4>1
    <3> QED BY <3>5, <3>6
  <2> QED BY <1>1, <2>1, <2>2, <2>3, <2>4, <2>5
<1>8. f \in Bijection(S, T)
  <2>1. f \in [S -> T]
    BY <1>4
  <2>2. ASSUME NEW c \in S, NEW d \in S, f[c] = f[d] PROVE c = d
    <3>1. c[1] = d[1]
      <4>1. c[1] \in Nat /\ d[1] \in Nat /\ f[c][1] \in Nat
        BY <1>3, <1>5, <2>2
      <4>2. c[1] <= d[1] /\ d[1] <= c[1]
        <5> HIDE DEF f, S
        <5> QED BY <1>6, <2>2, <4>1
      <4> QED BY <4>1, <4>2
    <3> QED BY <2>2, <3>1, BetweenType
  <2> HIDE DEF f, S, T
  <2> QED BY <1>7, <2>1, <2>2 DEF Bijection, Injection, Surjection, IsInjective
<1>9. ASSUME NEW c \in S PROVE SubSeq(t, f[c][1] + 1, f[c][2] - 1) = SubSeq(s, c[1] + 1, c[2] - 1)
  <2>1. c[1] \in Nat /\ c[2] \in Nat /\ c[1] + 1 < c[2] /\ c[2] <= n + 1
    BY <1>3, <1>9
  <2> DEFINE a == c[1]
             b == c[2]
  <2>2. CASE b <= k /\ f[c] = c
    <3> DEFINE h == 0
    <3>1. a + h + 1 = a + 1 /\ b + h - 1 = b - 1 /\ h \in Nat /\ b + h <= Len(t) + 1
      BY <1>1, <2>1
    <3>2. \A i \in (a + 1)..(b - 1) : t[i + h] = s[i]
      BY <1>1, <2>1, <2>2
    <3> HIDE DEF h, a, b
    <3>3. SubSeq(t, a + h + 1, b + h - 1) = SubSeq(s, a + 1, b - 1)
      BY <2>1, <3>1, <3>2, SamePart DEF a, b
    <3> QED BY <2>2, <3>1, <3>3 DEF a, b
  <2>3. CASE a >= k /\ f[c][1] = a + 1 /\ f[c][2] = b + 1
    <3> DEFINE h == 1
    <3>1. a + h + 1 = (a + 1) + 1 /\ b + h - 1 = (b + 1) - 1 /\ h \in Nat /\ b + h <= Len(t) + 1
      BY <1>1, <2>1
    <3>2. \A i \in (a + 1)..(b - 1) : t[i + h] = s[i]
      BY <1>1, <2>1, <2>3
    <3> HIDE DEF h, a, b
    <3>3. SubSeq(t, a + h + 1, b + h - 1) = SubSeq(s, a + 1, b - 1)
      BY <2>1, <3>1, <3>2, SamePart DEF a, b
    <3> QED BY <2>3, <3>1, <3>3 DEF a, b
  <2> HIDE DEF f
  <2> QED BY <1>5, <1>9, <2>2, <2>3
<1> HIDE DEF f, n
<1> QED BY <1>6, <1>8, <1>9, SegmentsAgree

LEMMA ExtraSlash ==
  ASSUME NEW p \in CharSeq, NEW q \in CharSeq, p = <<>> \/ Last(p) = Slash
  PROVE  Segments((p \o <<Slash>>) \o q) = Segments(p \o q)
<1> DEFINE s == p \o q
           u == p \o <<Slash>>
           t == u \o q
           k == Len(p)
<1>1. k \in Nat /\ Len(q) \in Nat /\ <<Slash>> \in CharSeq /\ Len(<<Slash>>) = 1
  BY DEF CharSeq, Slash
<1>2. /\ s \in CharSeq /\ Len(s) = k + Len(q)
      /\ \A i \in 1..k : s[i] = p[i]
      /\ \A i \in 1..Len(q) : s[k + i] = q[i]
  BY <1>1, ConcatProperties DEF CharSeq
<1>3. u \in CharSeq /\ Len(u) = k + 1 /\ u[k + 1] = Slash /\ \A i \in 1..k : u[i] = p[i]
  BY <1>1, ConcatProperties DEF CharSeq
<1> HIDE DEF u, s
<1>4. /\ t \in CharSeq /\ Len(t) = k + 1 + Len(q)
      /\ \A i \in 1..k + 1 : t[i] = u[i]
      /\ \A i \in 1..Len(q) : t[k + 1 + i] = q[i]
  <2>1. u \in Seq(Nat) /\ q \in Seq(Nat)
    BY <1>3 DEF CharSeq
  <2>2. /\ u \o q \in Seq(Nat) /\ Len(u \o q) = Len(u) + Len(q)
        /\ \A i \in 1..Len(u) + Len(q) : (u \o q)[i] = IF i <= Len(u) THEN u[i] ELSE q[i - Len(u)]
    BY <2>1, ConcatProperties
  <2>3. t \in CharSeq /\ Len(t) = k + 1 + Len(q)
    BY <1>3, <2>2 DEF CharSeq
  <2> HIDE DEF t, k
  <2>4. ASSUME NEW i \in 1..k + 1 PROVE t[i] = u[i]
    BY <1>1, <1>3, <2>2, <2>4 DEF t
  <2>5. ASSUME NEW i \in 1..Len(q) PROVE t[k + 1 + i] = q[i]
    BY <1>1, <1>3, <2>2, <2>5 DEF t
  <2> QED BY <2>3, <2>4, <2>5
<1> HIDE DEF t
<1>5. k \in 0..Len(s) /\ Len(t) = Len(s) + 1
  BY <1>1, <1>2, <1>4
<1>6. (\A i \in 1..k : t[i] = s[i]) /\ t[k + 1] = Slash
  BY <1>1, <1>2, <1>3, <1>4
<1>7. ASSUME NEW i \in (k + 1)..Len(s) PROVE t[i + 1] = s[i]
  <2>1. i - k \in 1..Len(q) /\ k + 1 + (i - k) = i + 1 /\ k + (i - k) = i
    BY <1>1, <1>2, <1>7
  <2>2. t[k + 1 + (i - k)] = q[i - k]
    BY <1>4, <2>1
  <2>3. s[k + (i - k)] = q[i - k]
    BY <1>2, <2>1
  <2> HIDE DEF k
  <2> QED BY <2>1, <2>2, <2>3
<1>8. k = 0 \/ s[k] = Slash
  <2>1. CASE p = <<>>
    BY <2>1
  <2>2. CASE k # 0 /\ Last(p) = Slash
    BY <1>1, <1>2, <2>2 DEF Last
  <2> QED BY <2>1, <2>2
<1> HIDE DEF k
<1> QED BY <1>2, <1>4, <1>5, <1>6, <1>7, <1>8, DoubledSlash DEF s, t, u

-----------------------------------------------------------------------------
(* The names of files *)

\* A text without its first and last characters.
Inside(s) == SubSeq(s, 2, Len(s) - 1)

\* The directory of a location, as the handlers write it before a name.
Base(root) == root \o (IF Last(root) = Slash THEN <<>> ELSE <<Slash>>)

LEMMA BaseType ==
  ASSUME NEW root \in CharSeq
  PROVE  Base(root) \in CharSeq /\ (Base(root) = <<>> \/ Last(Base(root)) = Slash)
<1>1. CASE Last(root) = Slash
  <2>1. Base(root) = root \o <<>>
    BY <1>1 DEF Base
  <2>2. Base(root) = root
    BY <2>1, ConcatEmptySeq DEF CharSeq
  <2> QED BY <1>1, <2>2
<1>2. CASE Last(root) # Slash
  <2>1. Base(root) = root \o <<Slash>> /\ root \in Seq(Nat) /\ <<Slash>> \in Seq(Nat) /\ Len(<<Slash>>) = 1
    BY <1>2 DEF Base, CharSeq, Slash
  <2>2. /\ Base(root) \in Seq(Nat) /\ Len(Base(root)) = Len(root) + 1
        /\ \A i \in 1..Len(root) + 1 : Base(root)[i] = IF i <= Len(root) THEN root[i] ELSE <<Slash>>[i - Len(root)]
    BY <2>1, ConcatProperties
  <2>3. Base(root)[Len(root) + 1] = Slash
    BY <2>1, <2>2
  <2> QED BY <2>2, <2>3 DEF Last, CharSeq
<1> QED BY <1>1, <1>2

LEMMA InsideType == ASSUME NEW s \in CharSeq PROVE Inside(s) \in CharSeq
<1>1. Len(s) \in Nat /\ \A i \in 2..Len(s) - 1 : s[i] \in Nat
  BY DEF CharSeq
<1> QED BY <1>1, SubSeqProperties DEF Inside, CharSeq

LEMMA ReadNameIs ==
  ASSUME NEW root \in CharSeq, NEW rest \in CharSeq
  PROVE  ReadName(root, rest) = Base(root) \o Inside(rest)
<1>1. Len(rest) \in Nat
  BY DEF CharSeq
<1>2. 2 + (Len(rest) - 2) - 1 = Len(rest) - 1 /\ ~(2 + (Len(rest) - 2) - 1 > Len(rest))
  BY <1>1
<1>3. Sub(rest, 2, Len(rest) - 2) = Inside(rest)
  BY <1>2 DEF Sub, Inside
<1> QED BY <1>3 DEF ReadName, Base

\* A slash between a directory and a name makes no difference when there is one already.
LEMMA SlashOrNot ==
  ASSUME NEW root \in CharSeq, NEW x \in CharSeq
  PROVE  /\ SameName((root \o <<Slash>>) \o x, Base(root) \o x)
         /\ SameName((Base(root) \o <<Slash>>) \o x, Base(root) \o x)
<1>1. SameName((Base(root) \o <<Slash>>) \o x, Base(root) \o x)
  BY BaseType, ExtraSlash DEF SameName
<1>2. CASE Last(root) = Slash
  <2>1. Base(root) = root
    BY <1>2, ConcatEmptySeq DEF Base, CharSeq
  <2> QED BY <1>1, <2>1
<1>3. CASE Last(root) # Slash
  <2>1. Base(root) = root \o <<Slash>>
    BY <1>3 DEF Base
  <2> QED BY <1>1, <2>1 DEF SameName
<1> QED BY <1>1, <1>2, <1>3

\* What each handler makes of a rest that begins with a slash.
LEMMA NamesAgree ==
  ASSUME NEW root \in CharSeq, NEW r, NEW rest \in CharSeq, Len(rest) > 1, rest[1] = Slash,
         RequestedFile(r) = <<>>
  PROVE  /\ SameName(SaveName(root, r, rest), ReadName(root, rest))
         /\ SameName(DeleteName(root, rest), ReadName(root, rest))
<1> DEFINE n == Len(rest)
           x == Inside(rest)
<1>1. n \in Nat /\ n > 1 /\ rest \in Seq(Nat) /\ rest # <<>>
  BY DEF CharSeq
<1>2. x \in CharSeq
  BY InsideType
<1>3. SaveName(root, r, rest) = (root \o <<Slash>>) \o x
  <2>1. Len(Tail(rest)) = n - 1 /\ Tail(rest) = SubSeq(rest, 2, n)
    BY <1>1, HeadTailProperties, TailIsSubSeq
  <2>2. SubSeq(Tail(rest), 1, n - 2) = SubSeq(rest, 2, n - 1)
    <3>1. CASE n = 2
      BY <2>1, <3>1, SubSeqEmpty
    <3>2. CASE n > 2
      <4>1. 2 \in 1..n /\ n \in 1..n /\ 1 \in 1..n - 2 + 1 /\ n - 2 \in 1..n - 2 + 1 /\ 2 + 1 - 1 = 2 /\ 2 + (n - 2) - 1 = n - 1
        BY <1>1, <3>2
      <4>2. SubSeq(SubSeq(rest, 2, n), 1, n - 2) = SubSeq(rest, 2 + 1 - 1, 2 + (n - 2) - 1)
        <5> HIDE DEF n
        <5> QED BY <1>1, <4>1, SubSeqOfSubSeq DEF n
      <4> QED BY <2>1, <4>1, <4>2
    <3> QED BY <1>1, <3>1, <3>2
  <2>3. SavedFile(r, rest) = Tail(rest) /\ Len(SavedFile(r, rest)) - 1 = n - 2
    BY <1>1, <2>1 DEF SavedFile
  <2> QED BY <2>2, <2>3 DEF SaveName, Inside
<1>4. DeleteName(root, rest) = (root \o <<Slash>>) \o x
  <2>1. SubSeq(rest, 1, n - 1) = <<Slash>> \o x
    <3>1. 1 \in 1..n /\ n - 1 \in 1..n /\ 1 + 1 = 2
      BY <1>1
    <3>2. SubSeq(rest, 1, n - 1) = <<rest[1]>> \o SubSeq(rest, 1 + 1, n - 1)
      <4> HIDE DEF n
      <4>1. n - 1 \in 1..Len(rest)
        BY <3>1 DEF n
      <4> QED BY <1>1, <3>1, <4>1, SubSeqRecursiveFirst DEF n
    <3> QED BY <3>1, <3>2 DEF Inside
  <2>2. (root \o <<Slash>>) \o x = root \o (<<Slash>> \o x)
    <3>1. root \in Seq(Nat) /\ <<Slash>> \in Seq(Nat) /\ x \in Seq(Nat)
      BY <1>2 DEF CharSeq, Slash
    <3> QED BY <3>1, ConcatAssociative
  <2> QED BY <2>1, <2>2 DEF DeleteName
<1>5. ReadName(root, rest) = Base(root) \o x
  BY ReadNameIs
<1> QED BY <1>2, <1>3, <1>4, <1>5, SlashOrNot

-----------------------------------------------------------------------------
(* The place that serves a request *)

\* The location that answers a request is one of those that were read for the server,
\* and its directory has a name that is known.
LEMMA RootType ==
  ASSUME LoadInv, OfTheSite, Served
  PROVE  Root \in CharSeq
<1>1. site \in DOMAIN servers /\ Location \in Paths(site)
  BY DEF OfTheSite, Served, Settled
<1> DEFINE locations == servers[site].locations
<1>2. locations \in Locations
  <2>1. servers[site] \in Usable
    BY <1>1, ElementType DEF LoadInv, Kept
  <2> QED BY <2>1 DEF Usable, Servers
<1>3. \E p \in DOMAIN locations : Chars(p) = Location
  BY <1>1 DEF Paths
<1> DEFINE p == CHOOSE q \in DOMAIN locations : Chars(q) = Location
<1>4. p \in DOMAIN locations
  BY <1>3
<1>5. locations[p] \in Finals
  <2> HIDE DEF p, locations
  <2> QED BY <1>2, <1>4, MapsType DEF Locations
<1>6. Place = locations[p]
  BY DEF Place
<1> HIDE DEF p, locations
<1>7. Place.alias \in Written
  BY <1>5, <1>6 DEF Finals, Places
<1> QED BY <1>7 DEF Root, Written

\* What it leaves of the route.
LEMMA LocationFits ==
  ASSUME RoutingInv, Settled, Location \in Range(order)
  PROVE  /\ Location \in CharSeq
         /\ Location # <<Slash>> => Matches(route, Location)
<1>1. Location \in CharSeq
  BY DEF RoutingInv, Range
<1>2. ASSUME Location # <<Slash>> PROVE Matches(route, Location)
  <2>1. found # <<>> /\ Location = found
    BY <1>2 DEF Location, LocationOf
  <2>2. next = Len(order) + 1
    BY DEF RoutingInv, Settled
  <2> QED BY <2>1 DEF RoutingInv, Best
<1> QED BY <1>1, <1>2

LEMMA MatchShorter ==
  ASSUME NEW r \in CharSeq, NEW p \in CharSeq, Matches(r, p)
  PROVE  Len(p) <= Len(r)
<1>1. CASE p = r
  BY <1>1 DEF CharSeq
<1>2. CASE IsPrefix(p, r)
  BY <1>2 DEF IsPrefix
<1> QED BY <1>1, <1>2 DEF Matches

LEMMA SuffixType ==
  ASSUME NEW s \in CharSeq, NEW k \in 1..Len(s)
  PROVE  /\ SubSeq(s, k, Len(s)) \in CharSeq
         /\ Len(SubSeq(s, k, Len(s))) = Len(s) - k + 1
         /\ \A i \in 1..Len(s) - k + 1 : SubSeq(s, k, Len(s))[i] = s[k + i - 1]
<1>1. Len(s) \in Nat /\ k \in Int /\ k <= Len(s) /\ \A i \in k..Len(s) : s[i] \in Nat
  BY DEF CharSeq
<1> QED BY <1>1, SubSeqProperties DEF CharSeq

\* What is uploaded, read and deleted under a path is one file, whatever the configuration
\* and whatever is asked for.
LEMMA FilesOne == ASSUME LoadInv, OfTheSite, RoutingInv PROVE SameFile
<1> SUFFICES ASSUME Served, Last(Location) = Slash, RequestedFile(route) = <<>>,
                    Len(Rest(route, Location)) > 1, route[1] = Slash
             PROVE  /\ SameName(SaveName(Root, route, Rest(route, Location)), ReadName(Root, Rest(route, Location)))
                    /\ SameName(DeleteName(Root, Rest(route, Location)), ReadName(Root, Rest(route, Location)))
  BY DEF SameFile
<1> DEFINE rest == Rest(route, Location)
<1>1. Root \in CharSeq
  BY RootType
<1>2. route \in CharSeq /\ Location \in CharSeq /\ (Location # <<Slash>> => Matches(route, Location))
  BY LocationFits DEF RoutingInv, Served
<1>3. rest \in CharSeq /\ rest[1] = Slash
  <2>1. CASE Location = <<Slash>>
    BY <1>2, <2>1 DEF Rest
  <2>2. CASE Location # <<Slash>>
    <3>1. rest = SubSeq(route, Len(Location), Len(route))
      BY <2>2 DEF Rest
    <3>2. Len(Location) <= Len(route) /\ Len(Location) \in Nat /\ Len(route) \in Nat
      BY <1>2, <2>2, MatchShorter DEF CharSeq
    <3>3. Len(Location) >= 1
      <4>1. Matches(route, Location)
        BY <1>2, <2>2
      <4>2. CASE Len(Location) >= 2
        BY <4>2
      <4>3. CASE Location = route /\ Len(Location) = 0
        <5>1. rest = SubSeq(route, 0, 0) /\ Len(route) = 0
          BY <3>1, <4>3
        <5>2. \A i \in 0..0 : route[i] \in {route[0]}
          OBVIOUS
        <5>3. Len(rest) = 1
          BY <5>1, <5>2, SubSeqProperties
        <5> QED BY <5>3
      <4> QED BY <3>2, <4>1, <4>2, <4>3 DEF Matches
    <3>4. Len(Location) \in 1..Len(route) /\ Len(Location) \in 1..Len(Location)
      BY <3>2, <3>3
    <3>5. rest \in CharSeq /\ rest[1] = route[Len(Location)]
      <4>1. 1 \in 1..Len(route) - Len(Location) + 1 /\ Len(Location) + 1 - 1 = Len(Location)
        BY <3>2
      <4> QED BY <1>2, <3>1, <3>4, <4>1, SuffixType
    <3>6. Location[Len(Location)] = route[Len(Location)]
      BY <1>2, <2>2, <3>4, MatchAgrees
    <3> QED BY <3>5, <3>6 DEF Last
  <2> QED BY <2>1, <2>2
<1> HIDE DEF rest
<1> QED BY <1>1, <1>3, NamesAgree DEF rest

-----------------------------------------------------------------------------
(* Links *)

Lacks(s, c) == \A i \in DOMAIN s : s[i] # c

\* What setRoute makes of a target.
Shaped(r) ==
  \/ r = <<Dot, Slash>>
  \/ r \in CharSeq /\ Len(r) >= 1 /\ r[1] = Slash /\ Last(r) = Slash /\ Lacks(r, Query)

\* Without a query, nothing is cut.
LEMMA BeforePlain == ASSUME NEW s, NEW c, Lacks(s, c) PROVE Before(s, c) = s
  BY DEF Before, Lacks

LEMMA BeforeShape ==
  ASSUME NEW s \in CharSeq, NEW c, s # <<>>, s[1] # c
  PROVE  /\ Before(s, c) \in CharSeq /\ Len(Before(s, c)) >= 1 /\ Before(s, c)[1] = s[1]
         /\ Lacks(Before(s, c), c)
<1> DEFINE at == {i \in DOMAIN s : s[i] = c}
<1>1. Len(s) \in Nat /\ Len(s) >= 1 /\ DOMAIN s = 1..Len(s)
  BY DEF CharSeq
<1>2. CASE at = {}
  BY <1>1, <1>2 DEF Before, Lacks
<1>3. CASE at # {}
  <2>1. at \subseteq Nat
    BY <1>1
  <2>2. PICK m \in at : \A i \in at : m <= i
    BY <1>3, <2>1, LeastNatural
  <2>3. Min(at) \in at /\ \A i \in at : Min(at) <= i
    BY <2>2 DEF Min
  <2>4. Before(s, c) = SubSeq(s, 1, Min(at) - 1)
    BY <1>3 DEF Before
  <2>5. Min(at) \in 1..Len(s) /\ Min(at) # 1
    BY <1>1, <2>3
  <2> DEFINE n == Min(at) - 1
  <2>6. n \in 1..Len(s) /\ \A i \in 1..n : i \in DOMAIN s /\ i \notin at
    <3>1. n \in 1..Len(s) /\ \A i \in 1..n : i \in 1..Len(s) /\ ~(Min(at) <= i)
      <4> HIDE DEF at
      <4> QED BY <1>1, <2>5
    <3> HIDE DEF at, n
    <3> QED BY <1>1, <2>3, <3>1
  <2>7. \A i \in 1..n : s[i] # c
    BY <2>6
  <2> HIDE DEF at, n
  <2>8. \A i \in 1..n : s[i] \in Nat
    BY <2>6 DEF CharSeq
  <2>9. /\ SubSeq(s, 1, n) \in Seq(Nat) /\ Len(SubSeq(s, 1, n)) = n
        /\ \A i \in 1..n : SubSeq(s, 1, n)[i] = s[i]
    <3>1. 1 \in Int /\ n \in Int /\ 1 <= n /\ n - 1 + 1 = n
      BY <1>1, <2>6
    <3>2. /\ SubSeq(s, 1, n) \in Seq(Nat) /\ Len(SubSeq(s, 1, n)) = IF 1 <= n THEN n - 1 + 1 ELSE 0
          /\ \A i \in 1..n - 1 + 1 : SubSeq(s, 1, n)[i] = s[1 + i - 1]
      BY <2>8, <3>1, SubSeqProperties
    <3>3. \A i \in 1..n : 1 + i - 1 = i
      BY <3>1
    <3> QED BY <3>1, <3>2, <3>3
  <2>10. Before(s, c) = SubSeq(s, 1, n)
    BY <2>4 DEF n
  <2>11. DOMAIN SubSeq(s, 1, n) = 1..n /\ 1 \in 1..n
    BY <1>1, <2>6, <2>9
  <2> DEFINE b == SubSeq(s, 1, n)
  <2>12. b \in CharSeq /\ Len(b) >= 1 /\ b[1] = s[1] /\ \A i \in DOMAIN b : b[i] # c
    <3> HIDE DEF b
    <3> QED BY <1>1, <2>6, <2>7, <2>9, <2>11 DEF CharSeq, b
  <2> QED BY <2>10, <2>12 DEF Lacks
<1> QED BY <1>2, <1>3

LEMMA WithSlash ==
  ASSUME NEW s \in CharSeq, Len(s) >= 1
  PROVE  /\ Append(s, Slash) \in CharSeq /\ Len(Append(s, Slash)) = Len(s) + 1
         /\ Append(s, Slash)[1] = s[1] /\ Last(Append(s, Slash)) = Slash
         /\ \A c : c # Slash /\ Lacks(s, c) => Lacks(Append(s, Slash), c)
<1>1. Len(s) \in Nat /\ DOMAIN s = 1..Len(s) /\ Slash \in Nat
  BY DEF CharSeq, Slash
<1> DEFINE t == Append(s, Slash)
<1>2. /\ t \in Seq(Nat) /\ Len(t) = Len(s) + 1 /\ t[Len(s) + 1] = Slash /\ \A i \in 1..Len(s) : t[i] = s[i]
  BY <1>1, AppendProperties DEF CharSeq
<1> HIDE DEF t
<1>3. DOMAIN t = 1..Len(s) + 1 /\ 1 \in 1..Len(s)
  BY <1>1, <1>2
<1>4. \A i \in 1..Len(s) + 1 : i \in 1..Len(s) \/ i = Len(s) + 1
  BY <1>1
<1>5. ASSUME NEW c, c # Slash, Lacks(s, c) PROVE Lacks(t, c)
  BY <1>1, <1>2, <1>3, <1>4, <1>5 DEF Lacks
<1> QED BY <1>2, <1>3, <1>5 DEF t, Last, CharSeq

LEMMA RouteShape == ASSUME NEW target \in Targets PROVE Shaped(Route(target))
<1>1. target \in CharSeq /\ target # <<>> /\ target[1] = Slash
  BY TargetsAssumption
<1> DEFINE r == Before(target, Query)
<1>2. r \in CharSeq /\ Len(r) >= 1 /\ r[1] = Slash /\ Lacks(r, Query)
  BY <1>1, BeforeShape DEF Slash, Query
<1>3. CASE Len(target) = 1
  BY <1>3 DEF Route, Shaped
<1>4. CASE Len(target) # 1 /\ Last(r) = Slash
  BY <1>2, <1>4 DEF Route, Shaped
<1>5. CASE Len(target) # 1 /\ Last(r) # Slash
  <2>1. Route(target) = Append(r, Slash)
    BY <1>5 DEF Route
  <2>2. Slash # Query
    BY DEF Slash, Query
  <2> HIDE DEF r
  <2> QED BY <1>2, <2>1, <2>2, WithSlash DEF Shaped
<1> QED BY <1>3, <1>4, <1>5

\* The route of a page without query that has two characters or more.
LEMMA RouteOf ==
  ASSUME NEW x \in CharSeq, Len(x) >= 2, Lacks(x, Query), Last(x) # Slash
  PROVE  Route(x) = Append(x, Slash)
<1>1. Len(x) # 1
  OBVIOUS
<1>2. Before(x, Query) = x
  BY BeforePlain
<1> QED BY <1>1, <1>2 DEF Route

\* The parts of a joined text.
LEMMA JoinedParts ==
  ASSUME NEW a \in CharSeq, NEW b \in CharSeq
  PROVE  /\ a \o b \in CharSeq /\ Len(a \o b) = Len(a) + Len(b)
         /\ \A i \in 1..Len(a) : (a \o b)[i] = a[i]
         /\ \A i \in 1..Len(b) : (a \o b)[Len(a) + i] = b[i]
<1>1. /\ a \o b \in Seq(Nat) /\ Len(a \o b) = Len(a) + Len(b)
      /\ \A i \in 1..Len(a) + Len(b) : (a \o b)[i] = IF i <= Len(a) THEN a[i] ELSE b[i - Len(a)]
  BY ConcatProperties DEF CharSeq
<1>2. Len(a) \in Nat /\ Len(b) \in Nat
  BY DEF CharSeq
<1> DEFINE t == a \o b
<1> HIDE DEF t
<1>3. ASSUME NEW i \in 1..Len(a) PROVE t[i] = a[i]
  BY <1>1, <1>2, <1>3 DEF t
<1>4. ASSUME NEW i \in 1..Len(b) PROVE t[Len(a) + i] = b[i]
  BY <1>1, <1>2, <1>4 DEF t
<1> QED BY <1>1, <1>3, <1>4 DEF t, CharSeq

LEMMA JoinedPlain ==
  ASSUME NEW a \in CharSeq, NEW b \in CharSeq, NEW c, Lacks(a, c), Lacks(b, c)
  PROVE  Lacks(a \o b, c)
<1> DEFINE t == a \o b
<1>1. /\ t \in CharSeq /\ Len(t) = Len(a) + Len(b)
      /\ \A i \in 1..Len(a) : t[i] = a[i]
      /\ \A i \in 1..Len(b) : t[Len(a) + i] = b[i]
  BY JoinedParts
<1>2. Len(a) \in Nat /\ Len(b) \in Nat /\ DOMAIN a = 1..Len(a) /\ DOMAIN b = 1..Len(b)
  BY DEF CharSeq
<1> HIDE DEF t
<1>3. ASSUME NEW i \in DOMAIN t PROVE t[i] # c
  <2>1. i \in 1..Len(a) \/ (i - Len(a) \in 1..Len(b) /\ Len(a) + (i - Len(a)) = i)
    BY <1>1, <1>2, <1>3 DEF CharSeq
  <2> QED BY <1>1, <1>2, <2>1 DEF Lacks
<1> QED BY <1>3 DEF Lacks, t

\* The end of a joined text, from a place in its first part on.
LEMMA SuffixJoined ==
  ASSUME NEW a \in CharSeq, NEW b \in CharSeq, NEW k \in 1..Len(a)
  PROVE  SubSeq(a \o b, k, Len(a \o b)) = SubSeq(a, k, Len(a)) \o b
<1> DEFINE t == a \o b
           x == SubSeq(a, k, Len(a))
           y == SubSeq(t, k, Len(t))
           n == Len(a) - k + 1
<1>1. /\ t \in CharSeq /\ Len(t) = Len(a) + Len(b)
      /\ \A i \in 1..Len(a) : t[i] = a[i]
      /\ \A i \in 1..Len(b) : t[Len(a) + i] = b[i]
  BY JoinedParts
<1>2. Len(a) \in Nat /\ Len(b) \in Nat /\ n \in Nat /\ k \in Nat /\ k >= 1 /\ k <= Len(a)
  BY DEF CharSeq
<1>3. x \in CharSeq /\ Len(x) = n /\ \A i \in 1..n : x[i] = a[k + i - 1]
  BY SuffixType
<1> HIDE DEF t, n
<1>4. y \in CharSeq /\ Len(y) = n + Len(b) /\ \A i \in 1..n + Len(b) : y[i] = t[k + i - 1]
  <2>1. k \in 1..Len(t)
    BY <1>1, <1>2
  <2>2. Len(t) - k + 1 = n + Len(b)
    BY <1>1, <1>2 DEF n
  <2>3. /\ y \in CharSeq /\ Len(y) = Len(t) - k + 1
        /\ \A i \in 1..Len(t) - k + 1 : y[i] = t[k + i - 1]
    BY <1>1, <2>1, SuffixType
  <2> HIDE DEF y
  <2> QED BY <2>2, <2>3
<1> HIDE DEF x, y
<1>5. /\ x \o b \in CharSeq /\ Len(x \o b) = n + Len(b)
      /\ \A i \in 1..n : (x \o b)[i] = x[i]
      /\ \A i \in 1..Len(b) : (x \o b)[n + i] = b[i]
  BY <1>3, JoinedParts
<1>6. ASSUME NEW i \in 1..n + Len(b) PROVE y[i] = (x \o b)[i]
  <2>1. CASE i \in 1..n
    <3>1. k + i - 1 \in 1..Len(a)
      BY <1>2, <2>1 DEF n
    <3>2. y[i] = t[k + i - 1]
      BY <1>4, <1>6
    <3>3. t[k + i - 1] = a[k + i - 1]
      BY <1>1, <3>1
    <3>4. (x \o b)[i] = a[k + i - 1]
      BY <1>3, <1>5, <2>1
    <3> QED BY <3>2, <3>3, <3>4
  <2>2. CASE i > n
    <3>1. i - n \in 1..Len(b) /\ k + i - 1 = Len(a) + (i - n) /\ i = n + (i - n)
      BY <1>2, <1>6, <2>2 DEF n
    <3>2. y[i] = t[Len(a) + (i - n)]
      BY <1>4, <1>6, <3>1
    <3>3. (x \o b)[n + (i - n)] = b[i - n]
      BY <1>5, <3>1
    <3>4. t[Len(a) + (i - n)] = b[i - n]
      BY <1>1, <3>1
    <3> QED BY <3>1, <3>2, <3>3, <3>4
  <2>3. i \in 1..n \/ i > n
    BY <1>2, <1>6
  <2> QED BY <2>1, <2>2, <2>3
<1>7. y = x \o b
  BY <1>4, <1>5, <1>6, SeqEqual DEF CharSeq
<1> QED BY <1>7 DEF x, y, t

LEMMA SlashType == <<Slash>> \in CharSeq /\ Len(<<Slash>>) = 1 /\ Slash \in Nat /\ Slash # Query /\ Slash # Dot
  BY DEF CharSeq, Slash, Query, Dot

LEMMA Regroup ==
  ASSUME NEW a \in Seq(Nat), NEW b \in Seq(Nat), NEW c \in Seq(Nat)
  PROVE  (a \o b) \o c = a \o (b \o c)
  BY ConcatAssociative

LEMMA Regrouped ==
  ASSUME NEW a \in Seq(Nat), NEW b \in Seq(Nat), NEW x \in Seq(Nat)
  PROVE  a \o ((b \o <<Slash>>) \o x) = ((a \o b) \o <<Slash>>) \o x
<1> DEFINE y == b \o <<Slash>>
<1>1. <<Slash>> \in Seq(Nat)
  BY SlashType DEF CharSeq
<1>2. y \in Seq(Nat)
  BY <1>1, ConcatProperties
<1>3. (a \o b) \o <<Slash>> = a \o y
  BY <1>1, ConcatAssociative
<1> HIDE DEF y
<1>4. (a \o y) \o x = a \o (y \o x)
  BY <1>2, Regroup
<1> QED BY <1>3, <1>4 DEF y

LEMMA AppendSlash == ASSUME NEW s \in CharSeq PROVE Append(s, Slash) = s \o <<Slash>>
  BY SlashType, AppendIsConcat DEF CharSeq

\* What is inside of a directory's route with a name.
LEMMA InsideJoined ==
  ASSUME NEW a \in CharSeq, Len(a) >= 1, Last(a) = Slash, NEW x \in CharSeq, x # <<>>
  PROVE  Inside(Append(a \o x, Slash)) = IF Len(a) = 1 THEN x ELSE (Inside(a) \o <<Slash>>) \o x
<1> DEFINE s == a \o x
           n == Len(s)
<1>1. /\ Len(a) \in Nat /\ Len(a) >= 1 /\ Len(x) \in Nat /\ Len(x) >= 1 /\ a \in Seq(Nat) /\ x \in Seq(Nat)
  BY DEF CharSeq
<1>2. s \in CharSeq /\ n = Len(a) + Len(x)
  BY JoinedParts
<1>3. Inside(Append(s, Slash)) = SubSeq(s, 2, n)
  <2>1. Append(s, Slash) = s \o <<Slash>> /\ s \in Seq(Nat) /\ <<Slash>> \in Seq(Nat)
    BY <1>2, AppendSlash, SlashType DEF CharSeq
  <2>2. Len(s \o <<Slash>>) - 1 = n
    BY <1>1, <1>2, JoinedParts, SlashType
  <2> HIDE DEF s
  <2>3. 2 \in 1..n /\ n \in 1..n
    BY <1>1, <1>2
  <2>4. SubSeq(s \o <<Slash>>, 2, n) = SubSeq(s, 2, n)
    BY <2>1, <2>3, SubSeqOfConcat1
  <2> QED BY <2>1, <2>2, <2>4 DEF Inside
<1>4. CASE Len(a) = 1
  <2>1. 2 \in Len(a) + 1..Len(a) + Len(x) /\ n \in Len(a) + 1..Len(a) + Len(x) /\ 2 - Len(a) = 1 /\ n - Len(a) = Len(x)
    BY <1>1, <1>2, <1>4
  <2> HIDE DEF n
  <2>2. SubSeq(s, 2, n) = SubSeq(x, 2 - Len(a), n - Len(a))
    BY <1>1, <2>1, SubSeqOfConcat2
  <2>3. SubSeq(x, 1, Len(x)) = x
    BY <1>1, SubSeqFull
  <2> QED BY <1>3, <1>4, <2>1, <2>2, <2>3
<1>5. CASE Len(a) # 1
  <2>1. 2 \in 1..Len(a) /\ Len(a) \in 2..Len(a)
    <3>1. Len(a) >= 2
      <4>1. \A i \in Nat : i >= 1 /\ i # 1 => i >= 2
        OBVIOUS
      <4> QED BY ONLY <1>1, <1>5, <4>1
    <3> HIDE DEF s, n
    <3> QED BY <1>1, <3>1
  <2>2. SubSeq(s, 2, n) = SubSeq(a, 2, Len(a)) \o x
    BY <2>1, SuffixJoined
  <2>3. SubSeq(a, 2, Len(a)) = SubSeq(a, 2, Len(a) - 1) \o <<a[Len(a)]>>
    BY <1>1, <2>1, SubSeqRecursiveSecond
  <2> HIDE DEF s, n
  <2> QED BY <1>3, <1>5, <2>2, <2>3 DEF Inside, Last, s
<1> QED BY <1>4, <1>5

LEMMA RestJoined ==
  ASSUME NEW a \in CharSeq, NEW x \in CharSeq, NEW p \in CharSeq, p = <<Slash>> \/ Len(p) \in 1..Len(a)
  PROVE  Rest(Append(a \o x, Slash), p) = Append(Rest(a, p) \o x, Slash)
<1> DEFINE s == a \o x
<1>1. s \in CharSeq /\ Len(s) = Len(a) + Len(x) /\ Len(a) \in Nat /\ Len(x) \in Nat
  BY JoinedParts DEF CharSeq
<1>2. Append(s, Slash) = s \o <<Slash>> /\ <<Slash>> \in CharSeq
  BY <1>1, AppendSlash, SlashType
<1>3. CASE p = <<Slash>>
  BY <1>3 DEF Rest
<1>4. CASE p # <<Slash>>
  <2> DEFINE k == Len(p)
             q == SubSeq(a, k, Len(a))
  <2>1. k \in 1..Len(a) /\ k \in 1..Len(s)
    BY <1>1, <1>4
  <2>2. SubSeq(s, k, Len(s)) = q \o x
    BY <2>1, SuffixJoined
  <2>3. q \in CharSeq
    BY <2>1, SuffixType
  <2>4. q \o x \in CharSeq
    BY <2>3, JoinedParts
  <2> HIDE DEF k
  <2>5. SubSeq(s \o <<Slash>>, k, Len(s \o <<Slash>>)) = SubSeq(s, k, Len(s)) \o <<Slash>>
    <3> HIDE DEF s
    <3> QED BY <1>1, <1>2, <2>1, SuffixJoined
  <2>6. Append(q \o x, Slash) = (q \o x) \o <<Slash>>
    BY <2>4, AppendSlash
  <2> HIDE DEF s, q
  <2>7. Rest(Append(s, Slash), p) = SubSeq(s \o <<Slash>>, k, Len(s \o <<Slash>>)) /\ Rest(a, p) = q
    BY <1>2, <1>4 DEF Rest, k, q
  <2> QED BY <2>2, <2>5, <2>6, <2>7 DEF s
<1> QED BY <1>3, <1>4

\* The href of an entry is the route of its directory and its name.
LEMMA LinkIs ==
  ASSUME NEW r \in CharSeq, NEW p \in CharSeq, NEW x \in CharSeq,
         p = <<Slash>> \/ (Matches(r, p) /\ Len(p) >= 2)
  PROVE  Link(p, Rest(r, p), x) = r \o x
<1>1. CASE p = <<Slash>>
  <2>1. SubSeq(p, 1, Len(p) - 1) = <<>> /\ Rest(r, p) = r
    BY <1>1, SubSeqEmpty DEF Rest
  <2>2. <<>> \o r = r
    BY ConcatEmptySeq DEF CharSeq
  <2> QED BY <2>1, <2>2 DEF Link
<1>2. CASE p # <<Slash>>
  <2> DEFINE k == Len(p)
             n == Len(r)
  <2>1. k \in Nat /\ n \in Nat /\ k >= 2 /\ k <= n /\ r \in Seq(Nat) /\ p \in Seq(Nat)
    BY <1>2, MatchShorter DEF CharSeq
  <2>2. SubSeq(p, 1, k - 1) = SubSeq(r, 1, k - 1)
    <3>1. CASE p = r
      BY <3>1
    <3>2. CASE IsPrefix(p, r)
      <4>1. p = SubSeq(r, 1, k)
        <5>1. SubSeq(p, 1, k) = SubSeq(r, 1, k)
          BY <3>2 DEF IsPrefix
        <5>2. SubSeq(p, 1, k) = p
          BY <2>1, SubSeqFull
        <5> QED BY <5>1, <5>2
      <4>2. 1 \in 1..n /\ k \in 1..n /\ 1 \in 1..k - 1 + 1 /\ k - 1 \in 1..k - 1 + 1 /\ 1 + 1 - 1 = 1 /\ 1 + (k - 1) - 1 = k - 1
        BY <2>1
      <4> HIDE DEF n, k
      <4>3. SubSeq(SubSeq(r, 1, k), 1, k - 1) = SubSeq(r, 1 + 1 - 1, 1 + (k - 1) - 1)
        BY <2>1, <4>2, SubSeqOfSubSeq DEF n
      <4> QED BY <4>1, <4>2, <4>3
    <3> QED BY <1>2, <3>1, <3>2 DEF Matches
  <2>3. SubSeq(r, 1, k - 1) \o SubSeq(r, k, n) = r
    <3>1. 1 \in 1..n + 1 /\ k - 1 \in 0..n /\ n \in (k - 1)..n /\ k - 1 + 1 = k /\ 1 - 1 = 0
      BY <2>1
    <3> HIDE DEF k, n
    <3>2. SubSeq(r, 1, k - 1) \o SubSeq(r, k - 1 + 1, n) = SubSeq(r, 1, n)
      BY <2>1, <3>1, ConcatAdjacentSubSeq DEF n
    <3>3. SubSeq(r, 1, n) = r
      BY <2>1, SubSeqFull DEF n
    <3> QED BY <3>1, <3>2, <3>3
  <2> QED BY <1>2, <2>2, <2>3 DEF Link, Rest
<1> QED BY <1>1, <1>2

\* The longest path is one of the longest.
LEMMA LongestIs ==
  ASSUME order \in Seq(CharSeq), NEW r \in CharSeq
  PROVE  \/ Longest(r) = <<Slash>> /\ \A p \in Range(order) : ~Matches(r, p)
         \/ /\ Longest(r) \in Range(order) /\ Matches(r, Longest(r))
            /\ \A p \in Range(order) : Matches(r, p) => Len(p) <= Len(Longest(r))
<1> DEFINE ps == {p \in Range(order) : Matches(r, p)}
           free == {Len(r) - Len(p) : p \in ps}
<1>1. \A p \in ps : p \in CharSeq /\ Len(p) \in Nat /\ Len(p) <= Len(r) /\ Len(r) \in Nat
  <2>1. \A p \in Range(order) : p \in CharSeq
    BY DEF Range
  <2> QED BY <2>1, MatchShorter DEF CharSeq
<1>2. CASE ps = {}
  <2>1. Longest(r) = <<Slash>>
    BY <1>2 DEF Longest
  <2> QED BY <1>2, <2>1
<1>3. CASE ps # {}
  <2>1. free \subseteq Nat /\ free # {}
    BY <1>1, <1>3
  <2>2. PICK m \in free : \A i \in free : m <= i
    <3> HIDE DEF free
    <3> QED BY <2>1, LeastNatural
  <2>3. PICK p \in ps : m = Len(r) - Len(p)
    BY <2>2
  <2>4. ASSUME NEW q \in ps PROVE Len(q) <= Len(p)
    <3>1. Len(r) - Len(p) <= Len(r) - Len(q)
      BY <2>2, <2>3, <2>4
    <3> HIDE DEF ps, free
    <3> QED BY <1>1, <2>3, <2>4, <3>1
  <2>5. Longest(r) = CHOOSE q \in ps : \A o \in ps : Len(o) <= Len(q)
    BY <1>3 DEF Longest
  <2> HIDE DEF free
  <2>6. Longest(r) \in ps /\ \A o \in ps : Len(o) <= Len(Longest(r))
    <3> HIDE DEF ps
    <3> QED BY <2>4, <2>5
  <2> QED BY <2>6
<1> QED BY <1>2, <1>3

\* Two beginnings of a route that are as long as each other are one.
LEMMA MatchUnique ==
  ASSUME NEW r \in CharSeq, NEW p \in CharSeq, NEW q \in CharSeq, Matches(r, p), Matches(r, q), Len(p) = Len(q)
  PROVE  p = q
<1>1. \A k \in 1..Len(p) : p[k] = r[k]
  BY MatchAgrees
<1>2. \A k \in 1..Len(q) : q[k] = r[k]
  BY MatchAgrees
<1> QED BY <1>1, <1>2, SeqEqual DEF CharSeq

\* A beginning of a route is one of what the route is the beginning of.
LEMMA MatchLonger ==
  ASSUME NEW a \in CharSeq, NEW b \in CharSeq, NEW p \in CharSeq, Matches(a, p), Len(p) >= 2
  PROVE  Matches(a \o b, p)
<1> DEFINE t == a \o b
           k == Len(p)
<1>1. k <= Len(a) /\ k \in Nat /\ Len(a) \in Nat /\ Len(b) \in Nat /\ Len(t) = Len(a) + Len(b)
  BY MatchShorter, JoinedParts DEF CharSeq
<1>2. SubSeq(p, 1, k) = SubSeq(a, 1, k)
  BY DEF Matches, IsPrefix
<1>3. SubSeq(t, 1, k) = SubSeq(a, 1, k)
  <2>1. 1 \in 1..Len(a) /\ k \in 1..Len(a)
    BY <1>1
  <2> HIDE DEF k
  <2> QED BY <2>1, SubSeqOfConcat1 DEF CharSeq
<1>4. k <= Len(t)
  BY <1>1
<1> QED BY <1>2, <1>3, <1>4 DEF Matches, IsPrefix

\* The route of a directory, written without the dot that setRoute puts in front of the slash.
Dotless(r) == IF r = <<Dot, Slash>> THEN <<Slash>> ELSE r

LEMMA DotlessIs ==
  ASSUME NEW r, Shaped(r)
  PROVE  /\ r \in CharSeq /\ Len(r) >= 1
         /\ Dotless(r) \in CharSeq /\ Len(Dotless(r)) \in Nat /\ Len(Dotless(r)) >= 1
         /\ Dotless(r)[1] = Slash /\ Last(Dotless(r)) = Slash /\ Lacks(Dotless(r), Query)
<1> DEFINE d == Dotless(r)
<1>1. CASE r = <<Dot, Slash>>
  <2>1. d = <<Slash>>
    BY <1>1 DEF Dotless
  <2>2. r \in CharSeq /\ Len(r) = 2
    BY <1>1, SlashType DEF CharSeq, Dot
  <2> HIDE DEF d
  <2> QED BY <2>1, <2>2, SlashType DEF Lacks, Last, d
<1>2. CASE r # <<Dot, Slash>>
  BY <1>2 DEF Shaped, Dotless, CharSeq
<1> QED BY <1>1, <1>2

\* A name in a link that is plain has no question mark.
LEMMA PlainName ==
  ASSUME NEW r \in CharSeq, NEW x \in CharSeq, Plain(r \o x)
  PROVE  Lacks(x, Query)
<1> SUFFICES ASSUME NEW i \in DOMAIN x, x[i] = Query PROVE FALSE
  BY DEF Lacks
<1> DEFINE t == r \o x
           k == Len(r) + i
<1>1. /\ t \in CharSeq /\ Len(t) = Len(r) + Len(x)
      /\ \A j \in 1..Len(x) : t[Len(r) + j] = x[j]
  BY JoinedParts
<1>2. i \in 1..Len(x) /\ Len(r) \in Nat /\ Len(x) \in Nat
  BY DEF CharSeq
<1>3. t[k] = Query
  BY <1>1, <1>2
<1>4. k \in 1..Len(t)
  BY <1>1, <1>2
<1>5. Range(t) \subseteq Literal
  BY DEF Plain
<1> HIDE DEF t, k
<1>6. Query \in Range(t)
  <2>1. DOMAIN t = 1..Len(t)
    BY <1>1 DEF CharSeq
  <2>2. k \in DOMAIN t
    BY <1>4, <2>1
  <2> QED BY <1>3, <2>2 DEF Range
<1>7. Query \in Literal
  BY <1>5, <1>6
<1> QED BY <1>7 DEF Query, Literal, Slash, Dot

\* What following the link to an entry asks for.
LEMMA FollowedIs ==
  ASSUME NEW r, Shaped(r), NEW x \in CharSeq, x # <<>>, Lacks(x, Query), Lacks(x, Slash)
  PROVE  /\ r \in CharSeq
         /\ Dotless(r) \in CharSeq /\ Len(Dotless(r)) >= 1 /\ Dotless(r)[1] = Slash /\ Last(Dotless(r)) = Slash
         /\ Followed(r \o x) = Dotless(r) \o x
         /\ Route(Dotless(r) \o x) = Append(Dotless(r) \o x, Slash)
<1> DEFINE d == Dotless(r)
           t == d \o x
<1>1. /\ r \in CharSeq /\ Len(r) >= 1 /\ d \in CharSeq /\ Len(d) \in Nat /\ Len(d) >= 1
      /\ d[1] = Slash /\ Last(d) = Slash /\ Lacks(d, Query)
  BY DotlessIs
<1>2. Len(x) \in Nat /\ Len(x) >= 1
  BY DEF CharSeq
<1> HIDE DEF d
<1>3. Followed(r \o x) = t
  <2>1. (r \o x)[1] = r[1]
    <3>1. 1 \in 1..Len(r)
      BY <1>1 DEF CharSeq
    <3> QED BY <1>1, <3>1, JoinedParts
  <2>2. CASE r = <<Dot, Slash>>
    <3>1. r[1] = Dot /\ Len(r) = 2 /\ d = <<Slash>> /\ r[2] = Slash
      BY <2>2 DEF Dotless, d
    <3>4. SubSeq(r, 2, Len(r)) = <<Slash>>
      <4> DEFINE y == SubSeq(r, 2, Len(r))
      <4>1. 2 \in 1..Len(r) /\ Len(r) - 2 + 1 = 1 /\ 2 + 1 - 1 = 2
        BY <3>1
      <4>2. y \in CharSeq /\ Len(y) = 1 /\ y[1] = Slash
        <5>1. /\ y \in CharSeq /\ Len(y) = Len(r) - 2 + 1
              /\ \A i \in 1..Len(r) - 2 + 1 : y[i] = r[2 + i - 1]
          BY <1>1, <4>1, SuffixType
        <5> HIDE DEF y
        <5> QED BY <3>1, <4>1, <5>1
      <4> HIDE DEF y
      <4>3. y = <<Slash>>
        BY <4>2 DEF CharSeq
      <4> QED BY <4>3 DEF y
    <3>2. Tail(r \o x) = SubSeq(r \o x, 2, Len(r \o x))
      <4>1. r \o x \in Seq(Nat) /\ r \o x # <<>>
        <5>1. r \o x \in CharSeq /\ Len(r \o x) = Len(r) + Len(x)
          BY <1>1, JoinedParts
        <5> QED BY <1>2, <3>1, <5>1 DEF CharSeq
      <4> QED BY <4>1, TailIsSubSeq
    <3>3. SubSeq(r \o x, 2, Len(r \o x)) = SubSeq(r, 2, Len(r)) \o x
      <4>1. 2 \in 1..Len(r)
        BY <3>1
      <4> QED BY <1>1, <4>1, SuffixJoined
    <3> QED BY <2>1, <3>1, <3>2, <3>3, <3>4 DEF Followed
  <2>3. CASE r # <<Dot, Slash>>
    <3>1. d = r
      BY <2>3 DEF Dotless, d
    <3>2. (r \o x)[1] # Dot
      BY <1>1, <2>1, <3>1, SlashType
    <3> QED BY <3>1, <3>2 DEF Followed
  <2> QED BY <2>2, <2>3
<1>4. Route(t) = Append(t, Slash)
  <2>1. /\ t \in CharSeq /\ Len(t) = Len(d) + Len(x)
        /\ \A i \in 1..Len(x) : t[Len(d) + i] = x[i]
    BY <1>1, JoinedParts
  <2>2. Lacks(t, Query)
    BY <1>1, JoinedPlain
  <2>3. Last(t) # Slash
    <3>1. Last(t) = x[Len(x)] /\ Len(x) \in DOMAIN x
      BY <1>2, <2>1 DEF Last, CharSeq
    <3> QED BY <3>1 DEF Lacks
  <2>4. Len(t) >= 2
    BY <1>1, <1>2, <2>1
  <2> HIDE DEF t
  <2> QED BY <2>1, <2>2, <2>3, <2>4, RouteOf
<1> QED BY <1>1, <1>3, <1>4 DEF d

\* What is found under the link is what the entry is called in the directory.
LEMMA SameEntry ==
  ASSUME NEW root \in CharSeq, NEW r, Shaped(r), NEW p \in CharSeq, NEW x \in CharSeq, x # <<>>,
         p = <<Slash>> \/ (r = Dotless(r) /\ Len(p) \in 1..Len(r))
  PROVE  SameName(ReadName(root, Rest(Append(Dotless(r) \o x, Slash), p)), ReadName(root, Rest(r, p)) \o <<Slash>> \o x)
<1> DEFINE d == Dotless(r)
           left == Rest(d, p)
           rest == Rest(r, p)
           b == Base(root)
<1>1. r \in CharSeq /\ Len(r) >= 1 /\ d \in CharSeq /\ Len(d) >= 1 /\ Last(d) = Slash /\ Len(d) \in Nat
  <2>1. CASE r = <<Dot, Slash>>
    <3>1. d = <<Slash>> /\ r \in CharSeq /\ Len(r) = 2
      BY <2>1, SlashType DEF Dotless, CharSeq, Dot
    <3> HIDE DEF d
    <3> QED BY <3>1, SlashType DEF Last
  <2>2. CASE r # <<Dot, Slash>>
    BY <2>2 DEF Shaped, Dotless, CharSeq
  <2> QED BY <2>1, <2>2
<1>2. p = <<Slash>> \/ (r = d /\ Len(p) \in 1..Len(d))
  OBVIOUS
<1>3. left \in CharSeq /\ Len(left) \in Nat /\ Len(left) >= 1 /\ Last(left) = Slash
  <2>1. CASE p = <<Slash>>
    BY <1>1, <2>1 DEF Rest
  <2>2. CASE p # <<Slash>>
    <3> DEFINE k == Len(p)
    <3>1. left = SubSeq(d, k, Len(d)) /\ k \in 1..Len(d)
      BY <1>2, <2>2 DEF Rest
    <3> HIDE DEF d, left, k
    <3>2. /\ left \in CharSeq /\ Len(left) = Len(d) - k + 1
          /\ \A i \in 1..Len(d) - k + 1 : left[i] = d[k + i - 1]
      BY <1>1, <3>1, SuffixType
    <3>3. Len(d) - k + 1 \in 1..Len(d) - k + 1 /\ k + (Len(d) - k + 1) - 1 = Len(d) /\ Len(d) - k + 1 \in Nat /\ Len(d) - k + 1 >= 1
      BY <1>1, <3>1
    <3>4. left[Len(d) - k + 1] = d[Len(d)]
      BY <3>2, <3>3
    <3> QED BY <1>1, <3>2, <3>3, <3>4 DEF Last
  <2> QED BY <2>1, <2>2
<1>4. Rest(Append(d \o x, Slash), p) = Append(left \o x, Slash)
  <2>1. p = <<Slash>> \/ Len(p) \in 1..Len(d)
    BY <1>2
  <2> HIDE DEF d
  <2> QED BY <1>1, <2>1, RestJoined
<1>5. rest \in CharSeq /\ (rest = left \/ (Len(left) = 1 /\ Inside(rest) = <<>>))
  <2>1. CASE r = d
    BY <1>3, <2>1
  <2>2. CASE r # d
    <3>1. r = <<Dot, Slash>> /\ d = <<Slash>> /\ p = <<Slash>>
      BY <1>2, <2>2 DEF Dotless
    <3>2. rest = r /\ left = <<Slash>>
      BY <3>1 DEF Rest
    <3>3. Len(r) - 1 = 1
      BY <3>1
    <3>4. Inside(rest) = SubSeq(r, 2, 1)
      BY <3>2, <3>3 DEF Inside
    <3> HIDE DEF left, rest
    <3> QED BY <1>1, <3>2, <3>4, SubSeqEmpty, SlashType
  <2> QED BY <2>1, <2>2
<1>6. Len(left) = 1 => Inside(rest) = <<>>
  <2>1. ASSUME Len(left) = 1, rest = left PROVE Inside(rest) = <<>>
    <3>1. Inside(rest) = SubSeq(rest, 2, 0)
      <4> HIDE DEF left, rest
      <4>1. Len(rest) - 1 = 0
        BY <2>1
      <4> QED BY <4>1 DEF Inside
    <3> QED BY <3>1, SubSeqEmpty
  <2> QED BY <1>5, <2>1
<1> HIDE DEF d, left, rest
<1>7. b \in CharSeq /\ Inside(rest) \in CharSeq
  BY <1>5, BaseType, InsideType
<1>8. ReadName(root, rest) = b \o Inside(rest)
  BY <1>5, ReadNameIs
<1>9. Append(left \o x, Slash) \in CharSeq
  <2>1. left \o x \in CharSeq
    BY <1>3, JoinedParts
  <2> QED BY <2>1, SlashType DEF CharSeq
<1>10. ReadName(root, Append(left \o x, Slash)) = b \o (IF Len(left) = 1 THEN x ELSE (Inside(left) \o <<Slash>>) \o x)
  <2>1. ReadName(root, Append(left \o x, Slash)) = b \o Inside(Append(left \o x, Slash))
    BY <1>9, ReadNameIs
  <2>2. Inside(Append(left \o x, Slash)) = IF Len(left) = 1 THEN x ELSE (Inside(left) \o <<Slash>>) \o x
    BY <1>3, InsideJoined
  <2> HIDE DEF b
  <2> QED BY <2>1, <2>2
<1>11. CASE Len(left) = 1
  <2>1. b \o Inside(rest) = b
    BY <1>6, <1>7, <1>11, ConcatEmptySeq DEF CharSeq
  <2>2. SameName((b \o <<Slash>>) \o x, b \o x)
    BY SlashOrNot
  <2>3. SameName(b \o x, (b \o <<Slash>>) \o x)
    BY <2>2 DEF SameName
  <2> HIDE DEF b
  <2>4. SameName(ReadName(root, Append(left \o x, Slash)), ReadName(root, rest) \o <<Slash>> \o x)
    BY <1>8, <1>10, <1>11, <2>1, <2>3
  <2> QED BY <1>4, <2>4 DEF d, rest
<1>12. CASE Len(left) # 1
  <2> DEFINE i == Inside(rest)
  <2>1. rest = left
    BY <1>5, <1>12
  <2>2. i \in Seq(Nat) /\ b \in Seq(Nat) /\ x \in Seq(Nat) /\ <<Slash>> \in Seq(Nat)
    BY <1>7, SlashType DEF CharSeq
  <2> HIDE DEF i, b
  <2>3. b \o ((i \o <<Slash>>) \o x) = ((b \o i) \o <<Slash>>) \o x
    BY <2>2, Regrouped
  <2>6. ReadName(root, Append(left \o x, Slash)) = ReadName(root, rest) \o <<Slash>> \o x
    BY <1>8, <1>10, <1>12, <2>1, <2>3 DEF i
  <2> QED BY <1>4, <2>6 DEF SameName, d, rest
<1> QED BY <1>11, <1>12

\* The links of a page lead back to the entries of its directory.
LEMMA LinksBack == ASSUME LoadInv, OfTheSite, RoutingInv, Shaped(route) PROVE LinksLeadBack
<1> SUFFICES ASSUME Served, Location[1] = Slash, NEW x \in Entries,
                    Plain(Link(Location, Rest(route, Location), x))
             PROVE  LET r == Route(Followed(Link(Location, Rest(route, Location), x)))
                    IN  \/ Len(Longest(r)) > Len(Location)
                        \/ /\ Longest(r) = Location
                           /\ SameName(ReadName(Root, Rest(r, Location)),
                                       ReadName(Root, Rest(route, Location)) \o <<Slash>> \o x)
  BY DEF LinksLeadBack
<1> DEFINE p == Location
           d == Dotless(route)
           r == Append(d \o x, Slash)
<1>1. x \in CharSeq /\ x # <<>> /\ Lacks(x, Slash) /\ Len(x) \in Nat
  BY EntriesAssumption DEF Lacks, CharSeq
<1>2. /\ route \in CharSeq
      /\ d \in CharSeq /\ Len(d) >= 1 /\ d[1] = Slash
  BY DotlessIs
<1>3. p \in CharSeq /\ p[1] = Slash /\ (p # <<Slash>> => Matches(route, p))
  BY LocationFits DEF Served
<1>4. ASSUME p # <<Slash>> PROVE Matches(route, p) /\ Len(p) >= 2 /\ route = d /\ Len(p) \in 1..Len(route)
  <2>1. Matches(route, p) /\ Len(p) \in Nat /\ Len(route) \in Nat /\ Len(p) <= Len(route)
    BY <1>2, <1>3, <1>4, MatchShorter DEF CharSeq
  <2>2. Len(p) >= 2
    <3>1. CASE p = route
      <4>1. Len(route) >= 1
        BY SlashType DEF Shaped
      <4>2. CASE Len(route) = 1
        <5>1. p = <<Slash>>
          <6> HIDE DEF p
          <6> QED BY <1>3, <3>1, <4>2, SlashType DEF CharSeq
        <5> QED BY <1>4, <5>1
      <4> QED BY <2>1, <3>1, <4>1, <4>2
    <3> QED BY <2>1, <3>1 DEF Matches
  <2>3. route # <<Dot, Slash>>
    <3>1. p[1] = route[1]
      <4>1. 1 \in 1..Len(p)
        BY <2>1, <2>2
      <4> QED BY <1>2, <1>3, <2>1, <4>1, MatchAgrees
    <3> QED BY <1>3, <3>1, SlashType
  <2> QED BY <2>1, <2>2, <2>3 DEF Dotless
<1>5. Link(p, Rest(route, p), x) = route \o x
  <2>1. p = <<Slash>> \/ (Matches(route, p) /\ Len(p) >= 2)
    BY <1>4
  <2> HIDE DEF p
  <2> QED BY <1>1, <1>2, <1>3, <2>1, LinkIs
<1>6. Route(Followed(Link(p, Rest(route, p), x))) = r
  <2>1. Plain(route \o x)
    BY <1>5
  <2>2. Lacks(x, Query)
    BY <1>1, <1>2, <2>1, PlainName
  <2>3. Followed(route \o x) = d \o x /\ Route(d \o x) = r
    BY <1>1, <2>2, FollowedIs
  <2> QED BY <1>5, <2>3
<1>7. r \in CharSeq /\ Len(r) >= 2 /\ r = d \o (x \o <<Slash>>)
  <2>1. d \o x \in CharSeq /\ Len(d \o x) = Len(d) + Len(x) /\ Len(d) \in Nat
    BY <1>1, <1>2, JoinedParts DEF CharSeq
  <2>2. r = (d \o x) \o <<Slash>>
    BY <2>1, AppendSlash
  <2>3. (d \o x) \o <<Slash>> = d \o (x \o <<Slash>>)
    <3>1. d \in Seq(Nat) /\ x \in Seq(Nat) /\ <<Slash>> \in Seq(Nat)
      BY <1>1, <1>2, SlashType DEF CharSeq
    <3> HIDE DEF d
    <3> QED BY <3>1, ConcatAssociative
  <2>4. r \in CharSeq /\ Len(r) = Len(d) + Len(x) + 1
    <3>1. (d \o x) \o <<Slash>> \in CharSeq /\ Len((d \o x) \o <<Slash>>) = Len(d \o x) + Len(<<Slash>>)
      BY <2>1, SlashType, JoinedParts
    <3> QED BY <2>1, <2>2, <3>1, SlashType
  <2> HIDE DEF r
  <2> QED BY <1>1, <1>2, <2>1, <2>2, <2>3, <2>4
<1> HIDE DEF r
<1>8. \/ Longest(r) = <<Slash>> /\ \A q \in Range(order) : ~Matches(r, q)
      \/ /\ Longest(r) \in Range(order) /\ Matches(r, Longest(r))
         /\ \A q \in Range(order) : Matches(r, q) => Len(q) <= Len(Longest(r))
  BY <1>7, LongestIs DEF RoutingInv
<1>9. \A q \in Range(order) : q \in CharSeq /\ Len(q) \in Nat
  BY DEF RoutingInv, Range, CharSeq
<1>10. Longest(r) = p \/ Len(Longest(r)) > Len(p)
  <2>1. CASE p = <<Slash>>
    <3>1. Len(p) = 1
      BY <2>1, SlashType
    <3>2. ASSUME Longest(r) # p PROVE Len(Longest(r)) >= 2
      <4>1. Longest(r) \in Range(order) /\ Matches(r, Longest(r))
        BY <1>8, <2>1, <3>2
      <4> QED BY <1>7, <4>1 DEF Matches
    <3>3. Longest(r) # p => Len(Longest(r)) \in Nat
      BY <1>8, <1>9, <2>1
    <3> HIDE DEF p
    <3> QED BY <3>1, <3>2, <3>3
  <2>2. CASE p # <<Slash>>
    <3>1. Matches(r, p)
      <4>1. x \o <<Slash>> \in CharSeq
        BY <1>1, SlashType, JoinedParts
      <4>2. Matches(d, p) /\ Len(p) >= 2
        BY <1>4, <2>2
      <4> HIDE DEF p, d
      <4> QED BY <1>2, <1>3, <1>7, <4>1, <4>2, MatchLonger
    <3>2. p \in Range(order)
      BY DEF Served
    <3>3. Longest(r) \in Range(order) /\ Matches(r, Longest(r)) /\ Len(p) <= Len(Longest(r))
      BY <1>8, <3>1, <3>2
    <3>4. Len(p) = Len(Longest(r)) => p = Longest(r)
      BY <1>3, <1>7, <1>9, <3>1, <3>3, MatchUnique
    <3>5. Len(p) \in Nat /\ Len(Longest(r)) \in Nat
      BY <1>9, <3>2, <3>3
    <3> HIDE DEF p
    <3> QED BY <3>3, <3>4, <3>5
  <2> QED BY <2>1, <2>2
<1>11. SameName(ReadName(Root, Rest(r, p)), ReadName(Root, Rest(route, p)) \o <<Slash>> \o x)
  <2>1. p = <<Slash>> \/ (route = Dotless(route) /\ Len(p) \in 1..Len(route))
    BY <1>4
  <2>2. Root \in CharSeq
    BY RootType
  <2> HIDE DEF p
  <2> QED BY <1>1, <1>3, <2>1, <2>2, SameEntry DEF r
<1> QED BY <1>6, <1>10, <1>11

-----------------------------------------------------------------------------
\* The route is always what setRoute makes of a target.
Routed == order # <<>> => Shaped(route)

LEMMA RoutedStep ==
  ASSUME Routed, [Next]_vars
  PROVE  Routed'
<1>1. CASE Request
  <2>1. \E target \in Targets : route' = Route(target)
    BY <1>1 DEF Request, Begin
  <2>2. Shaped(route')
    BY <2>1, RouteShape
  <2>3. Shaped(route') => Shaped(route)'
    BY DEF Shaped, Last, Lacks
  <2> QED BY <2>2, <2>3 DEF Routed
<1>2. CASE Load \/ LookUp \/ UNCHANGED vars
  <2>1. route' = route /\ order' = order
    BY <1>2 DEF Load, LookUp, Visit, vars, routing
  <2> QED BY <2>1 DEF Routed, Shaped, Last, Lacks
<1> QED BY <1>1, <1>2 DEF Next

\* All that is known of a server and of the request that it looks up.
ServedInv == LoadInv /\ OfTheSite /\ RoutingInv /\ Routed

LEMMA ServedAlways == Spec => []ServedInv
<1>1. Init => Routed
  BY DEF Init, RoutingInit, Routed
<1>2. LoadInv /\ OfTheSite /\ [Next]_vars => (LoadInv /\ OfTheSite)'
  BY SiteStep
<1>3. Routed /\ [Next]_vars => Routed'
  BY RoutedStep
<1> QED BY <1>1, <1>2, <1>3, RoutingAlways, SiteInit, SitesImplementRouting, PTL DEF Spec, Routes, ServedInv

\* Whatever the configuration and whatever is asked for, an upload, a later request and a
\* DELETE of a path mean the same file.
THEOREM FilesAgree == Spec => []SameFile
<1>1. ServedInv => SameFile
  BY FilesOne DEF ServedInv
<1> QED BY <1>1, ServedAlways, PTL

\* And the plain links of an index page lead to the entries they are named after.
THEOREM LinksReturn == Spec => []LinksLeadBack
<1>1. ServedInv => LinksLeadBack
  <2>1. Served => order # <<>>
    BY DEF Served, Settled
  <2>2. ServedInv /\ ~Served => LinksLeadBack
    BY DEF LinksLeadBack
  <2> QED BY <2>1, <2>2, LinksBack DEF ServedInv, Routed
<1> QED BY <1>1, ServedAlways, PTL
=============================================================================
