--------------------------- MODULE SeekersProofs ---------------------------
(***************************************************************************)
(* Proofs about Search and SavedSearches, for every number of walks, calls, *)
(* listings, users and saved searches and every size of a page.            *)
(***************************************************************************)
EXTENDS Search, SavedSearches, FiniteSetTheorems, TLAPS

-----------------------------------------------------------------------------
(* A finite set in the order of its positions, and the first of it.        *)

LEMMA LeastBy ==
    ASSUME NEW S, S # {}, NEW at, \A p \in S : at[p] \in Nat
    PROVE  \E p \in S : \A q \in S : at[p] <= at[q]
<1>. DEFINE T == {at[p] : p \in S}
<1>1. T \in SUBSET Nat /\ T # {}
  OBVIOUS
<1>2. PICK m \in T : \A k \in T : ~(<<k, m>> \in OpToRel(<, Nat))
  <2>. HIDE DEF T
  <2>1. QED
    BY <1>1, NatLessThanWellFounded, WFMin
<1>3. \A k \in T : ~(k < m)
  BY <1>1, <1>2 DEF OpToRel
<1>4. PICK p \in S : at[p] = m
  BY <1>2
<1>5. ASSUME NEW q \in S PROVE at[p] <= at[q]
  <2>1. at[q] \in T
    OBVIOUS
  <2>2. ~(at[q] < at[p])
    <3>. HIDE DEF T
    <3>1. QED
      BY <1>3, <1>4, <2>1
  <2>3. QED
    BY <2>2
<1>6. QED
  BY <1>5

\* The last has the fewest behind it.
LEMMA GreatestBy ==
    ASSUME NEW S, IsFiniteSet(S), S # {}, NEW at, \A p \in S : at[p] \in Nat
    PROVE  \E p \in S : \A q \in S : at[q] <= at[p]
<1>. DEFINE Behind(p) == {q \in S : at[q] > at[p]}
            behind == [p \in S |-> Cardinality(Behind(p))]
<1>1. \A p \in S : IsFiniteSet(Behind(p)) /\ behind[p] \in Nat
  BY FS_Subset, FS_CardinalityType
<1>2. PICK p \in S : \A q \in S : behind[p] <= behind[q]
  <2>. HIDE DEF behind
  <2>1. QED
    BY <1>1, LeastBy
<1>3. ASSUME NEW q \in S, ~(at[q] <= at[p]) PROVE FALSE
  <2>1. Behind(q) \in SUBSET Behind(p) /\ q \in Behind(p) /\ q \notin Behind(q)
    BY <1>3
  <2>2. Cardinality(Behind(q)) <= Cardinality(Behind(p)) /\ Cardinality(Behind(q)) # Cardinality(Behind(p))
    <3>. HIDE DEF Behind
    <3>1. QED
      BY <1>1, <2>1, FS_Subset
  <2>3. behind[q] <= behind[p] /\ behind[q] # behind[p]
    BY <2>2
  <2>4. behind[p] \in Nat /\ behind[q] \in Nat /\ behind[p] <= behind[q]
    <3>. HIDE DEF behind, Behind
    <3>1. QED
      BY <1>1, <1>2
  <2>5. QED
    <3>. HIDE DEF behind
    <3>1. QED
      BY <2>3, <2>4
<1>4. QED
  BY <1>3

\* The first n are closed towards the front, and there are some.
LEMMA FirstIsFront ==
    ASSUME NEW S, IsFiniteSet(S), NEW at, \A p \in S : at[p] \in Nat, NEW n \in Nat \ {0}
    PROVE  /\ First(n, S, at) \subseteq S
           /\ S # {} => First(n, S, at) # {}
           /\ \A p \in S, q \in First(n, S, at) : at[p] <= at[q] => p \in First(n, S, at)
<1>. DEFINE Front(p) == {q \in S : at[q] < at[p]}
<1>1. \A p \in S : IsFiniteSet(Front(p)) /\ Cardinality(Front(p)) \in Nat
  BY FS_Subset, FS_CardinalityType
<1>2. ASSUME S # {} PROVE First(n, S, at) # {}
  <2>1. PICK p \in S : \A q \in S : at[p] <= at[q]
    BY <1>2, LeastBy
  <2>2. Front(p) = {}
    BY <2>1
  <2>3. Cardinality(Front(p)) < n
    BY <2>2, FS_EmptySet
  <2>4. QED
    BY <2>3 DEF First
<1>3. ASSUME NEW p \in S, NEW q \in First(n, S, at), at[p] <= at[q]
      PROVE  p \in First(n, S, at)
  <2>1. q \in S /\ Cardinality(Front(q)) < n
    BY DEF First
  <2>2. Front(p) \in SUBSET Front(q)
    BY <1>3, <2>1
  <2>3. Cardinality(Front(p)) <= Cardinality(Front(q))
    <3>. HIDE DEF Front
    <3>1. QED
      BY <1>1, <2>1, <2>2, FS_Subset
  <2>4. Cardinality(Front(p)) < n
    BY <1>1, <2>1, <2>3
  <2>5. QED
    BY <2>4 DEF First
<1>4. QED
  BY <1>2, <1>3 DEF First

\* Where the first n are fewer than n they are all there is; and so they are
\* where there are no more than n.
LEMMA FirstIsAll ==
    ASSUME NEW S, IsFiniteSet(S), NEW at, \A p \in S : at[p] \in Nat, NEW n \in Nat \ {0},
           Cardinality(First(n, S, at)) < n \/ Cardinality(S) <= n
    PROVE  First(n, S, at) = S
<1>. DEFINE Front(p) == {q \in S : at[q] < at[p]}
            F == First(n, S, at)
<1>1. F \subseteq S /\ IsFiniteSet(F)
  BY FS_Subset DEF First
<1>2. \A p \in S : IsFiniteSet(Front(p)) /\ Cardinality(Front(p)) \in Nat
  BY FS_Subset, FS_CardinalityType
<1>3. \A p \in S : Cardinality(Front(p)) < n => p \in F
  BY DEF First
<1>4. CASE Cardinality(F) < n
  <2>. SUFFICES ASSUME S \ F # {} PROVE FALSE
    BY <1>1
  <2>1. PICK p \in S \ F : \A q \in S \ F : at[p] <= at[q]
    <3>. HIDE DEF F
    <3>1. QED
      BY LeastBy
  <2>2. Front(p) \in SUBSET F
    BY <2>1
  <2>3. Cardinality(Front(p)) <= Cardinality(F) /\ Cardinality(F) \in Nat
    <3>. HIDE DEF F, Front
    <3>1. QED
      BY <1>1, <2>2, FS_Subset, FS_CardinalityType
  <2>4. p \in F
    BY <1>2, <1>3, <1>4, <2>1, <2>3
  <2>5. QED
    BY <2>1, <2>4
<1>5. CASE Cardinality(S) <= n
  <2>. SUFFICES ASSUME NEW p \in S PROVE p \in F
    BY <1>1
  <2>1. Front(p) \in SUBSET S /\ p \notin Front(p)
    OBVIOUS
  <2>2. Cardinality(Front(p)) <= Cardinality(S) /\ Cardinality(Front(p)) # Cardinality(S)
    <3>. HIDE DEF Front
    <3>1. QED
      BY <2>1, FS_Subset
  <2>3. Cardinality(S) \in Nat
    BY FS_CardinalityType
  <2>4. QED
    BY <1>2, <1>3, <1>5, <2>2, <2>3
<1>6. QED
  BY <1>4, <1>5

-----------------------------------------------------------------------------
(* A page of a search.                                                     *)

LEMMA ListedFinite == IsFiniteSet(Listed) /\ Cardinality(Listed) \in Nat
<1>1. Listed \in SUBSET Property
  BY DEF Listed
<1>2. QED
  BY <1>1, SearchAssumption, FS_Subset, FS_CardinalityType

LEMMA MatchingFinite ==
    IsFiniteSet(Matching) /\ Cardinality(Matching) \in Nat /\ Matching \subseteq Listed
<1>1. Matching \in SUBSET Listed
  BY DEF Matching
<1>2. QED
  BY <1>1, ListedFinite, FS_Subset, FS_CardinalityType

LEMMA ListedRow ==
    ASSUME SearchTypeOK, NEW p \in Listed
    PROVE  /\ p \in Property /\ rows[p] \in Row
           /\ rows[p].createdAt \in Nat /\ rows[p].price \in Nat /\ rows[p].distance \in Nat
<1>1. p \in Property /\ rows[p] \in Row
  BY DEF SearchTypeOK, Listed
<1>2. rows[p].createdAt \in 0 .. MaxTime /\ rows[p].price \in Price /\ rows[p].distance \in Distance
  BY <1>1 DEF Row
<1>3. 0 .. MaxTime \subseteq Nat
  BY SearchAssumption
<1>4. QED
  BY <1>1, <1>2, <1>3, SearchAssumption

\* An order gives the matching listings positions, and so does the second one
\* by distance.
LEMMA OrderFacts ==
    ASSUME SearchTypeOK, NEW sort, NEW near, NEW at \in Orders(sort)
    PROVE  /\ at \in [Matching -> Nat] /\ Sorted(sort, near, at) \in [Matching -> Nat]
           /\ \A p, q \in Matching : at[p] = at[q] => p = q
           /\ \A p, q \in Matching : at[p] <= at[q] => ~Ahead(sort, q, p)
<1>. DEFINE n == Cardinality(Matching)
<1>1. n \in Nat
  BY MatchingFinite
<1>2. at \in [Matching -> 1 .. n]
  BY DEF Orders
<1>3. \A p \in Matching : at[p] \in Nat
  BY <1>1, <1>2
<1>4. at \in [Matching -> Nat]
  BY <1>2, <1>3
<1>5. \A p \in Matching : rows[p].distance * (n + 1) + at[p] \in Nat
  <2>. SUFFICES ASSUME NEW p \in Matching PROVE rows[p].distance * (n + 1) + at[p] \in Nat
    OBVIOUS
  <2>1. rows[p].distance \in Nat
    BY ListedRow, MatchingFinite
  <2>2. \A k, m \in Nat : k * m \in Nat
    OBVIOUS
  <2>3. QED
    BY <1>1, <1>3, <2>1, <2>2
<1>6. Sorted(sort, near, at) \in [Matching -> Nat]
  BY <1>4, <1>5 DEF Sorted
<1>7. /\ \A p, q \in Matching : at[p] = at[q] => p = q
      /\ \A p, q \in Matching : Ahead(sort, p, q) => at[p] < at[q]
  BY DEF Orders
<1>8. QED
  BY <1>3, <1>4, <1>6, <1>7

\* What the query found, less what is out of range; and what of it is shown.
Filtered(near, rest, at) == {p \in Take(rest, at) : InRange(near, p)}

Data(near, rest, at, order) == First(Limit, Filtered(near, rest, at), order)

\* Listings taken from the query, in whatever order they are then put: a page
\* that has more behind it has a last one.
LEMMA PageFacts ==
    ASSUME NEW rest \in SUBSET Matching, NEW near,
           NEW at, \A p \in Matching : at[p] \in Nat,
           NEW order, \A p \in Matching : order[p] \in Nat
    PROVE  /\ Data(near, rest, at, order) \in SUBSET rest
           /\ Cardinality(Filtered(near, rest, at)) > Limit =>
                 LET last == LastOf(Data(near, rest, at, order), order)
                 IN  /\ last \in Data(near, rest, at, order)
                     /\ \A q \in Data(near, rest, at, order) : order[q] <= order[last]
<1>. DEFINE found    == Take(rest, at)
            filtered == {p \in found : InRange(near, p)}
            data     == First(Limit, filtered, order)
<1>1. Limit \in Nat \ {0} /\ Limit + 1 \in Nat \ {0}
  BY SearchAssumption
<1>2. found \in SUBSET rest /\ filtered \in SUBSET found
  BY DEF Take, First
<1>3. IsFiniteSet(filtered) /\ Cardinality(filtered) \in Nat
  <2>1. filtered \in SUBSET Matching
    BY <1>2
  <2>. HIDE DEF filtered
  <2>2. QED
    BY <2>1, MatchingFinite, FS_Subset, FS_CardinalityType
<1>4. /\ data \in SUBSET filtered
      /\ filtered # {} => data # {}
  <2>1. \A p \in filtered : order[p] \in Nat
    BY <1>2
  <2>. HIDE DEF filtered
  <2>2. QED
    BY <1>1, <1>3, <2>1, FirstIsFront
<1>5. ASSUME Cardinality(filtered) > Limit
      PROVE  \E p \in data : \A q \in data : order[q] <= order[p]
  <2>1. filtered # {}
    <3>. HIDE DEF filtered
    <3>1. QED
      BY <1>1, <1>3, <1>5, FS_EmptySet
  <2>2. data # {} /\ IsFiniteSet(data) /\ \A p \in data : order[p] \in Nat
    <3>1. data # {}
      BY <1>4, <2>1
    <3>2. \A p \in data : order[p] \in Nat
      BY <1>2, <1>4
    <3>3. IsFiniteSet(data)
      <4>. HIDE DEF data, filtered
      <4>1. QED
        BY <1>3, <1>4, FS_Subset
    <3>4. QED
      BY <3>1, <3>2, <3>3
  <2>. HIDE DEF data
  <2>3. QED
    BY <2>2, GreatestBy
<1>6. Cardinality(filtered) > Limit =>
         /\ LastOf(data, order) \in data
         /\ \A q \in data : order[q] <= order[LastOf(data, order)]
  <2>. HIDE DEF data, filtered
  <2>1. QED
    BY <1>5 DEF LastOf
<1>7. data = Data(near, rest, at, order) /\ filtered = Filtered(near, rest, at)
  BY DEF Data, Filtered
<1>8. QED
  <2>. HIDE DEF data, filtered
  <2>1. QED
    BY <1>2, <1>4, <1>6, <1>7

\* What the query cut and the filter left alone: the page is the front of what
\* there was to show, or all of it.
LEMMA PageIsFront ==
    ASSUME NEW rest \in SUBSET Matching, NEW near, NEW at, \A p \in Matching : at[p] \in Nat
    PROVE  Filtered(near, rest, at) = Take(rest, at) =>
             IF Cardinality(Filtered(near, rest, at)) > Limit
             THEN \A p \in rest \ Data(near, rest, at, at) : at[LastOf(Data(near, rest, at, at), at)] < at[p]
             ELSE Data(near, rest, at, at) = rest
<1>. DEFINE found == Take(rest, at)
            data  == First(Limit, found, at)
<1>. SUFFICES ASSUME Filtered(near, rest, at) = found
              PROVE  IF Cardinality(found) > Limit
                     THEN \A p \in rest \ data : at[LastOf(data, at)] < at[p]
                     ELSE data = rest
  BY DEF Data
<1>1. Limit \in Nat \ {0} /\ Limit + 1 \in Nat \ {0}
  BY SearchAssumption
<1>2. IsFiniteSet(rest) /\ (\A p \in rest : at[p] \in Nat)
  BY MatchingFinite, FS_Subset
<1>3. /\ found \subseteq rest
      /\ \A p \in rest, q \in found : at[p] <= at[q] => p \in found
  BY <1>1, <1>2, FirstIsFront DEF Take
<1>4. IsFiniteSet(found) /\ Cardinality(found) \in Nat /\ (\A p \in found : at[p] \in Nat)
  <2>. HIDE DEF found
  <2>1. QED
    BY <1>2, <1>3, FS_Subset, FS_CardinalityType
<1>5. \A p \in found, q \in data : at[p] <= at[q] => p \in data
  <2>. HIDE DEF found
  <2>1. QED
    BY <1>1, <1>4, FirstIsFront
<1>6. CASE Cardinality(found) > Limit
  <2>1. LastOf(data, at) \in data /\ data \subseteq found
    <3>1. Cardinality(found) > Limit => LastOf(Data(near, rest, at, at), at) \in Data(near, rest, at, at)
      BY PageFacts
    <3>2. Data(near, rest, at, at) = data
      BY DEF Data
    <3>3. QED
      BY <1>6, <3>1, <3>2 DEF First
  <2>2. ASSUME NEW p \in rest \ data, ~(at[LastOf(data, at)] < at[p]) PROVE FALSE
    <3>. DEFINE last == LastOf(data, at)
    <3>1. at[p] <= at[last]
      BY <1>2, <1>4, <2>1, <2>2
    <3>. HIDE DEF last, found
    <3>2. p \in found
      BY <1>3, <2>1, <3>1 DEF last
    <3>3. QED
      BY <1>5, <2>1, <2>2, <3>1, <3>2 DEF last
  <2>3. QED
    BY <1>6, <2>2
<1>7. CASE ~(Cardinality(found) > Limit)
  <2>1. Cardinality(found) <= Limit /\ Cardinality(found) < Limit + 1
    <3>. HIDE DEF found
    <3>1. QED
      BY <1>1, <1>4, <1>7
  <2>2. found = rest
    BY <1>1, <1>2, <2>1, FirstIsAll DEF Take
  <2>3. data = found
    <3>. HIDE DEF found
    <3>1. QED
      BY <1>1, <1>4, <2>1, FirstIsAll
  <2>4. QED
    BY <1>7, <2>2, <2>3
<1>8. QED
  BY <1>6, <1>7

-----------------------------------------------------------------------------
(* The walks of a search.                                                  *)

\* Ordered by a column that never changes.
ByDate(w) == walk[w].sort \in {"recency", "distance"}

WalkOK(w) ==
    /\ walk[w].pc = "new" => walk[w] = NewWalk
    /\ walk[w].pc = "going" => walk[w].cursor \in Shown(w) /\ walk[w].steady \subseteq Matching
    /\ Shown(w) \cup walk[w].steady \subseteq Listed
    /\ ByDate(w) => walk[w].moved = {}

OnTrack(w) ==
    walk[w].pc = "going" /\ ~ByDistance(w) /\ ~walk[w].strayed /\ walk[w].cursor \notin walk[w].moved

\* Nothing a walk has shown lies beyond its cursor.
Past(w) ==
    OnTrack(w) \/ (walk[w].pc = "going" /\ ~ByDistance(w) /\ ByDate(w)) =>
       \A p \in Shown(w) \ walk[w].moved : ~Ahead(walk[w].sort, walk[w].cursor, p)

\* What it has yet to show does not lie before it.
ToCome(w) ==
    OnTrack(w) /\ ~walk[w].short =>
       \A p \in walk[w].steady \ (walk[w].moved \cup walk[w].tied \cup Shown(w)) :
          InRange(walk[w].near, p) => ~Ahead(walk[w].sort, p, walk[w].cursor)

Repeated(w) ==
    ~ByDistance(w) =>
       \A i, j \in DOMAIN walk[w].pages : i # j =>
          \A p \in walk[w].pages[i] \cap walk[w].pages[j] :
             \/ p \in walk[w].tied
             \/ /\ walk[w].sort \in {"price_asc", "price_desc"}
                /\ walk[w].strayed \/ p \in walk[w].moved

Missed(w) ==
    walk[w].pc = "ended" /\ ~ByDistance(w) =>
       \A p \in walk[w].steady \ (walk[w].moved \cup walk[w].tied \cup Shown(w)) :
          InRange(walk[w].near, p) => walk[w].short \/ walk[w].strayed

WalkInv(w) == WalkOK(w) /\ Past(w) /\ ToCome(w) /\ Repeated(w) /\ Missed(w)

SearchInv == SearchTypeOK /\ \A w \in Walk : WalkInv(w)

LEMMA AheadIsWeak ==
    ASSUME SearchTypeOK, NEW sort \in Sort, NEW p \in Listed, NEW q \in Listed, NEW r \in Listed,
           ~Ahead(sort, p, q), ~Ahead(sort, q, r)
    PROVE  ~Ahead(sort, p, r)
<1>1. /\ rows[p].createdAt \in Nat /\ rows[q].createdAt \in Nat /\ rows[r].createdAt \in Nat
      /\ rows[p].price \in Nat /\ rows[q].price \in Nat /\ rows[r].price \in Nat
  BY ListedRow
<1>2. QED
  BY <1>1 DEF Ahead, Sort

LEMMA ShownPages ==
    ASSUME NEW w, NEW p
    PROVE  p \in Shown(w) <=> \E i \in DOMAIN walk[w].pages : p \in walk[w].pages[i]
BY DEF Shown

LEMMA InitSearch == ASSUME SearchInit PROVE SearchInv
<1>1. SearchTypeOK
  <2>3. [createdAt: 0 .. MaxTime, price: Price, distance: Distance, matches: {TRUE}] \subseteq Row
    BY DEF Row
  <2>4. rows \in [Property -> Row \cup {None}]
    BY <2>3 DEF SearchInit
  <2>5. NewWalk \in Walked
    BY DEF NewWalk, Walked, Sort
  <2>6. QED
    BY <2>4, <2>5, SearchAssumption DEF SearchInit, SearchTypeOK
<1>3. ASSUME NEW w \in Walk PROVE WalkInv(w)
  <2>1. walk[w] = NewWalk /\ walk[w].pages = <<>> /\ walk[w].pc = "new" /\ walk[w].steady = {} /\ walk[w].moved = {}
    BY DEF SearchInit, NewWalk
  <2>2. DOMAIN walk[w].pages = {} /\ Shown(w) = {}
    BY <2>1 DEF Shown
  <2>3. QED
    BY <2>1, <2>2 DEF WalkInv, WalkOK, Past, ToCome, OnTrack, Repeated, Missed
<1>4. QED
  BY <1>1, <1>3 DEF SearchInv

\* What a change of the listings does to a walk: one under way knows of the
\* listing that no longer matches, or that has moved.
Notes(w) ==
    /\ Listed \subseteq Listed'
    /\ \A p \in Listed : /\ rows'[p].createdAt = rows[p].createdAt
                         /\ rows'[p].distance = rows[p].distance
    /\ walk'[w].pc = walk[w].pc /\ walk'[w].sort = walk[w].sort /\ walk'[w].near = walk[w].near
    /\ walk'[w].cursor = walk[w].cursor /\ walk'[w].pages = walk[w].pages
    /\ walk'[w].short = walk[w].short /\ walk'[w].strayed = walk[w].strayed
    /\ walk'[w].tied = walk[w].tied
    /\ walk'[w].steady \subseteq walk[w].steady
    /\ walk[w].moved \subseteq walk'[w].moved
    /\ walk[w].pc # "going" => walk'[w] = walk[w]
    /\ walk[w].pc = "going" => walk'[w].steady \subseteq Matching'
    /\ IF ByDate(w) THEN walk'[w].moved = walk[w].moved
                    ELSE walk[w].pc = "going" =>
                           \A p \in Listed \ walk'[w].moved : rows'[p].price = rows[p].price

LEMMA ChangeKeeps ==
    ASSUME SearchInv, NEW w \in Walk, Notes(w)
    PROVE  WalkInv(w)'
<1>1. WalkInv(w) /\ walk[w] \in Walked /\ walk[w].sort \in Sort
  BY DEF SearchInv, SearchTypeOK, Walked
<1>. PICK sort, near, cursor : sort = walk[w].sort /\ near = walk[w].near /\ cursor = walk[w].cursor
  OBVIOUS
<1>. PICK steady, moved : steady = walk'[w].steady /\ moved = walk'[w].moved
  OBVIOUS
<1>2. /\ walk'[w].pc = walk[w].pc /\ walk'[w].sort = sort /\ walk'[w].near = near
      /\ walk'[w].cursor = cursor /\ walk'[w].pages = walk[w].pages
      /\ walk'[w].short = walk[w].short /\ walk'[w].strayed = walk[w].strayed
      /\ walk'[w].tied = walk[w].tied
      /\ steady \subseteq walk[w].steady /\ walk[w].moved \subseteq moved
      /\ walk[w].pc # "going" => walk'[w] = walk[w]
      /\ ByDate(w) => moved = walk[w].moved
  BY DEF Notes
<1>3. Shown(w)' = Shown(w) /\ (ByDistance(w)' <=> ByDistance(w)) /\ (ByDate(w)' <=> ByDate(w))
  BY <1>2 DEF Shown, ByDistance, ByDate
<1>4. WalkOK(w)'
  <2>1. walk[w].pc = "new" => walk'[w] = NewWalk
    BY <1>1, <1>2 DEF WalkInv, WalkOK
  <2>2. WalkOK(w)
    BY <1>1 DEF WalkInv
  <2>3. Listed \subseteq Listed' /\ (walk[w].pc = "going" => steady \subseteq Matching')
    BY DEF Notes
  <2>4. QED
    BY <1>2, <1>3, <2>1, <2>2, <2>3 DEF WalkOK
<1>5. Repeated(w)'
  BY <1>1, <1>2, <1>3 DEF WalkInv, Repeated
<1>6. \A p \in Listed : InRange(near, p)' <=> InRange(near, p)
  BY DEF InRange, Notes
<1>7. walk[w].pc = "going" => \A p \in Listed \ moved, q \in Listed \ moved :
         Ahead(sort, p, q)' <=> Ahead(sort, p, q)
  <2>1. CASE sort \in {"recency", "distance"}
    BY <2>1 DEF Ahead, Notes
  <2>2. CASE sort \in {"price_asc", "price_desc"}
    BY <2>2 DEF Ahead, Notes, ByDate
  <2>3. QED
    BY <1>1, <2>1, <2>2 DEF Sort
<1>8. Past(w)'
  <2>. SUFFICES ASSUME NEW p \in Shown(w) \ moved,
                       OnTrack(w)' \/ (walk[w].pc = "going" /\ ~ByDistance(w) /\ ByDate(w))
                PROVE  ~Ahead(sort, cursor, p)'
    BY <1>2, <1>3 DEF Past
  <2>1. walk[w].pc = "going" /\ cursor \in Listed /\ p \in Listed
    BY <1>1, <1>2 DEF OnTrack, WalkInv, WalkOK
  <2>2. OnTrack(w)' => cursor \notin moved /\ OnTrack(w)
    BY <1>2, <1>3 DEF OnTrack
  <2>3. ByDate(w) => cursor \notin moved
    BY <1>1, <1>2 DEF WalkInv, WalkOK
  <2>4. ~Ahead(sort, cursor, p)
    BY <1>1, <1>2, <2>2 DEF WalkInv, Past
  <2>5. QED
    BY <1>7, <2>1, <2>2, <2>3, <2>4
<1>9. ToCome(w)'
  <2>. SUFFICES ASSUME OnTrack(w)', ~walk[w].short, NEW p \in steady \ (moved \cup walk[w].tied \cup Shown(w)),
                       InRange(near, p)'
                PROVE  ~Ahead(sort, p, cursor)'
    BY <1>2, <1>3 DEF ToCome
  <2>1. OnTrack(w) /\ cursor \notin moved /\ walk[w].pc = "going"
    BY <1>2, <1>3 DEF OnTrack
  <2>2. cursor \in Listed /\ p \in Listed
    BY <1>1, <1>2, <2>1 DEF WalkInv, WalkOK
  <2>3. InRange(near, p)
    BY <1>6, <2>2
  <2>4. ~Ahead(sort, p, cursor)
    BY <1>1, <1>2, <2>1, <2>3 DEF WalkInv, ToCome
  <2>5. QED
    BY <1>7, <2>1, <2>2, <2>4
<1>10. Missed(w)'
  <2>. SUFFICES ASSUME walk[w].pc = "ended", ~ByDistance(w), NEW p \in steady \ (moved \cup walk[w].tied \cup Shown(w)),
                       InRange(near, p)'
                PROVE  walk[w].short \/ walk[w].strayed
    BY <1>2, <1>3 DEF Missed
  <2>1. p \in Listed
    BY <1>1, <1>2 DEF WalkInv, WalkOK
  <2>2. InRange(near, p)
    BY <1>6, <2>1
  <2>3. QED
    BY <1>1, <1>2, <2>2 DEF WalkInv, Missed
<1>11. QED
  BY <1>4, <1>5, <1>8, <1>9, <1>10 DEF WalkInv

LEMMA ChangeRows ==
    ASSUME SearchInv, NEW p \in Listed, NEW row \in Row, rows' = [rows EXCEPT ![p] = row],
           row.createdAt = rows[p].createdAt
    PROVE  /\ rows' \in [Property -> Row \cup {None}]
           /\ Listed' = Listed
           /\ \A q \in Listed : rows'[q].createdAt = rows[q].createdAt
           /\ rows'[p] = row /\ \A q \in Listed \ {p} : rows'[q] = rows[q]
<1>1. p \in Property /\ rows \in [Property -> Row \cup {None}] /\ row # None
  BY NoListingIsNone DEF SearchInv, SearchTypeOK, Listed
<1>2. rows'[p] = row /\ \A q \in Property \ {p} : rows'[q] = rows[q]
  BY <1>1
<1>3. Listed' = Listed /\ rows' \in [Property -> Row \cup {None}]
  BY <1>1, <1>2 DEF Listed
<1>4. \A q \in Listed : q \in Property /\ rows'[q].createdAt = rows[q].createdAt
  BY <1>2 DEF Listed
<1>5. QED
  BY <1>2, <1>3, <1>4 DEF Listed

LEMMA UnlistStep == ASSUME SearchInv, NEW p \in Property, Unlist(p) PROVE SearchInv'
<1>. DEFINE row == [rows[p] EXCEPT !.matches = FALSE]
            step(w) == IF walk[w].pc = "going"
                       THEN [walk[w] EXCEPT !.steady = walk[w].steady \ {p}] ELSE walk[w]
<1>1. p \in Listed /\ rows[p] \in Row
  BY ListedRow DEF Unlist, Matching, SearchInv
<1>2. row \in Row /\ row.createdAt = rows[p].createdAt /\ row.distance = rows[p].distance
      /\ row.price = rows[p].price /\ row.matches = FALSE
  BY <1>1 DEF Row
<1>3. rows' = [rows EXCEPT ![p] = row]
  BY DEF Unlist
<1>4. /\ rows' \in [Property -> Row \cup {None}]
      /\ Listed' = Listed
      /\ \A q \in Listed : rows'[q].createdAt = rows[q].createdAt
      /\ rows'[p] = row /\ \A q \in Listed \ {p} : rows'[q] = rows[q]
  <2>. HIDE DEF row
  <2>1. QED
    BY <1>1, <1>2, <1>3, ChangeRows
<1>5. /\ Matching' = Matching \ {p}
      /\ \A q \in Listed : rows'[q].price = rows[q].price /\ rows'[q].distance = rows[q].distance
  BY <1>1, <1>2, <1>4 DEF Matching
<1>6. walk' = [w \in Walk |-> step(w)]
  BY DEF Unlist, Unsteady
<1>7. SearchTypeOK'
  <2>1. \A w \in Walk : step(w) \in Walked
    BY DEF SearchInv, SearchTypeOK, Walked
  <2>2. changes' \in 0 .. MaxChanges
    BY SearchAssumption DEF Unlist, Changing, SearchInv, SearchTypeOK
  <2>3. QED
    BY <1>4, <1>6, <2>1, <2>2 DEF SearchTypeOK
<1>8. ASSUME NEW w \in Walk PROVE WalkInv(w)'
  <2>1. walk[w] \in Walked /\ WalkOK(w) /\ walk'[w] = step(w)
    BY <1>6 DEF SearchInv, SearchTypeOK, WalkInv
  <2>2. Notes(w)
    BY <1>4, <1>5, <2>1 DEF Notes, WalkOK, Walked
  <2>3. QED
    BY <2>2, ChangeKeeps
<1>9. QED
  BY <1>4, <1>7, <1>8 DEF SearchInv

LEMMA RelistStep == ASSUME SearchInv, NEW p \in Property, Relist(p) PROVE SearchInv'
<1>. DEFINE row == [rows[p] EXCEPT !.matches = TRUE]
<1>1. p \in Listed /\ rows[p] \in Row
  BY ListedRow DEF Relist, SearchInv
<1>2. row \in Row /\ row.createdAt = rows[p].createdAt /\ row.distance = rows[p].distance
      /\ row.price = rows[p].price /\ row.matches = TRUE
  BY <1>1 DEF Row
<1>3. rows' = [rows EXCEPT ![p] = row] /\ walk' = walk
  BY DEF Relist
<1>4. /\ rows' \in [Property -> Row \cup {None}]
      /\ Listed' = Listed
      /\ \A q \in Listed : rows'[q].createdAt = rows[q].createdAt
      /\ rows'[p] = row /\ \A q \in Listed \ {p} : rows'[q] = rows[q]
  <2>. HIDE DEF row
  <2>1. QED
    BY <1>1, <1>2, <1>3, ChangeRows
<1>5. /\ Matching \subseteq Matching'
      /\ \A q \in Listed : rows'[q].price = rows[q].price /\ rows'[q].distance = rows[q].distance
  BY <1>1, <1>2, <1>4 DEF Matching
<1>6. SearchTypeOK'
  <2>1. changes' \in 0 .. MaxChanges
    BY SearchAssumption DEF Relist, Changing, SearchInv, SearchTypeOK
  <2>2. QED
    BY <1>3, <1>4, <2>1 DEF SearchInv, SearchTypeOK
<1>7. ASSUME NEW w \in Walk PROVE WalkInv(w)'
  <2>1. WalkOK(w)
    BY DEF SearchInv, WalkInv
  <2>2. Notes(w)
    BY <1>3, <1>4, <1>5, <2>1 DEF Notes, WalkOK
  <2>3. QED
    BY <2>2, ChangeKeeps
<1>8. QED
  BY <1>4, <1>6, <1>7 DEF SearchInv

LEMMA RepriceStep == ASSUME SearchInv, NEW p \in Property, Reprice(p) PROVE SearchInv'
<1>1. p \in Listed /\ rows[p] \in Row
  BY ListedRow DEF Reprice, SearchInv
<1>. PICK c \in Price : rows' = [rows EXCEPT ![p].price = c]
  BY DEF Reprice
<1>. DEFINE row == [rows[p] EXCEPT !.price = c]
            Follows(w) == walk[w].pc = "going" /\ walk[w].sort \in {"price_asc", "price_desc"}
            step(w) == IF Follows(w)
                       THEN [walk[w] EXCEPT !.moved = walk[w].moved \cup {p}] ELSE walk[w]
<1>2. row \in Row /\ row.createdAt = rows[p].createdAt /\ row.distance = rows[p].distance
      /\ row.matches = rows[p].matches
  BY <1>1 DEF Row
<1>3. rows' = [rows EXCEPT ![p] = row]
  OBVIOUS
<1>4. /\ rows' \in [Property -> Row \cup {None}]
      /\ Listed' = Listed
      /\ \A q \in Listed : rows'[q].createdAt = rows[q].createdAt
      /\ rows'[p] = row /\ \A q \in Listed \ {p} : rows'[q] = rows[q]
  <2>. HIDE DEF row
  <2>1. QED
    BY <1>1, <1>2, <1>3, ChangeRows
<1>5. Matching' = Matching /\ \A q \in Listed : rows'[q].distance = rows[q].distance
  BY <1>1, <1>2, <1>4 DEF Matching
<1>6. walk' = [w \in Walk |-> step(w)]
  BY DEF Reprice
<1>7. SearchTypeOK'
  <2>1. \A w \in Walk : step(w) \in Walked
    BY DEF SearchInv, SearchTypeOK, Walked
  <2>2. changes' \in 0 .. MaxChanges
    BY SearchAssumption DEF Reprice, Changing, SearchInv, SearchTypeOK
  <2>3. QED
    BY <1>4, <1>6, <2>1, <2>2 DEF SearchTypeOK
<1>8. ASSUME NEW w \in Walk PROVE WalkInv(w)'
  <2>1. walk[w] \in Walked /\ WalkOK(w) /\ walk'[w] = step(w)
    BY <1>6 DEF SearchInv, SearchTypeOK, WalkInv
  <2>2. ~ByDate(w) /\ walk[w].pc = "going" => p \in walk'[w].moved
    BY <2>1 DEF Walked, Sort, ByDate
  <2>3. Notes(w)
    BY <1>4, <1>5, <2>1, <2>2 DEF Notes, WalkOK, Walked, ByDate
  <2>4. QED
    BY <2>3, ChangeKeeps
<1>9. QED
  BY <1>4, <1>7, <1>8 DEF SearchInv

LEMMA ListStep == ASSUME SearchInv, NEW p \in Property, List(p) PROVE SearchInv'
<1>. PICK t \in 0 .. MaxTime, c \in Price, d \in Distance :
       rows' = [rows EXCEPT ![p] = [createdAt |-> t, price |-> c, distance |-> d, matches |-> TRUE]]
  BY DEF List
<1>. DEFINE row == [createdAt |-> t, price |-> c, distance |-> d, matches |-> TRUE]
<1>1. row \in Row /\ row # None /\ p \notin Listed
  <2>1. row \in Row
    BY DEF Row
  <2>2. QED
    BY <2>1, NoListingIsNone DEF List, Listed
<1>2. /\ rows' \in [Property -> Row \cup {None}]
      /\ rows'[p] = row /\ \A q \in Property \ {p} : rows'[q] = rows[q]
  BY <1>1 DEF SearchInv, SearchTypeOK
<1>3. Listed' = Listed \cup {p} /\ \A q \in Listed : rows'[q] = rows[q]
  BY <1>1, <1>2 DEF Listed
<1>5. Matching \subseteq Matching' /\ walk' = walk
  BY <1>3 DEF Matching, List
<1>7. SearchTypeOK'
  <2>1. changes' \in 0 .. MaxChanges
    BY SearchAssumption DEF List, Changing, SearchInv, SearchTypeOK
  <2>2. QED
    BY <1>2, <1>5, <2>1 DEF SearchInv, SearchTypeOK
<1>8. ASSUME NEW w \in Walk PROVE WalkInv(w)'
  <2>1. WalkOK(w)
    BY DEF SearchInv, WalkInv
  <2>2. Notes(w)
    BY <1>3, <1>5, <2>1 DEF Notes, WalkOK
  <2>3. QED
    BY <2>2, ChangeKeeps
<1>9. QED
  BY <1>7, <1>8 DEF SearchInv

\* A page as the walk sees it: a part of what the order has after the cursor,
\* the whole front of it unless the walk goes by distance or the filter cut.
Turn(w, sort, near, at, rest, data, last, more, cut) ==
    /\ at \in Orders(sort) /\ rest \in SUBSET Matching /\ data \in SUBSET rest
    /\ more \in BOOLEAN /\ cut \in BOOLEAN
    /\ \/ walk[w].pc = "new" /\ rest = Matching
       \/ /\ walk[w].pc = "going" /\ sort = walk[w].sort /\ near = walk[w].near
          /\ IF walk[w].cursor \in Matching
             THEN rest = {p \in Matching : at[p] > at[walk[w].cursor]}
             ELSE \A p \in rest : ~Ahead(sort, p, walk[w].cursor)
    /\ more => last \in data
    /\ (near /\ sort = "distance") \/ (more => \A q \in data : at[q] <= at[last])
    /\ \/ (near /\ sort = "distance") \/ cut
       \/ IF more THEN \A p \in rest \ data : at[last] < at[p] ELSE data = rest
    /\ walk' = [walk EXCEPT ![w] =
          [pc      |-> IF more THEN "going" ELSE "ended",
           sort    |-> sort,
           near    |-> near,
           cursor  |-> IF more THEN last ELSE None,
           pages   |-> Append(walk[w].pages, data),
           steady  |-> IF walk[w].pc = "new" THEN Matching ELSE walk[w].steady,
           moved   |-> walk[w].moved,
           tied    |-> walk[w].tied \cup (IF walk[w].pc = "new" THEN {}
                                           ELSE Equals(sort, walk[w].cursor)),
           short   |-> walk[w].short \/ cut,
           strayed |-> walk[w].strayed
                          \/ (walk[w].pc # "new" /\ walk[w].cursor \notin Matching \ walk[w].moved)]]
    /\ rows' = rows /\ changes' = changes

LEMMA PageIsTurn ==
    ASSUME SearchInv, NEW w \in Walk, NEW sort \in Sort, NEW near \in BOOLEAN, Page(w, sort, near),
           \/ walk[w].pc = "new"
           \/ walk[w].pc = "going" /\ sort = walk[w].sort /\ near = walk[w].near,
           UNCHANGED <<rows, changes>>
    PROVE  \E at, rest, data, last, more, cut : Turn(w, sort, near, at, rest, data, last, more, cut)
<1>1. WalkOK(w) /\ SearchTypeOK
  BY DEF SearchInv, WalkInv
<1>. DEFINE Shows(rest, at) ==
        walk' = [walk EXCEPT ![w] =
          [pc      |-> IF Cardinality(Filtered(near, rest, at)) > Limit THEN "going" ELSE "ended",
           sort    |-> sort,
           near    |-> near,
           cursor  |-> IF Cardinality(Filtered(near, rest, at)) > Limit
                       THEN LastOf(Data(near, rest, at, Sorted(sort, near, at)), Sorted(sort, near, at))
                       ELSE None,
           pages   |-> Append(walk[w].pages, Data(near, rest, at, Sorted(sort, near, at))),
           steady  |-> IF walk[w].pc = "new" THEN Matching ELSE walk[w].steady,
           moved   |-> walk[w].moved,
           tied    |-> walk[w].tied \cup (IF walk[w].pc = "new" THEN {}
                                           ELSE Equals(sort, walk[w].cursor)),
           short   |-> walk[w].short \/ Filtered(near, rest, at) # Take(rest, at),
           strayed |-> walk[w].strayed
                          \/ (walk[w].pc # "new" /\ walk[w].cursor \notin Matching \ walk[w].moved)]]
<1>2. PICK at \in Orders(sort) : \E rest \in Rest(sort, at, walk[w].cursor) : Shows(rest, at)
  BY DEF Page, Data, Filtered
<1>2a. PICK rest \in Rest(sort, at, walk[w].cursor) : Shows(rest, at)
  BY <1>2
<1>. PICK data, last, more, cut :
       /\ data = Data(near, rest, at, Sorted(sort, near, at))
       /\ last = LastOf(Data(near, rest, at, Sorted(sort, near, at)), Sorted(sort, near, at))
       /\ more = (Cardinality(Filtered(near, rest, at)) > Limit)
       /\ cut = (Filtered(near, rest, at) # Take(rest, at))
  OBVIOUS
<1>3. /\ rest \in SUBSET Matching
      /\ walk[w].pc = "new" => rest = Matching
      /\ walk[w].pc = "going" =>
            IF walk[w].cursor \in Matching
            THEN rest = {p \in Matching : at[p] > at[walk[w].cursor]}
            ELSE \A p \in rest : ~Ahead(sort, p, walk[w].cursor)
  <2>1. walk[w].pc = "new" => walk[w].cursor = None
    BY <1>1 DEF WalkOK, NewWalk
  <2>2. walk[w].pc = "going" => walk[w].cursor # None
    BY <1>1, SearchAssumption DEF WalkOK, Listed
  <2>3. CASE walk[w].cursor = None
    <3>1. rest \in {Matching}
      BY <2>3, SearchAssumption DEF Rest, Matching, Listed
    <3>2. QED
      BY <2>2, <2>3, <3>1
  <2>4. CASE walk[w].cursor # None /\ walk[w].cursor \in Matching
    BY <2>1, <2>4 DEF Rest
  <2>5. CASE walk[w].cursor # None /\ walk[w].cursor \notin Matching
    <3>1. rest \in SUBSET {p \in Matching : ~Ahead(sort, p, walk[w].cursor)}
      BY <2>5 DEF Rest
    <3>2. QED
      BY <2>1, <2>5, <3>1
  <2>6. QED
    BY <2>3, <2>4, <2>5
<1>4. (\A p \in Matching : at[p] \in Nat) /\ (\A p \in Matching : Sorted(sort, near, at)[p] \in Nat)
  BY <1>1, OrderFacts
<1>5. /\ data \in SUBSET rest
      /\ more => last \in data /\ \A q \in data : Sorted(sort, near, at)[q] <= Sorted(sort, near, at)[last]
  BY <1>3, <1>4, PageFacts
<1>6. ~(near /\ sort = "distance") =>
        /\ more => \A q \in data : at[q] <= at[last]
        /\ cut \/ IF more THEN \A p \in rest \ data : at[last] < at[p] ELSE data = rest
  <2>. SUFFICES ASSUME ~(near /\ sort = "distance")
                PROVE  /\ more => \A q \in data : at[q] <= at[last]
                       /\ cut \/ IF more THEN \A p \in rest \ data : at[last] < at[p] ELSE data = rest
    OBVIOUS
  <2>1. Sorted(sort, near, at) = at
    BY DEF Sorted
  <2>2. ~cut => IF more THEN \A p \in rest \ data : at[last] < at[p] ELSE data = rest
    BY <1>3, <1>4, <2>1, PageIsFront
  <2>3. QED
    BY <1>5, <2>1, <2>2
<1>7. more \in BOOLEAN /\ cut \in BOOLEAN
  OBVIOUS
<1>8. Turn(w, sort, near, at, rest, data, last, more, cut)
  BY <1>2a, <1>3, <1>5, <1>6, <1>7 DEF Turn
<1>9. QED
  BY <1>8

LEMMA TurnTypes ==
    ASSUME SearchInv, NEW w \in Walk, NEW sort \in Sort, NEW near \in BOOLEAN,
           NEW at, NEW rest, NEW data, NEW last, NEW more, NEW cut,
           Turn(w, sort, near, at, rest, data, last, more, cut)
    PROVE  /\ SearchTypeOK' /\ Listed' = Listed /\ Matching' = Matching
           /\ \A v \in Walk \ {w} : walk'[v] = walk[v]
           /\ walk'[w].pages = Append(walk[w].pages, data) /\ Shown(w)' = Shown(w) \cup data
           /\ DOMAIN walk'[w].pages = DOMAIN walk[w].pages \cup {Len(walk[w].pages) + 1}
           /\ walk'[w].pages[Len(walk[w].pages) + 1] = data
           /\ \A i \in DOMAIN walk[w].pages : walk'[w].pages[i] = walk[w].pages[i]
           /\ WalkOK(w)'
<1>1. WalkOK(w) /\ walk[w] \in Walked /\ walk[w].pages \in Seq(SUBSET Property)
  BY DEF SearchInv, SearchTypeOK, WalkInv, Walked
<1>2. data \in SUBSET Matching /\ data \in SUBSET Property /\ (more => last \in Matching /\ last \in Property)
  BY DEF Turn, Matching, Listed
<1>3. Listed' = Listed /\ Matching' = Matching
  <2>1. rows' = rows
    BY DEF Turn
  <2>2. QED
    BY <2>1 DEF Listed, Matching
<1>4. walk'[w] \in Walked /\ \A v \in Walk \ {w} : walk'[v] = walk[v]
  <2>1. Append(walk[w].pages, data) \in Seq(SUBSET Property)
    BY <1>1, <1>2
  <2>2. Matching \in SUBSET Property
    BY DEF Matching, Listed
  <2>3. Equals(sort, walk[w].cursor) \in SUBSET Property
    BY <2>2 DEF Equals
  <2>4. QED
    BY <1>1, <1>2, <2>1, <2>2, <2>3 DEF Turn, SearchInv, SearchTypeOK, Walked
<1>5. /\ walk'[w].pages = Append(walk[w].pages, data) /\ walk'[w].sort = sort /\ walk'[w].near = near
      /\ walk'[w].moved = walk[w].moved /\ walk'[w].pc \in {"going", "ended"}
      /\ walk'[w].pc = "going" => walk'[w].cursor \in data
      /\ walk'[w].steady = IF walk[w].pc = "new" THEN Matching ELSE walk[w].steady
  BY DEF Turn, SearchInv, SearchTypeOK
<1>6. SearchTypeOK'
  <2>1. walk' \in [Walk -> Walked]
    BY <1>4 DEF Turn, SearchInv, SearchTypeOK
  <2>2. QED
    BY <2>1 DEF Turn, SearchInv, SearchTypeOK
<1>7. /\ DOMAIN walk'[w].pages = DOMAIN walk[w].pages \cup {Len(walk[w].pages) + 1}
      /\ walk'[w].pages[Len(walk[w].pages) + 1] = data
      /\ \A i \in DOMAIN walk[w].pages : walk'[w].pages[i] = walk[w].pages[i]
  BY <1>1, <1>5
<1>8. Shown(w)' = Shown(w) \cup data
  <2>. DEFINE k == Len(walk[w].pages) + 1
  <2>1. \A p : p \in Shown(w)' <=> \E i \in DOMAIN walk'[w].pages : p \in walk'[w].pages[i]
    BY DEF Shown
  <2>2. \A p : p \in Shown(w) <=> \E i \in DOMAIN walk[w].pages : p \in walk[w].pages[i]
    BY DEF Shown
  <2>. HIDE DEF k
  <2>3. \A p : p \in Shown(w)' <=> p \in Shown(w) \/ p \in data
    BY <1>7, <2>1, <2>2 DEF k
  <2>4. QED
    BY <2>3
<1>9. WalkOK(w)'
  <2>1. data \subseteq Listed /\ Matching \subseteq Listed
    BY <1>2 DEF Matching
  <2>2. ByDate(w)' => walk'[w].moved = {}
    <3>1. walk[w].pc = "new" => walk[w].moved = {}
      BY <1>1 DEF WalkOK, NewWalk
    <3>2. walk[w].pc # "new" => sort = walk[w].sort
      BY DEF Turn
    <3>3. QED
      BY <1>1, <1>5, <3>1, <3>2 DEF WalkOK, ByDate
  <2>3. walk'[w].pc = "going" => walk'[w].cursor \in Shown(w)' /\ walk'[w].steady \subseteq Matching'
    <3>1. walk[w].pc # "new" => walk[w].steady \subseteq Matching
      BY <1>1 DEF Turn, WalkOK
    <3>2. QED
      BY <1>3, <1>5, <1>8, <2>1, <3>1
  <2>4. Shown(w)' \cup walk'[w].steady \subseteq Listed'
    BY <1>1, <1>3, <1>5, <1>8, <2>1 DEF WalkOK
  <2>5. QED
    BY <1>5, <2>2, <2>3, <2>4 DEF WalkOK
<1>10. QED
  BY <1>3, <1>4, <1>5, <1>6, <1>7, <1>8, <1>9

\* The walk goes by what its rows are ordered by, and its cursor has its place.
Sure(w, sort, near) ==
    ~(near /\ sort = "distance") /\ (sort \in {"recency", "distance"} \/ ~walk'[w].strayed)

\* What a turn does to the position of such a walk.
LEMMA TurnMoves ==
    ASSUME SearchInv, NEW w \in Walk, NEW sort \in Sort, NEW near \in BOOLEAN,
           NEW at, NEW rest, NEW data, NEW last, NEW more, NEW cut,
           Turn(w, sort, near, at, rest, data, last, more, cut),
           Sure(w, sort, near)
    PROVE  /\ \A p, q \in Matching : at[p] <= at[q] => ~Ahead(sort, q, p)
           /\ \A p, q \in Matching : Ahead(sort, p, q) => at[p] < at[q]
           /\ \A p \in data \cap Shown(w) : p \in walk[w].moved \cup walk'[w].tied
           /\ more => \A p \in (Shown(w) \cup data) \ walk[w].moved : ~Ahead(sort, last, p)
<1>0. ~(near /\ sort = "distance") /\ (sort \in {"recency", "distance"} \/ ~walk'[w].strayed)
  BY DEF Sure
<1>1. WalkInv(w) /\ SearchTypeOK /\ walk[w] \in Walked
  BY DEF SearchInv, SearchTypeOK
<1>2. /\ at \in Orders(sort) /\ data \in SUBSET rest /\ rest \in SUBSET Matching
      /\ more => last \in data /\ \A q \in data : at[q] <= at[last]
      /\ walk'[w].strayed = (walk[w].strayed
            \/ (walk[w].pc # "new" /\ walk[w].cursor \notin Matching \ walk[w].moved))
      /\ walk[w].pc # "new" => Equals(sort, walk[w].cursor) \subseteq walk'[w].tied
  BY <1>0 DEF Turn, SearchInv, SearchTypeOK
<1>3. Matching \subseteq Listed
  BY DEF Matching
<1>5. /\ \A p, q \in Matching : at[p] <= at[q] => ~Ahead(sort, q, p)
      /\ \A p, q \in Matching : Ahead(sort, p, q) => at[p] < at[q]
      /\ \A p \in Matching : at[p] \in Nat
  <2>1. /\ \A p, q \in Matching : at[p] <= at[q] => ~Ahead(sort, q, p)
        /\ at \in [Matching -> Nat]
    BY <1>1, <1>2, OrderFacts
  <2>2. \A p, q \in Matching : Ahead(sort, p, q) => at[p] < at[q]
    BY <1>2 DEF Orders
  <2>3. QED
    BY <2>1, <2>2
<1>6. CASE walk[w].pc = "new"
  <2>1. Shown(w) = {}
    BY <1>1, <1>6 DEF WalkInv, WalkOK, NewWalk, Shown
  <2>2. QED
    BY <1>2, <1>5, <2>1
<1>7. CASE walk[w].pc # "new"
  <2>. PICK c : c = walk[w].cursor
    OBVIOUS
  <2>1. /\ walk[w].pc = "going" /\ sort = walk[w].sort /\ near = walk[w].near /\ c \in Listed
        /\ IF c \in Matching THEN rest = {p \in Matching : at[p] > at[c]}
                             ELSE \A p \in rest : ~Ahead(sort, p, c)
    BY <1>1, <1>7 DEF Turn, WalkInv, WalkOK
  <2>2. ~ByDistance(w) /\ (OnTrack(w) \/ ByDate(w))
    <3>1. CASE sort \in {"recency", "distance"}
      BY <1>0, <2>1, <3>1 DEF ByDistance, ByDate
    <3>2. CASE ~walk'[w].strayed
      BY <1>0, <1>2, <1>7, <2>1, <3>2 DEF OnTrack, ByDistance
    <3>3. QED
      BY <1>0, <2>1, <3>1, <3>2 DEF ByDistance
  <2>3. \A p \in Shown(w) \ walk[w].moved : ~Ahead(sort, c, p)
    BY <1>1, <2>1, <2>2 DEF WalkInv, Past
  <2>4. \A p \in rest : ~Ahead(sort, p, c) /\ p # c
    <3>1. CASE c \in Matching
      BY <1>5, <2>1, <3>1
    <3>2. CASE c \notin Matching
      BY <1>2, <2>1, <3>2
    <3>3. QED
      BY <3>1, <3>2
  <2>6. \A p \in data \cap Shown(w) : p \in walk[w].moved \cup walk'[w].tied
    BY <1>2, <1>7, <2>3, <2>4 DEF Equals
  <2>7. ASSUME more, NEW p \in (Shown(w) \cup data) \ walk[w].moved PROVE ~Ahead(sort, last, p)
    <3>1. p \in data \/ p \in Shown(w) \ walk[w].moved
      OBVIOUS
    <3>2. last \in data /\ last \in rest /\ last \in Matching /\ last \in Listed
      BY <1>2, <1>3, <2>7
    <3>3. CASE p \in data
      BY <1>2, <1>5, <2>7, <3>2, <3>3
    <3>4. CASE p \in Shown(w) \ walk[w].moved
      <4>1. p \in Listed
        BY <1>1, <3>4 DEF WalkInv, WalkOK
      <4>2. ~Ahead(sort, last, c) /\ ~Ahead(sort, c, p)
        BY <2>3, <2>4, <3>2, <3>4
      <4>3. QED
        BY <1>1, <2>1, <3>2, <4>1, <4>2, AheadIsWeak
    <3>5. QED
      BY <3>1, <3>3, <3>4
  <2>8. QED
    BY <1>5, <2>6, <2>7
<1>8. QED
  BY <1>6, <1>7

\* What the walk has still to show lies behind the new cursor, and there is
\* none where there is no new cursor.
LEMMA TurnLeaves ==
    ASSUME SearchInv, NEW w \in Walk, NEW sort \in Sort, NEW near \in BOOLEAN,
           NEW at, NEW rest, NEW data, NEW last, NEW more, NEW cut,
           Turn(w, sort, near, at, rest, data, last, more, cut),
           ~(near /\ sort = "distance"), ~walk'[w].strayed, ~walk'[w].short,
           NEW p \in walk'[w].steady \ (walk[w].moved \cup walk'[w].tied \cup Shown(w)'), InRange(near, p)
    PROVE  more /\ ~Ahead(sort, p, last)
<1>1. WalkInv(w) /\ walk[w] \in Walked
  BY DEF SearchInv, SearchTypeOK
<1>2. /\ data \in SUBSET rest /\ rest \in SUBSET Matching /\ more \in BOOLEAN
      /\ more => last \in data
      /\ walk'[w].steady = IF walk[w].pc = "new" THEN Matching ELSE walk[w].steady
      /\ walk'[w].short = (walk[w].short \/ cut)
      /\ walk'[w].strayed = (walk[w].strayed
            \/ (walk[w].pc # "new" /\ walk[w].cursor \notin Matching \ walk[w].moved))
      /\ walk[w].tied \subseteq walk'[w].tied
      /\ walk[w].pc # "new" => Equals(sort, walk[w].cursor) \subseteq walk'[w].tied
  BY DEF Turn, SearchInv, SearchTypeOK
<1>3. p \notin data /\ p \notin Shown(w)
  BY TurnTypes
<1>4. /\ \A q, r \in Matching : at[q] <= at[r] => ~Ahead(sort, r, q)
      /\ \A q, r \in Matching : Ahead(sort, q, r) => at[q] < at[r]
  BY TurnMoves DEF Sure
<1>5. at \in [Matching -> Nat]
  BY OrderFacts DEF Turn, SearchInv
<1>6. p \in rest
  <2>1. CASE walk[w].pc = "new"
    BY <1>2, <2>1 DEF Turn
  <2>2. CASE walk[w].pc # "new"
    <3>1. /\ walk[w].pc = "going" /\ sort = walk[w].sort /\ near = walk[w].near
          /\ walk[w].cursor \in Matching /\ walk[w].cursor \notin walk[w].moved
          /\ rest = {q \in Matching : at[q] > at[walk[w].cursor]}
      BY <1>2, <2>2 DEF Turn
    <3>2. OnTrack(w) /\ ~walk[w].short /\ p \in walk[w].steady /\ p \in Matching
      BY <1>1, <1>2, <2>2, <3>1 DEF OnTrack, ByDistance, WalkInv, WalkOK
    <3>3. Ahead(sort, walk[w].cursor, p)
      <4>1. ~Ahead(sort, p, walk[w].cursor) /\ p # walk[w].cursor
        BY <1>1, <1>2, <1>3, <3>1, <3>2 DEF WalkInv, WalkOK, ToCome
      <4>2. p \notin Equals(sort, walk[w].cursor)
        BY <1>2, <2>2
      <4>3. QED
        BY <3>2, <4>1, <4>2 DEF Equals
    <3>4. at[walk[w].cursor] < at[p]
      BY <1>4, <3>1, <3>2, <3>3
    <3>5. QED
      BY <1>5, <3>1, <3>2, <3>4
  <2>3. QED
    BY <2>1, <2>2
<1>7. more /\ at[last] < at[p]
  BY <1>2, <1>3, <1>6 DEF Turn
<1>8. last \in Matching /\ p \in Matching /\ last # p /\ at[last] \in Nat /\ at[p] \in Nat
  BY <1>2, <1>3, <1>5, <1>6, <1>7
<1>9. QED
  BY <1>4, <1>7, <1>8

LEMMA TurnStep ==
    ASSUME SearchInv, NEW w \in Walk, NEW sort \in Sort, NEW near \in BOOLEAN,
           NEW at, NEW rest, NEW data, NEW last, NEW more, NEW cut,
           Turn(w, sort, near, at, rest, data, last, more, cut)
    PROVE  SearchInv'
<1>1. WalkInv(w) /\ walk[w] \in Walked /\ w \in Walk
  BY DEF SearchInv, SearchTypeOK
<1>2. /\ walk'[w].pc = (IF more THEN "going" ELSE "ended")
      /\ walk'[w].sort = sort /\ walk'[w].near = near /\ walk'[w].moved = walk[w].moved
      /\ walk'[w].cursor = (IF more THEN last ELSE None)
      /\ walk'[w].strayed \in BOOLEAN /\ walk'[w].short \in BOOLEAN
      /\ walk[w].strayed => walk'[w].strayed
      /\ walk[w].tied \subseteq walk'[w].tied
      /\ more \in BOOLEAN /\ rows' = rows
      /\ ~(near /\ sort = "distance") => walk[w].pc = "new" \/ ~ByDistance(w)
  BY DEF Turn, SearchInv, SearchTypeOK, Walked, ByDistance
<1>3. /\ SearchTypeOK' /\ Listed' = Listed /\ Matching' = Matching
      /\ \A v \in Walk \ {w} : walk'[v] = walk[v]
      /\ walk'[w].pages = Append(walk[w].pages, data) /\ Shown(w)' = Shown(w) \cup data
      /\ DOMAIN walk'[w].pages = DOMAIN walk[w].pages \cup {Len(walk[w].pages) + 1}
      /\ walk'[w].pages[Len(walk[w].pages) + 1] = data
      /\ \A i \in DOMAIN walk[w].pages : walk'[w].pages[i] = walk[w].pages[i]
      /\ WalkOK(w)'
  BY TurnTypes
<1>4. (ByDistance(w)' <=> near /\ sort = "distance") /\ (ByDate(w)' <=> sort \in {"recency", "distance"})
  BY <1>2 DEF ByDistance, ByDate
<1>5. \A p, q : Ahead(sort, p, q)' <=> Ahead(sort, p, q)
  BY <1>2 DEF Ahead
<1>6. \A p : InRange(near, p)' <=> InRange(near, p)
  BY <1>2 DEF InRange
<1>6a. ASSUME Sure(w, sort, near), more, NEW q \in (Shown(w) \cup data) \ walk[w].moved
       PROVE  ~Ahead(sort, last, q)
  <2>1. Turn(w, sort, near, at, rest, data, last, TRUE, cut) /\ more = TRUE
    BY <1>2, <1>6a
  <2>2. QED
    BY <1>6a, <2>1, TurnMoves
<1>7. Past(w)'
  <2>. SUFFICES ASSUME OnTrack(w)' \/ (walk'[w].pc = "going" /\ ~ByDistance(w)' /\ ByDate(w)'),
                       NEW p \in Shown(w)' \ walk[w].moved
                PROVE  ~Ahead(sort, last, p)'
    BY <1>2 DEF Past, OnTrack
  <2>1. more /\ Sure(w, sort, near)
    BY <1>2, <1>4 DEF OnTrack, Sure
  <2>2. ~Ahead(sort, last, p)
    BY <1>3, <1>6a, <2>1
  <2>3. QED
    BY <1>5, <2>2
<1>8. ToCome(w)'
  <2>. SUFFICES ASSUME OnTrack(w)', ~walk'[w].short,
                       NEW p \in walk'[w].steady \ (walk[w].moved \cup walk'[w].tied \cup Shown(w)'),
                       InRange(near, p)'
                PROVE  ~Ahead(sort, p, last)'
    BY <1>2 DEF ToCome, OnTrack
  <2>1. ~(near /\ sort = "distance") /\ ~walk'[w].strayed
    BY <1>4 DEF OnTrack
  <2>2. ~Ahead(sort, p, last)
    BY <1>6, <2>1, TurnLeaves
  <2>3. QED
    BY <1>5, <2>2
<1>9. Missed(w)'
  <2>. SUFFICES ASSUME ~more, ~(near /\ sort = "distance"), ~walk'[w].short, ~walk'[w].strayed,
                       NEW p \in walk'[w].steady \ (walk[w].moved \cup walk'[w].tied \cup Shown(w)'),
                       InRange(near, p)'
                PROVE  FALSE
    BY <1>2, <1>4 DEF Missed
  <2>1. QED
    BY <1>6, TurnLeaves
<1>10. Repeated(w)'
  <2>. SUFFICES ASSUME ~(near /\ sort = "distance"),
                       NEW i \in DOMAIN walk'[w].pages, NEW j \in DOMAIN walk'[w].pages, i # j,
                       NEW p \in walk'[w].pages[i] \cap walk'[w].pages[j]
                PROVE  \/ p \in walk'[w].tied
                       \/ /\ sort \in {"price_asc", "price_desc"}
                          /\ walk'[w].strayed \/ p \in walk[w].moved
    BY <1>2, <1>4 DEF Repeated
  <2>1. CASE i \in DOMAIN walk[w].pages /\ j \in DOMAIN walk[w].pages
    <3>1. walk[w].pc # "new"
      BY <1>1, <2>1 DEF WalkInv, WalkOK, NewWalk
    <3>2. ~ByDistance(w) /\ sort = walk[w].sort
      BY <1>2, <3>1 DEF Turn
    <3>3. p \in walk[w].pages[i] \cap walk[w].pages[j]
      BY <1>3, <2>1
    <3>4. \/ p \in walk[w].tied
          \/ walk[w].sort \in {"price_asc", "price_desc"} /\ (walk[w].strayed \/ p \in walk[w].moved)
      BY <1>1, <2>1, <3>2, <3>3 DEF WalkInv, Repeated
    <3>5. QED
      BY <1>2, <3>2, <3>4
  <2>2. CASE ~(i \in DOMAIN walk[w].pages /\ j \in DOMAIN walk[w].pages)
    <3>1. p \in data /\ p \in Shown(w)
      BY <1>3, <2>2, ShownPages
    <3>2. ASSUME sort \in {"recency", "distance"} \/ ~walk'[w].strayed
          PROVE  p \in walk[w].moved \cup walk'[w].tied
      BY <3>1, <3>2, TurnMoves DEF Sure
    <3>3. sort \in {"recency", "distance"} => walk[w].moved = {}
      BY <1>2, <1>3, <1>4 DEF WalkOK
    <3>4. QED
      BY <3>2, <3>3 DEF Sort
  <2>3. QED
    BY <2>1, <2>2
<1>11. WalkInv(w)'
  BY <1>3, <1>7, <1>8, <1>9, <1>10 DEF WalkInv
<1>12. ASSUME NEW v \in Walk \ {w} PROVE WalkInv(v)'
  <2>1. WalkInv(v) /\ walk'[v] = walk[v] /\ rows' = rows /\ Listed' = Listed /\ Matching' = Matching
    BY <1>2, <1>3 DEF SearchInv
  <2>2. QED
    BY <2>1 DEF WalkInv, WalkOK, Past, ToCome, Repeated, Missed, OnTrack, ByDistance, ByDate, Shown,
                Ahead, InRange
<1>13. QED
  BY <1>3, <1>11, <1>12 DEF SearchInv

LEMMA SearchInvHolds == SearchSpec => []SearchInv
<1>1. SearchInit => SearchInv
  BY InitSearch
<1>2. SearchInv /\ [SearchNext]_searchVars => SearchInv'
  <2>. SUFFICES ASSUME SearchInv, [SearchNext]_searchVars PROVE SearchInv'
    OBVIOUS
  <2>1. ASSUME NEW w \in Walk, Begin(w) \/ Continue(w) PROVE SearchInv'
    <3>1. walk[w] \in Walked /\ UNCHANGED <<rows, changes>>
      BY <2>1 DEF Begin, Continue, SearchInv, SearchTypeOK
    <3>2. PICK sort \in Sort, near \in BOOLEAN :
            /\ Page(w, sort, near)
            /\ \/ walk[w].pc = "new"
               \/ walk[w].pc = "going" /\ sort = walk[w].sort /\ near = walk[w].near
      <4>1. CASE Begin(w)
        BY <4>1 DEF Begin
      <4>2. CASE Continue(w)
        BY <3>1, <4>2 DEF Continue, Walked
      <4>3. QED
        BY <2>1, <4>1, <4>2
    <3>3. \E at, rest, data, last, more, cut : Turn(w, sort, near, at, rest, data, last, more, cut)
      BY <3>1, <3>2, PageIsTurn
    <3>4. QED
      BY <3>3, TurnStep
  <2>2. ASSUME NEW p \in Property, List(p) \/ Unlist(p) \/ Relist(p) \/ Reprice(p) PROVE SearchInv'
    BY <2>2, ListStep, UnlistStep, RelistStep, RepriceStep
  <2>3. CASE UNCHANGED searchVars
    BY <2>3 DEF searchVars, SearchInv, SearchTypeOK, Listed, Matching, WalkInv, WalkOK, Past,
                ToCome, Repeated, Missed, OnTrack, ByDistance, ByDate, Shown, Ahead, InRange
  <2>4. QED
    BY <2>1, <2>2, <2>3 DEF SearchNext
<1>3. QED
  BY <1>1, <1>2, PTL DEF SearchSpec

\* Listings and walks always have their types.
THEOREM SearchTypeCorrect == SearchSpec => []SearchTypeOK
<1>1. SearchInv => SearchTypeOK
  BY DEF SearchInv
<1>2. QED
  BY <1>1, SearchInvHolds, PTL

\* A walk that does not go by distance shows a listing twice only when it was
\* equal to a cursor, or, by price, when the cursor lost its place or the
\* listing changed its price.
THEOREM RepeatsHaveAReason == SearchSpec => []RepeatedForAReason
<1>1. SearchInv => RepeatedForAReason
  BY DEF SearchInv, WalkInv, Repeated, RepeatedForAReason
<1>2. QED
  BY <1>1, SearchInvHolds, PTL

\* A walk that came to its end, and does not go by distance, has left out a
\* listing that stayed and was equal to no cursor only when the radius cut a
\* page or the cursor lost its place.
THEOREM MissesHaveAReason == SearchSpec => []MissedForAReason
<1>1. SearchInv => MissedForAReason
  BY DEF SearchInv, WalkInv, Missed, MissedForAReason
<1>2. QED
  BY <1>1, SearchInvHolds, PTL

\* Only a radius shortens a page.
ShortIsNear == \A w \in Walk : walk[w].short => walk[w].near

\* A walk by date that asks for no radius and came to its end has shown every
\* listing that matched all the while, unless the listing that was its cursor
\* was taken down: at the seam of two pages only one as old as the cursor is lost.
NothingLostByDate ==
    \A w \in Walk : walk[w].pc = "ended" /\ ~walk[w].near /\ ByDate(w) /\ ~walk[w].strayed =>
       walk[w].steady \ walk[w].tied \subseteq Shown(w)

LEMMA ShortIsNearHolds == SearchSpec => [](SearchInv /\ ShortIsNear)
<1>1. SearchInit => ShortIsNear
  BY DEF SearchInit, NewWalk, ShortIsNear
<1>2. SearchInv /\ ShortIsNear /\ [SearchNext]_searchVars => ShortIsNear'
  <2>. SUFFICES ASSUME SearchInv, ShortIsNear, [SearchNext]_searchVars PROVE ShortIsNear'
    OBVIOUS
  <2>. walk \in [Walk -> Walked]
    BY DEF SearchInv, SearchTypeOK
  <2>1. ASSUME NEW w \in Walk, Begin(w) \/ Continue(w) PROVE ShortIsNear'
    <3>1. PICK sort \in Sort, near \in BOOLEAN :
            /\ Page(w, sort, near)
            /\ \/ walk[w].pc = "new"
               \/ walk[w].pc = "going" /\ sort = walk[w].sort /\ near = walk[w].near
      <4>1. CASE Begin(w)
        BY <4>1 DEF Begin
      <4>2. CASE Continue(w)
        BY <4>2 DEF Continue, Walked
      <4>3. QED
        BY <2>1, <4>1, <4>2
    <3>2. walk[w].short => near
      BY <3>1 DEF SearchInv, WalkInv, WalkOK, NewWalk, ShortIsNear
    <3>3. PICK at \in Orders(sort) : \E rest \in Rest(sort, at, walk[w].cursor) :
            /\ \A v \in Walk \ {w} : walk'[v] = walk[v]
            /\ walk'[w].near = near
            /\ walk'[w].short =
                  (walk[w].short \/ {p \in Take(rest, at) : InRange(near, p)} # Take(rest, at))
      BY <3>1 DEF Page
    <3>4. walk'[w].short => walk'[w].near
      BY <3>2, <3>3 DEF InRange
    <3>5. QED
      BY <3>3, <3>4 DEF ShortIsNear
  <2>2. ASSUME NEW p \in Property, List(p) \/ Unlist(p) \/ Relist(p) \/ Reprice(p) PROVE ShortIsNear'
    <3>1. \A w \in Walk : walk'[w].short = walk[w].short /\ walk'[w].near = walk[w].near
      BY <2>2 DEF List, Unlist, Unsteady, Relist, Reprice, Walked
    <3>2. QED
      BY <3>1 DEF ShortIsNear
  <2>3. CASE UNCHANGED searchVars
    BY <2>3 DEF searchVars, ShortIsNear
  <2>4. QED
    BY <2>1, <2>2, <2>3 DEF SearchNext
<1>3. QED
  BY <1>1, <1>2, SearchInvHolds, PTL DEF SearchSpec

\* Only a radius shortens a page.  Without one a walk by date, taken to its end
\* and never left without its cursor, shows all that stayed and was not as old
\* as a cursor.
THEOREM ByDateAllIsShown == SearchSpec => []NothingLostByDate
<1>1. SearchInv /\ ShortIsNear => NothingLostByDate
  <2>. SUFFICES ASSUME SearchInv, ShortIsNear, NEW w \in Walk, walk[w].pc = "ended",
                       ~walk[w].near, ByDate(w), ~walk[w].strayed
                PROVE  walk[w].steady \ walk[w].tied \subseteq Shown(w)
    BY DEF NothingLostByDate
  <2>1. walk[w].moved = {} /\ Missed(w) /\ ~walk[w].short
    BY DEF SearchInv, WalkInv, WalkOK, ShortIsNear
  <2>2. QED
    BY <2>1 DEF Missed, ByDistance, InRange
<1>2. QED
  BY <1>1, ShortIsNearHolds, PTL

-----------------------------------------------------------------------------
(* The switch of a saved search.                                          *)

\* A search that was saved has a switch that its user wants; a toggle under
\* way has read the switch as it still is, and is the only one, unless two
\* toggles of the search crossed.
SwitchInv ==
    /\ \A i \in used : wanted[i] \in BOOLEAN
    /\ \A k \in Ask : ask[k].pc = "toggle" /\ ask[k].id \in Kept \ crossed =>
          ask[k].flag = saved[ask[k].id].alertEnabled
    /\ \A k, l \in Ask :
          ask[k].pc = "toggle" /\ ask[l].pc = "toggle" /\ ask[k].id = ask[l].id =>
             k = l \/ ask[k].id \in crossed

SavedInv == SavedTypeOK /\ SwitchInv /\ TogglesCount

LEMMA RowFacts ==
    ASSUME SavedTypeOK, NEW i \in Kept
    PROVE  saved[i] \in SavedSearch /\ saved[i].alertEnabled \in BOOLEAN /\ i \in used
BY DEF SavedTypeOK, Kept, SavedSearch

LEMMA AskOverIsCall ==
    ASSUME NEW pc \in {"answered", "refused", "failed"}
    PROVE  AskOver(pc) \in AskCall /\ AskOver(pc).pc = pc
BY DEF AskOver, NewAsk, AskCall, AskPending

LEMMA InitSaved == ASSUME SavedInit PROVE SavedInv
<1>1. SavedTypeOK
  BY DEF SavedInit, SavedTypeOK, Kept, NewAsk, AskCall, AskPending, SavedSearch
<1>2. SwitchInv /\ TogglesCount
  BY DEF SavedInit, SwitchInv, TogglesCount, Kept, NewAsk, SavedSearch
<1>3. QED
  BY <1>1, <1>2 DEF SavedInv

\* A call that ends, or waits for a removal, leaves the toggles under way to be
\* what they were.
LEMMA AskEnds ==
    ASSUME SavedInv, NEW k \in Ask, NEW c \in AskCall, c.pc # "toggle", AskServe(k, c),
           c.pc \in AskPending => c.id \in used
    PROVE  /\ ask' \in [Ask -> AskCall]
           /\ \A l \in Ask : ask'[l].pc = "toggle" => ask'[l] = ask[l]
           /\ \A l \in Ask : ask'[l].pc \in AskPending => ask'[l].id \in used
BY DEF SavedInv, SavedTypeOK, AskServe

LEMMA CreateStep == ASSUME SavedInv, NEW k \in Ask, Create(k) PROVE SavedInv'
<1>1. PICK i \in SavedId \ used, u \in Seeker, flag \in BOOLEAN :
        /\ saved' = [saved EXCEPT ![i] = [userId |-> u, alertEnabled |-> flag]]
        /\ used' = used \cup {i}
        /\ wanted' = [wanted EXCEPT ![i] = flag]
  BY DEF Create
<1>2. AskServe(k, AskOver("answered")) /\ crossed' = crossed
  BY DEF Create, AskDone
<1>3. /\ ask' \in [Ask -> AskCall]
      /\ \A l \in Ask : ask'[l].pc = "toggle" => ask'[l] = ask[l]
      /\ \A l \in Ask : ask'[l].pc \in AskPending => ask'[l].id \in used
  BY <1>2, AskEnds, AskOverIsCall DEF AskPending
<1>4. /\ saved'[i] = [userId |-> u, alertEnabled |-> flag] /\ wanted'[i] = flag
      /\ \A j \in SavedId \ {i} : saved'[j] = saved[j] /\ wanted'[j] = wanted[j]
      /\ saved' \in [SavedId -> SavedSearch \cup {Nothing}]
      /\ wanted' \in [SavedId -> BOOLEAN \cup {Nothing}]
  BY <1>1 DEF SavedInv, SavedTypeOK, SavedSearch
<1>5. Kept' \subseteq Kept \cup {i}
  BY <1>4 DEF Kept
<1>6. SavedTypeOK'
  BY <1>1, <1>2, <1>3, <1>4, <1>5 DEF SavedInv, SavedTypeOK
<1>7. SwitchInv'
  <2>1. (\A j \in used : wanted[j] \in BOOLEAN)'
    BY <1>1, <1>4 DEF SavedInv, SavedTypeOK, SwitchInv
  <2>2. \A l \in Ask : ask'[l].pc = "toggle" /\ ask'[l].id \in Kept' \ crossed' =>
           ask'[l].flag = saved'[ask'[l].id].alertEnabled
    <3>. SUFFICES ASSUME NEW l \in Ask, ask'[l].pc = "toggle", ask'[l].id \in Kept' \ crossed'
                  PROVE  ask'[l].flag = saved'[ask'[l].id].alertEnabled
      OBVIOUS
    <3>1. ask'[l] = ask[l] /\ ask[l].id \in used
      BY <1>3 DEF SavedInv, SavedTypeOK, AskPending
    <3>2. ask[l].id # i /\ ask[l].id \in Kept \ crossed /\ ask[l].id \in SavedId
      BY <3>1, <1>1, <1>2, <1>5 DEF Kept
    <3>3. saved'[ask[l].id] = saved[ask[l].id]
      BY <3>2, <1>4
    <3>4. QED
      BY <3>1, <3>2, <3>3 DEF SavedInv, SwitchInv
  <2>3. QED
    BY <2>1, <2>2, <1>2, <1>3 DEF SavedInv, SwitchInv
<1>8. TogglesCount'
  <2>. SUFFICES ASSUME NEW j \in Kept' \ crossed' PROVE saved'[j].alertEnabled = wanted'[j]
    BY DEF TogglesCount
  <2>1. CASE j = i
    BY <2>1, <1>4
  <2>2. CASE j # i
    BY <2>2, <1>2, <1>4, <1>5 DEF SavedInv, TogglesCount, Kept
  <2>3. QED
    BY <2>1, <2>2
<1>9. QED
  BY <1>6, <1>7, <1>8 DEF SavedInv

LEMMA ToggleFindStep == ASSUME SavedInv, NEW k \in Ask, ToggleFind(k) PROVE SavedInv'
<1>. PICK i \in SavedId, u \in Seeker :
       \/ /\ IsOwn(i, u)
          /\ AskServe(k, [pc |-> "toggle", id |-> i, flag |-> saved[i].alertEnabled])
          /\ crossed' = IF \E j \in Ask : ask[j].pc = "toggle" /\ ask[j].id = i
                        THEN crossed \cup {i} ELSE crossed
       \/ /\ ~IsOwn(i, u)
          /\ AskDone(k, "refused")
          /\ UNCHANGED crossed
  BY DEF ToggleFind
<1>. saved' = saved /\ used' = used /\ wanted' = wanted /\ Kept' = Kept
  BY DEF ToggleFind, Kept
<1>1. CASE IsOwn(i, u) /\ AskServe(k, [pc |-> "toggle", id |-> i, flag |-> saved[i].alertEnabled])
           /\ crossed' = IF \E j \in Ask : ask[j].pc = "toggle" /\ ask[j].id = i
                         THEN crossed \cup {i} ELSE crossed
  <2>. DEFINE call == [pc |-> "toggle", id |-> i, flag |-> saved[i].alertEnabled]
  <2>1. i \in Kept /\ i \in used /\ call \in AskCall
    BY <1>1, RowFacts DEF SavedInv, IsOwn, AskCall, AskPending
  <2>2. /\ ask' \in [Ask -> AskCall] /\ ask'[k] = call
        /\ \A l \in Ask \ {k} : ask'[l] = ask[l]
    BY <1>1, <2>1 DEF SavedInv, SavedTypeOK, AskServe
  <2>3. crossed \subseteq crossed' /\ crossed' \subseteq crossed \cup {i}
    BY <1>1
  <2>4. SavedTypeOK'
    BY <2>1, <2>2, <2>3 DEF SavedInv, SavedTypeOK
  <2>5. \A l \in Ask : ask'[l].pc = "toggle" /\ ask'[l].id \in Kept \ crossed' =>
           ask'[l].flag = saved[ask'[l].id].alertEnabled
    <3>. SUFFICES ASSUME NEW l \in Ask, ask'[l].pc = "toggle", ask'[l].id \in Kept \ crossed'
                  PROVE  ask'[l].flag = saved[ask'[l].id].alertEnabled
      OBVIOUS
    <3>1. CASE l = k
      BY <3>1, <2>2
    <3>2. CASE l # k
      BY <3>2, <2>2, <2>3 DEF SavedInv, SwitchInv
    <3>3. QED
      BY <3>1, <3>2
  <2>6. \A l, m \in Ask :
           ask'[l].pc = "toggle" /\ ask'[m].pc = "toggle" /\ ask'[l].id = ask'[m].id =>
              l = m \/ ask'[l].id \in crossed'
    <3>. SUFFICES ASSUME NEW l \in Ask, NEW m \in Ask, l # m,
                         ask'[l].pc = "toggle", ask'[m].pc = "toggle", ask'[l].id = ask'[m].id
                  PROVE  ask'[l].id \in crossed'
      OBVIOUS
    <3>1. CASE l = k \/ m = k
      BY <3>1, <2>2, <1>1
    <3>2. CASE l # k /\ m # k
      BY <3>2, <2>2, <2>3 DEF SavedInv, SwitchInv
    <3>3. QED
      BY <3>1, <3>2
  <2>7. SwitchInv'
    BY <2>5, <2>6 DEF SavedInv, SwitchInv
  <2>8. TogglesCount'
    BY <2>3 DEF SavedInv, TogglesCount
  <2>9. QED
    BY <2>4, <2>7, <2>8 DEF SavedInv
<1>2. CASE AskDone(k, "refused") /\ crossed' = crossed
  <2>1. /\ ask' \in [Ask -> AskCall]
        /\ \A l \in Ask : ask'[l].pc = "toggle" => ask'[l] = ask[l]
        /\ \A l \in Ask : ask'[l].pc \in AskPending => ask'[l].id \in used
    BY <1>2, AskEnds, AskOverIsCall DEF AskPending, AskDone
  <2>2. QED
    BY <1>2, <2>1 DEF SavedInv, SavedTypeOK, SwitchInv, TogglesCount
<1>3. QED
  BY <1>1, <1>2

LEMMA ToggleWriteStep == ASSUME SavedInv, NEW k \in Ask, ToggleWrite(k) PROVE SavedInv'
<1>. DEFINE i == ask[k].id
<1>. used' = used /\ crossed' = crossed /\ ask[k].pc = "toggle" /\ i \in used /\ i \in SavedId
  BY DEF ToggleWrite, SavedInv, SavedTypeOK, AskPending
<1>1. \E pc \in {"answered", "refused"} : AskServe(k, AskOver(pc))
  BY DEF ToggleWrite, AskDone
<1>2. /\ ask' \in [Ask -> AskCall] /\ ask'[k].pc # "toggle"
      /\ \A l \in Ask : ask'[l].pc = "toggle" => ask'[l] = ask[l] /\ l # k
      /\ \A l \in Ask : ask'[l].pc \in AskPending => ask'[l].id \in used
  <2>1. PICK pc \in {"answered", "refused"} : AskServe(k, AskOver(pc))
    BY <1>1
  <2>2. ask'[k] = AskOver(pc)
    BY <2>1 DEF AskServe, SavedInv, SavedTypeOK
  <2>3. QED
    BY <2>1, <2>2, AskEnds, AskOverIsCall DEF AskPending
<1>3. CASE i \notin Kept
  <2>1. saved' = saved /\ wanted' = wanted /\ Kept' = Kept
    BY <1>3 DEF ToggleWrite, Kept
  <2>2. QED
    BY <2>1, <1>2 DEF SavedInv, SavedTypeOK, SwitchInv, TogglesCount
<1>4. CASE i \in Kept
  <2>1. /\ saved' = [saved EXCEPT ![i].alertEnabled = ~ask[k].flag]
        /\ wanted' = [wanted EXCEPT ![i] = ~@]
    BY <1>4 DEF ToggleWrite
  <2>2. saved[i] \in SavedSearch /\ wanted[i] \in BOOLEAN /\ ask[k].flag \in BOOLEAN
    BY <1>4, RowFacts DEF SavedInv, SavedTypeOK, SwitchInv, AskCall
  <2>3. /\ saved'[i] \in SavedSearch /\ saved'[i].alertEnabled = ~ask[k].flag
        /\ wanted'[i] = ~wanted[i]
        /\ \A j \in SavedId \ {i} : saved'[j] = saved[j] /\ wanted'[j] = wanted[j]
        /\ saved' \in [SavedId -> SavedSearch \cup {Nothing}]
        /\ wanted' \in [SavedId -> BOOLEAN \cup {Nothing}]
    BY <2>1, <2>2 DEF SavedInv, SavedTypeOK, SavedSearch
  <2>4. Kept' = Kept
    BY <2>3, <1>4, NoSavedIsNothing DEF Kept
  <2>5. SavedTypeOK'
    BY <2>3, <2>4, <1>2 DEF SavedInv, SavedTypeOK
  <2>6. \A l \in Ask : ask'[l].pc = "toggle" /\ ask'[l].id \in Kept \ crossed =>
           ask'[l].flag = saved'[ask'[l].id].alertEnabled
    <3>. SUFFICES ASSUME NEW l \in Ask, ask'[l].pc = "toggle", ask'[l].id \in Kept \ crossed
                  PROVE  ask'[l].flag = saved'[ask'[l].id].alertEnabled
      OBVIOUS
    <3>1. ask'[l] = ask[l] /\ l # k
      BY <1>2
    <3>2. ask[l].id # i /\ ask[l].id \in SavedId
      BY <3>1 DEF SavedInv, SwitchInv, Kept
    <3>3. QED
      BY <3>1, <3>2, <2>3 DEF SavedInv, SwitchInv
  <2>7. \A j \in used : wanted'[j] \in BOOLEAN
    BY <2>2, <2>3 DEF SavedInv, SavedTypeOK, SwitchInv
  <2>8. SwitchInv'
    BY <2>4, <2>6, <2>7, <1>2 DEF SavedInv, SwitchInv
  <2>9. TogglesCount'
    <3>. SUFFICES ASSUME NEW j \in Kept \ crossed PROVE saved'[j].alertEnabled = wanted'[j]
      BY <2>4 DEF TogglesCount
    <3>1. CASE j = i
      <4>1. ask[k].flag = saved[i].alertEnabled /\ saved[i].alertEnabled = wanted[i]
        BY <3>1 DEF SavedInv, SwitchInv, TogglesCount
      <4>2. QED
        BY <4>1, <3>1, <2>3
    <3>2. CASE j # i
      BY <3>2, <2>3 DEF SavedInv, TogglesCount, Kept
    <3>3. QED
      BY <3>1, <3>2
  <2>10. QED
    BY <2>5, <2>8, <2>9 DEF SavedInv
<1>5. QED
  BY <1>3, <1>4

LEMMA RemoveStep == ASSUME SavedInv, NEW k \in Ask, Remove(k) \/ AskAbort(k) PROVE SavedInv'
<1>. used' = used /\ crossed' = crossed /\ wanted' = wanted
  BY DEF Remove, RemoveFind, RemoveDelete, AskAbort
<1>1. \E c \in AskCall : c.pc # "toggle" /\ AskServe(k, c) /\ (c.pc \in AskPending => c.id \in used)
  <2>1. CASE RemoveFind(k)
    <3>1. PICK i \in SavedId, u \in Seeker :
            IF IsOwn(i, u) THEN AskServe(k, [pc |-> "remove", id |-> i, flag |-> FALSE])
                           ELSE AskDone(k, "refused")
      BY <2>1 DEF RemoveFind
    <3>2. CASE IsOwn(i, u)
      <4>1. i \in used /\ [pc |-> "remove", id |-> i, flag |-> FALSE] \in AskCall
        BY <3>2, RowFacts DEF SavedInv, IsOwn, AskCall, AskPending
      <4>2. QED
        BY <3>1, <3>2, <4>1
    <3>3. CASE ~IsOwn(i, u)
      BY <3>1, <3>3, AskOverIsCall DEF AskDone, AskPending
    <3>4. QED
      BY <3>2, <3>3
  <2>2. CASE RemoveDelete(k) \/ AskAbort(k)
    BY <2>2, AskOverIsCall DEF RemoveDelete, AskAbort, AskDone, AskPending
  <2>3. QED
    BY <2>1, <2>2 DEF Remove
<1>2. /\ ask' \in [Ask -> AskCall]
      /\ \A l \in Ask : ask'[l].pc = "toggle" => ask'[l] = ask[l]
      /\ \A l \in Ask : ask'[l].pc \in AskPending => ask'[l].id \in used
  BY <1>1, AskEnds
<1>3. /\ saved' \in [SavedId -> SavedSearch \cup {Nothing}]
      /\ \A j \in SavedId : saved'[j] = saved[j] \/ saved'[j] = Nothing
  BY DEF Remove, RemoveFind, RemoveDelete, AskAbort, SavedInv, SavedTypeOK
<1>4. Kept' \subseteq Kept /\ \A j \in Kept' : saved'[j] = saved[j]
  BY <1>3 DEF Kept
<1>5. QED
  BY <1>2, <1>3, <1>4 DEF SavedInv, SavedTypeOK, SwitchInv, TogglesCount

LEMMA SavedInvHolds == SavedSpec => []SavedInv
<1>1. SavedInit => SavedInv
  BY InitSaved
<1>2. SavedInv /\ [SavedNext]_savedVars => SavedInv'
  <2>. SUFFICES ASSUME SavedInv, [SavedNext]_savedVars PROVE SavedInv'
    OBVIOUS
  <2>1. CASE SavedNext
    BY <2>1, CreateStep, ToggleFindStep, ToggleWriteStep, RemoveStep DEF SavedNext, Toggle
  <2>2. CASE UNCHANGED savedVars
    BY <2>2 DEF savedVars, SavedInv, SavedTypeOK, SwitchInv, TogglesCount, Kept
  <2>3. QED
    BY <2>1, <2>2
<1>3. QED
  BY <1>1, <1>2, PTL DEF SavedSpec

\* Rows and calls always have their types.
THEOREM SavedTypeCorrect == SavedSpec => []SavedTypeOK
<1>1. SavedInv => SavedTypeOK
  BY DEF SavedInv
<1>2. QED
  BY <1>1, SavedInvHolds, PTL

\* Every toggle that was answered counts, unless two toggles of one search
\* crossed.
THEOREM EveryToggleCounts == SavedSpec => []TogglesCount
<1>1. SavedInv => TogglesCount
  BY DEF SavedInv
<1>2. QED
  BY <1>1, SavedInvHolds, PTL
=============================================================================
