------------------------------- MODULE Search -------------------------------
(***************************************************************************)
(* PropertiesService.search() (src/modules/properties/properties.service.ts) *)
(* walked page by page by its cursor, while listings come, go and change   *)
(* their price.                                                            *)
(*                                                                         *)
(* A call is one statement and the code after it: one step.  The query is  *)
(* cut at one row more than the page; the listings outside the radius are  *)
(* taken out, and those left put in order of distance, after that.         *)
(***************************************************************************)
EXTENDS Naturals, FiniteSets, Sequences

CONSTANTS
    Walk,        \* searches, each followed from its first page to its last
    Property,    \* uuids a row can have, finitely many
    Price,
    Distance,    \* kilometres from the point a search names
    RadiusKm,
    Limit,       \* listings on a page
    MaxTime,     \* milliseconds told apart (bounds the model)
    MaxChanges,  \* how often listings change (bounds the model)
    MaxPages,    \* pages a client asks for before it gives up (bounds the model)
    None

Sort == {"recency", "price_asc", "price_desc", "distance"}

ASSUME SearchAssumption ==
    /\ Price \subseteq Nat /\ Distance \subseteq Nat /\ RadiusKm \in Nat
    /\ Limit \in Nat \ {0}
    /\ MaxTime \in Nat /\ MaxChanges \in Nat /\ MaxPages \in Nat
    /\ IsFiniteSet(Property) /\ None \notin Property

VARIABLES
    rows,     \* the listings a search could show, None for an id not handed out
    changes,  \* how often they changed
    walk      \* what each search asks for and has been given

searchVars == <<rows, changes, walk>>

-----------------------------------------------------------------------------
(* Types.                                                                  *)

\* matches: not deleted, AVAILABLE, in the bounding box, and what else the dto
\* asks for.
Row == [createdAt: 0 .. MaxTime, price: Price, distance: Distance, matches: BOOLEAN]

ASSUME NoListingIsNone == None \notin Row

\* near: lat, lng and radiusKm are given.  The last five are history: the
\* listings that matched from the first page on, those whose price changed
\* since, those that were equal to a cursor when the page after it was read,
\* whether the filter shortened a page, whether the cursor lost its place.
Walked == [pc: {"new", "going", "ended"}, sort: Sort, near: BOOLEAN,
           cursor: Property \cup {None}, pages: Seq(SUBSET Property),
           steady: SUBSET Property, moved: SUBSET Property, tied: SUBSET Property,
           short: BOOLEAN, strayed: BOOLEAN]

NewWalk == [pc |-> "new", sort |-> "recency", near |-> FALSE, cursor |-> None, pages |-> <<>>,
            steady |-> {}, moved |-> {}, tied |-> {}, short |-> FALSE, strayed |-> FALSE]

-----------------------------------------------------------------------------
(* The query.                                                              *)

Listed == {p \in Property : rows[p] # None}

Matching == {p \in Listed : rows[p].matches}

\* orderBy: distance is no column, createdAt stands in for it.
Ahead(sort, p, q) ==
    CASE sort = "price_asc"  -> rows[p].price < rows[q].price
      [] sort = "price_desc" -> rows[p].price > rows[q].price
      [] OTHER               -> rows[p].createdAt > rows[q].createdAt

\* The orders the database may return: rows with equal keys come in any.
Orders(sort) ==
    {at \in [Matching -> 1 .. Cardinality(Matching)] :
       /\ \A p, q \in Matching : at[p] = at[q] => p = q
       /\ \A p, q \in Matching : Ahead(sort, p, q) => at[p] < at[q]}

RestFromCursor(sort, at, cursor) ==
    CASE cursor = None      -> {Matching}
      [] cursor \in Matching -> {{p \in Matching : at[p] >= at[cursor]}}
      [] OTHER              -> SUBSET {p \in Matching : ~Ahead(sort, p, cursor)}

\* cursor: { id }, skip: 1.  The library does not say what follows a cursor
\* that the query no longer finds.
Rest(sort, at, cursor) ==
    CASE cursor = None      -> {Matching}
      [] cursor \in Matching -> {{p \in Matching : at[p] > at[cursor]}}
      [] OTHER              -> SUBSET {p \in Matching : ~Ahead(sort, p, cursor)}

\* The first n of a set.
First(n, S, at) == {p \in S : Cardinality({q \in S : at[q] < at[p]}) < n}

TakeLimit(rest, at) == First(Limit, rest, at)

\* take: limit + 1
Take(rest, at) == First(Limit + 1, rest, at)

\* haversineKm(...) <= radiusKm
InRange(near, p) == near => rows[p].distance <= RadiusKm

\* filtered.sort(...) is stable.
Sorted(sort, near, at) ==
    IF near /\ sort = "distance"
    THEN [p \in Matching |-> rows[p].distance * (Cardinality(Matching) + 1) + at[p]]
    ELSE at

LastPosition(S, at) == CHOOSE n \in {at[p] : p \in S} : \A q \in S : at[q] <= n

LastOf(S, at) == CHOOSE p \in S : \A q \in S : at[q] <= at[p]

-----------------------------------------------------------------------------

\* Neither goes before the other: no second key tells them apart.
Equals(sort, p) == {q \in Matching \ {p} : ~Ahead(sort, p, q) /\ ~Ahead(sort, q, p)}

\* search(), with the cursor that the page before came with.
Page(w, sort, near) ==
    \E at \in Orders(sort) : \E rest \in Rest(sort, at, walk[w].cursor) :
       LET found    == Take(rest, at)
           filtered == {p \in found : InRange(near, p)}
           order    == Sorted(sort, near, at)
           hasMore  == Cardinality(filtered) > Limit
           data     == First(Limit, filtered, order)
           first    == walk[w].pc = "new"
       IN  walk' = [walk EXCEPT ![w] =
              [pc      |-> IF hasMore THEN "going" ELSE "ended",
               sort    |-> sort,
               near    |-> near,
               cursor  |-> IF hasMore THEN LastOf(data, order) ELSE None,
               pages   |-> Append(@.pages, data),
               steady  |-> IF first THEN Matching ELSE @.steady,
               moved   |-> @.moved,
               tied    |-> @.tied \cup (IF first THEN {} ELSE Equals(sort, @.cursor)),
               short   |-> @.short \/ filtered # found,
               strayed |-> @.strayed \/ (~first /\ @.cursor \notin Matching \ @.moved)]]

Begin(w) ==
    /\ walk[w].pc = "new"
    /\ \E sort \in Sort, near \in BOOLEAN : Page(w, sort, near)
    /\ UNCHANGED <<rows, changes>>

Continue(w) ==
    /\ walk[w].pc = "going" /\ Len(walk[w].pages) < MaxPages
    /\ Page(w, walk[w].sort, walk[w].near)
    /\ UNCHANGED <<rows, changes>>

Changing ==
    /\ changes < MaxChanges
    /\ changes' = changes + 1

\* What the walks under way see of a listing that no longer matches.
Unsteady(p) ==
    walk' = [w \in Walk |->
       IF walk[w].pc = "going" THEN [walk[w] EXCEPT !.steady = @ \ {p}] ELSE walk[w]]

\* create(): it may be as old as another, or commit after a younger one.
List(p) ==
    /\ Changing
    /\ rows[p] = None
    /\ \E t \in 0 .. MaxTime, c \in Price, d \in Distance :
          rows' = [rows EXCEPT ![p] = [createdAt |-> t, price |-> c, distance |-> d,
                                       matches |-> TRUE]]
    /\ UNCHANGED walk

\* update(), remove(): rented, deleted, or no longer what the search is for.
Unlist(p) ==
    /\ Changing
    /\ p \in Matching
    /\ rows' = [rows EXCEPT ![p].matches = FALSE]
    /\ Unsteady(p)

\* update(): available again.
Relist(p) ==
    /\ Changing
    /\ p \in Listed \ Matching
    /\ rows' = [rows EXCEPT ![p].matches = TRUE]
    /\ UNCHANGED walk

\* update(): another price.
Reprice(p) ==
    /\ Changing
    /\ p \in Listed
    /\ \E c \in Price \ {rows[p].price} : rows' = [rows EXCEPT ![p].price = c]
    /\ walk' = [w \in Walk |->
          IF walk[w].pc = "going" /\ walk[w].sort \in {"price_asc", "price_desc"}
          THEN [walk[w] EXCEPT !.moved = @ \cup {p}] ELSE walk[w]]

\* Listings of any age; those of one createMany have one createdAt.
SearchInit ==
    /\ rows \in [Property -> {None} \cup [createdAt: 0 .. MaxTime, price: Price,
                                          distance: Distance, matches: {TRUE}]]
    /\ changes = 0
    /\ walk = [w \in Walk |-> NewWalk]

SearchNext ==
    \/ \E w \in Walk : Begin(w) \/ Continue(w)
    \/ \E p \in Property : List(p) \/ Unlist(p) \/ Relist(p) \/ Reprice(p)

SearchSpec == SearchInit /\ [][SearchNext]_searchVars

-----------------------------------------------------------------------------

\* Listings and walks have their types.
SearchTypeOK ==
    /\ rows \in [Property -> Row \cup {None}]
    /\ changes \in 0 .. MaxChanges
    /\ walk \in [Walk -> Walked]

Shown(w) == UNION {walk[w].pages[i] : i \in DOMAIN walk[w].pages}

ByDistance(w) == walk[w].near /\ walk[w].sort = "distance"

\* A walk that does not go by distance shows a listing on two pages only when
\* the listing was equal to the cursor a page went on from, in createdAt or in
\* price, the one key of the query; or, by price, when the cursor lost its place
\* or the listing changed its price.  What is listed or taken down meanwhile, the
\* cursor too, makes a walk by recency repeat nothing else.
RepeatedForAReason ==
    \A w \in Walk : ~ByDistance(w) =>
       \A i, j \in DOMAIN walk[w].pages : i # j =>
          \A p \in walk[w].pages[i] \cap walk[w].pages[j] :
             \/ p \in walk[w].tied
             \/ /\ walk[w].sort \in {"price_asc", "price_desc"}
                /\ walk[w].strayed \/ p \in walk[w].moved

\* A walk that came to its end has shown every listing in range that matched
\* all the while and was equal to no cursor, unless the radius took listings
\* from a page that was cut before, or the cursor lost its place, or the walk
\* goes by distance.
MissedForAReason ==
    \A w \in Walk : walk[w].pc = "ended" /\ ~ByDistance(w) =>
       \A p \in walk[w].steady \ (walk[w].moved \cup walk[w].tied \cup Shown(w)) :
          InRange(walk[w].near, p) => walk[w].short \/ walk[w].strayed

\* The pages of a search by recency, taken to the end, show every listing in
\* range that matched all the while.
PagesShowAll ==
    \A w \in Walk : walk[w].pc = "ended" /\ walk[w].sort = "recency" =>
       \A p \in walk[w].steady : InRange(walk[w].near, p) => p \in Shown(w)
=============================================================================
