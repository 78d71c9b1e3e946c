------------------------- MODULE PriceAlertsProofs -------------------------
(***************************************************************************)
(* Proofs about PriceAlerts, for every set of calls, listings and          *)
(* subscribers.  What ListingsProofs shows of the listings carries over,   *)
(* since a step of PriceAlerts is a step of Listings or leaves them alone. *)
(***************************************************************************)
EXTENDS PriceAlerts, ListingsProofs

-----------------------------------------------------------------------------
(* The listings are those of Listings.                                     *)

LEMMA StepsOfListings == ASSUME [AlertsNext]_alertVars PROVE [Next]_vars
<1>1. CASE UNCHANGED alertVars
  BY <1>1 DEF alertVars
<1>2. CASE Service
  BY <1>2 DEF Service
<1>3. CASE (\E a \in Ask : Shortlist(a)) \/ Listen
  BY <1>3 DEF Shortlist, AddCheck, AddInsert, RemoveFind, RemoveDelete, AskAbort, Listen,
              ReadSubscribers, ReadFails, Tell, TellFails
<1>4. QED
  BY <1>1, <1>2, <1>3 DEF AlertsNext

\* Neither ShortlistService nor the listener disturbs PropertiesService: what
\* holds of Listings holds of its part in PriceAlerts.
THEOREM ListingsUndisturbed == AlertsSpec => Spec
<1>1. AlertsInit => Init
  BY DEF AlertsInit
<1>2. [AlertsNext]_alertVars => [Next]_vars
  BY StepsOfListings
<1>3. QED
  BY <1>1, <1>2, PTL DEF AlertsSpec, Spec

-----------------------------------------------------------------------------
(* The inductive invariant.                                                *)

\* The notices of the announcements that were read, whatever became of them.
Known == telling \cup notices \cup missed

\* The unique index: a user has one entry for one listing.
IndexHolds ==
    \A row, other \in shortlists :
       row.userId = other.userId /\ row.propertyId = other.propertyId => row = other

\* An announcement is read once, and each of its notices is for an entry of that
\* listing, two of them for two users.
NoticesApart ==
    /\ \A n \in Known : n.event \notin reading /\ n.row.propertyId = events[n.event].property
    /\ \A m, n \in Known : m.event = n.event /\ m.row.userId = n.row.userId => m = n

AlertsInv == TypeInv /\ AlertsTypeOK /\ IndexHolds /\ NoticesApart /\ StillListedTold

LEMMA AlertsInvInit == ASSUME AlertsInit PROVE AlertsInv
<1>1. TypeInv
  BY TypeInit DEF AlertsInit
<1>2. AlertsTypeOK
  BY DEF AlertsInit, AlertsTypeOK, StoredRows, Row, AskCall
<1>3. IndexHolds
  BY DEF AlertsInit, IndexHolds, StoredRows
<1>4. NoticesApart /\ StillListedTold
  BY DEF AlertsInit, Init, NoticesApart, Known, StillListedTold
<1>5. QED
  BY <1>1, <1>2, <1>3, <1>4 DEF AlertsInv

\* A step of PropertiesService emits one event at most, and a price_changed
\* carries a price.
LEMMA OneEvent ==
    ASSUME TypeInv, Next
    PROVE  \/ events' = events
           \/ \E e \in Event : /\ events' = Append(events, e)
                               /\ e.name = "property.price_changed" => e.price \in Price
<1>1. PICK r \in Request : Handle(r)
  BY DEF Next
<1>2. CASE UpdateAnnounce(r)
  <2> DEFINE e == [name |-> "property.price_changed", property |-> req[r].id,
                   price |-> req[r].price, src |-> r]
  <2>1. e \in Event /\ e.price \in Price
    BY <1>2 DEF UpdateAnnounce, TypeInv, Ready, Suspended, Event
  <2>2. QED
    BY <1>2, <2>1 DEF UpdateAnnounce
<1>3. CASE Finish(r)
  <2> DEFINE e == [name |-> EventOf(req[r].op), property |-> req[r].id, price |-> None, src |-> r]
  <2>1. EventOf(req[r].op) \in {"property.created", "property.updated", "property.deleted"}
        /\ req[r].id \in Property
    BY <1>3 DEF Finish, EventOf, TypeInv, Ready, Suspended
  <2>2. e \in Event /\ e.name # "property.price_changed"
    BY <2>1 DEF Event
  <2>3. QED
    BY <1>3, <2>2 DEF Finish
<1>4. CASE ~UpdateAnnounce(r) /\ ~Finish(r)
  BY <1>1, <1>4 DEF Handle, Create, Update, UpdateRead, UpdateHistory, UpdateWrite, Remove, RemoveRead,
                    RemoveWrite, Verify, VerifyRead, VerifyWrite, Refuse, Abort
<1>5. QED
  BY <1>2, <1>3, <1>4

LEMMA AlertsService == ASSUME AlertsInv, Service PROVE AlertsInv'
<1>1. /\ TypeInv' /\ UNCHANGED <<shortlists, asks, telling, notices, missed>>
      /\ reading' = reading \cup {i \in DOMAIN events' \ DOMAIN events : Heard(events'[i])}
      /\ events \in Seq(Event)
  BY TypeStep DEF AlertsInv, TypeInv, TypeOK, Service, shortlistVars
<1>2. /\ DOMAIN events \subseteq DOMAIN events'
      /\ \A i \in DOMAIN events : events'[i] = events[i]
      /\ \A i \in DOMAIN events' \ DOMAIN events :
            events'[i].name = "property.price_changed" => events'[i].price \in Price
  <2>1. CASE events' = events
    BY <2>1
  <2>2. ASSUME NEW e \in Event, events' = Append(events, e),
               e.name = "property.price_changed" => e.price \in Price
        PROVE  <1>2!1 /\ <1>2!2 /\ <1>2!3
    BY <1>1, <2>2
  <2>3. QED
    BY <2>1, <2>2, OneEvent DEF AlertsInv, Service
<1>3. AlertsTypeOK'
  BY <1>1, <1>2 DEF AlertsInv, AlertsTypeOK, Heard
<1>4. IndexHolds'
  BY <1>1 DEF AlertsInv, IndexHolds
<1>5. NoticesApart'
  <2>1. \A n \in Known : n.event \in DOMAIN events
    BY DEF AlertsInv, AlertsTypeOK, Known
  <2>2. Known' = Known
    BY <1>1 DEF Known
  <2>3. QED
    BY <1>1, <1>2, <2>1, <2>2 DEF AlertsInv, NoticesApart
<1>6. StillListedTold'
  <2> SUFFICES ASSUME NEW row \in shortlists', NEW i \in DOMAIN events', i > row.createdAt,
                      events'[i].name = "property.price_changed",
                      events'[i].property = row.propertyId
               PROVE  \/ i \in reading'
                      \/ \E n \in (telling \cup notices \cup missed)' : n.event = i /\ n.row = row
    BY DEF StillListedTold
  <2>1. CASE i \in DOMAIN events
    BY <1>1, <1>2, <2>1 DEF AlertsInv, StillListedTold
  <2>2. CASE i \notin DOMAIN events
    BY <1>1, <2>2 DEF Heard
  <2>3. QED
    BY <2>1, <2>2
<1>7. QED
  BY <1>1, <1>3, <1>4, <1>5, <1>6 DEF AlertsInv

LEMMA AlertsShortlist == ASSUME AlertsInv, NEW a \in Ask, Shortlist(a) PROVE AlertsInv'
<1>1. UNCHANGED <<vars, reading, telling, notices, missed>>
  BY DEF Shortlist, AddCheck, AddInsert, RemoveFind, RemoveDelete, AskAbort, noticeVars
<1>2. TypeInv' /\ events' = events /\ events \in Seq(Event)
  BY <1>1, TypeStep DEF AlertsInv, vars, TypeInv, TypeOK
<1>3. asks' \in [Ask -> AskCall]
  <2>1. \E call \in AskCall : asks' = [asks EXCEPT ![a] = call]
    BY DEF Shortlist, AddCheck, AddInsert, RemoveFind, RemoveDelete, AskAbort, AskGoesTo, AskCall
  <2>2. QED
    BY <2>1 DEF AlertsInv, AlertsTypeOK
<1>4. \/ shortlists' \subseteq shortlists
      \/ \E row \in Row : /\ shortlists' = shortlists \cup {row} /\ row.createdAt = Len(events)
                          /\ ~EntryTaken(row.userId, row.propertyId)
  <2>1. CASE AddInsert(a)
    <3> DEFINE row == [id |-> a, userId |-> asks[a].user, propertyId |-> asks[a].property,
                       createdAt |-> Len(events)]
    <3>1. asks[a].user \in Subscriber /\ asks[a].property \in Property
      BY <2>1 DEF AddInsert, AlertsInv, AlertsTypeOK, AskCall, NewAsk, AskDone
    <3>2. row \in Row
      BY <1>2, <3>1 DEF Row
    <3>3. QED
      BY <2>1, <3>2 DEF AddInsert
  <2>2. CASE ~AddInsert(a)
    BY <2>2 DEF Shortlist, AddCheck, RemoveFind, RemoveDelete, AskAbort
  <2>3. QED
    BY <2>1, <2>2
<1>5. AlertsTypeOK'
  BY <1>1, <1>2, <1>3, <1>4 DEF AlertsInv, AlertsTypeOK
<1>6. IndexHolds'
  BY <1>4 DEF AlertsInv, IndexHolds, EntryTaken, Entries
<1>7. NoticesApart'
  BY <1>1, <1>2 DEF AlertsInv, NoticesApart, Known
<1>8. StillListedTold'
  <2> SUFFICES ASSUME NEW row \in shortlists', NEW i \in DOMAIN events, i > row.createdAt,
                      events[i].name = "property.price_changed",
                      events[i].property = row.propertyId
               PROVE  \/ i \in reading
                      \/ \E n \in telling \cup notices \cup missed : n.event = i /\ n.row = row
    BY <1>1, <1>2 DEF StillListedTold
  <2>1. i \in 1 .. Len(events)
    BY <1>2
  <2>2. row \in shortlists
    BY <1>2, <1>4, <2>1
  <2>3. QED
    BY <2>2 DEF AlertsInv, StillListedTold
<1>9. QED
  BY <1>2, <1>5, <1>6, <1>7, <1>8 DEF AlertsInv

LEMMA AlertsListen == ASSUME AlertsInv, Listen PROVE AlertsInv'
<1>1. UNCHANGED <<vars, shortlists, asks>>
  BY DEF Listen, ReadSubscribers, ReadFails, Tell, TellFails, shortlistVars
<1>2. TypeInv' /\ events' = events
  BY <1>1, TypeStep DEF AlertsInv, vars
<1>3. IndexHolds'
  BY <1>1 DEF AlertsInv, IndexHolds
<1>4. CASE \E n \in telling : Tell(n) \/ TellFails(n)
  <2>1. Known' = Known /\ reading' = reading
    BY <1>4 DEF Known, Tell, TellFails
  <2>2. AlertsTypeOK'
    BY <1>1, <1>2, <2>1 DEF AlertsInv, AlertsTypeOK, Known
  <2>3. NoticesApart' /\ StillListedTold'
    BY <1>1, <1>2, <2>1 DEF AlertsInv, NoticesApart, StillListedTold, Known
  <2>4. QED
    BY <1>2, <1>3, <2>2, <2>3 DEF AlertsInv
<1>5. CASE \E i \in reading : ReadSubscribers(i) \/ ReadFails(i)
  <2>1. PICK i \in reading : Known' = Known \cup NoticesOf(i) /\ reading' = reading \ {i}
    BY <1>5 DEF Known, ReadSubscribers, ReadFails
  <2>2. \A n \in NoticesOf(i) : /\ n = [event |-> i, row |-> n.row] /\ n.event = i
                                /\ n.row \in shortlists /\ n.row.propertyId = events[i].property
    BY DEF NoticesOf, Subscribers
  <2>3. i \in DOMAIN events /\ i \in Nat
    BY DEF AlertsInv, AlertsTypeOK, TypeInv, TypeOK
  <2>4. AlertsTypeOK'
    <3>1. NoticesOf(i) \subseteq Notice
      BY <2>2, <2>3 DEF AlertsInv, AlertsTypeOK, Notice
    <3>2. QED
      BY <1>1, <1>2, <2>1, <2>2, <3>1 DEF AlertsInv, AlertsTypeOK, Known
  <2>5. NoticesApart'
    BY <1>2, <2>1, <2>2 DEF AlertsInv, NoticesApart, IndexHolds
  <2>6. StillListedTold'
    <3> SUFFICES ASSUME NEW row \in shortlists, NEW j \in DOMAIN events, j > row.createdAt,
                        events[j].name = "property.price_changed",
                        events[j].property = row.propertyId
                 PROVE  j \in reading' \/ \E n \in Known' : n.event = j /\ n.row = row
      BY <1>1, <1>2 DEF StillListedTold, Known
    <3>1. CASE j = i
      <4>1. [event |-> i, row |-> row] \in NoticesOf(i)
        BY <3>1 DEF NoticesOf, Subscribers
      <4>2. QED
        BY <2>1, <3>1, <4>1
    <3>2. CASE j # i
      BY <2>1, <3>2 DEF AlertsInv, StillListedTold, Known
    <3>3. QED
      BY <3>1, <3>2
  <2>7. QED
    BY <1>2, <1>3, <2>4, <2>5, <2>6 DEF AlertsInv
<1>6. QED
  BY <1>4, <1>5 DEF Listen

LEMMA AlertsInvariant == AlertsSpec => []AlertsInv
<1>1. AlertsInv /\ [AlertsNext]_alertVars => AlertsInv'
  <2>1. AlertsInv /\ UNCHANGED alertVars => AlertsInv'
    <3> SUFFICES ASSUME AlertsInv, UNCHANGED alertVars PROVE AlertsInv'
      OBVIOUS
    <3>1. TypeInv'
      BY TypeStep DEF AlertsInv, alertVars
    <3>2. UNCHANGED <<events, shortlists, asks, reading, telling, notices, missed>>
      BY DEF alertVars, vars, shortlistVars, noticeVars
    <3>3. QED
      BY <3>1, <3>2 DEF AlertsInv, AlertsTypeOK, IndexHolds, NoticesApart, Known, StillListedTold
  <2>2. QED
    BY <2>1, AlertsService, AlertsShortlist, AlertsListen DEF AlertsNext
<1>2. QED
  BY <1>1, AlertsInvInit, PTL DEF AlertsSpec

\* Rows, calls and notices have their types, and a listener only ever handles an
\* announcement that carries a price.
THEOREM AlertsTypeCorrect == AlertsSpec => []AlertsTypeOK
BY AlertsInvariant, PTL DEF AlertsInv

\* A user has one notice of one change of price, of a listing that user
\* shortlisted.
THEOREM EachIsToldOnce == AlertsSpec => []ToldOnce
<1>1. AlertsInv => ToldOnce
  BY DEF AlertsInv, NoticesApart, Known, ToldOnce
<1>2. QED
  BY <1>1, AlertsInvariant, PTL

\* Nobody who kept a listing on the shortlist is left out of a change of its
\* price, however late the listener reads.
THEOREM NobodyIsLeftOut == AlertsSpec => []StillListedTold
BY AlertsInvariant, PTL DEF AlertsInv
=============================================================================
