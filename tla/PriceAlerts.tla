---------------------------- MODULE PriceAlerts ----------------------------
(***************************************************************************)
(* Listings together with those who shortlisted them: ShortlistService     *)
(* (src/modules/shortlist/shortlist.service.ts) and the listener of        *)
(* property.price_changed (src/modules/notifications/                      *)
(* notifications.module.ts), which reads the subscribers of a listing      *)
(* after the update has gone on and inserts one notice for each, all at    *)
(* once and each on its own (Promise.allSettled).                          *)
(***************************************************************************)
EXTENDS Listings

CONSTANTS
    Ask,        \* calls of ShortlistService, each served once
    Subscriber  \* the users who make them

ASSUME AlertsAssumption == None \notin Ask

VARIABLES
    shortlists,  \* table "shortlists"
    asks,        \* what each call is about and where it is suspended
    reading,     \* announcements, by place in events, whose listener awaits its read
    telling,     \* inserts of a notice that were started and not yet answered
    notices,     \* table "notifications"
    missed       \* history variable: notices that failed

shortlistVars == <<shortlists, asks>>
noticeVars == <<reading, telling, notices, missed>>
alertVars == <<vars, shortlistVars, noticeVars>>

-----------------------------------------------------------------------------

\* id: the call that inserted the row, None when it is there from the start;
\* createdAt: how much had been emitted by then.
Row == [id: Ask \cup {None}, userId: Subscriber, propertyId: Property, createdAt: Nat]

NewAsk == [pc |-> "new", user |-> None, property |-> None]

AskDone == [NewAsk EXCEPT !.pc = "over"]

AskCall == {NewAsk, AskDone} \cup [pc: {"add", "remove"}, user: Subscriber, property: Property]

Notice == [event: Nat, row: Row]

HeardDeletions(e) == e.name \in {"property.price_changed", "property.deleted"}

\* @OnEvent
Heard(e) == e.name = "property.price_changed"

AlertsTypeOK ==
    /\ shortlists \subseteq Row
    /\ asks \in [Ask -> AskCall]
    /\ telling \cup notices \cup missed \subseteq Notice
    /\ \A i \in reading \cup {n.event : n \in telling \cup notices \cup missed} :
          i \in DOMAIN events /\ events[i].name = "property.price_changed" /\ events[i].price \in Price

-----------------------------------------------------------------------------
(* ShortlistService.                                                       *)

Entries(u, p) == {row \in shortlists : row.userId = u /\ row.propertyId = p}

EntryNeverTaken(u, p) == FALSE

\* The unique index on (user_id, property_id).
EntryTaken(u, p) == Entries(u, p) # {}

AskGoesTo(a, call) == asks' = [asks EXCEPT ![a] = call]

\* add(): 404 unless the property is listed.
AddCheck(a) ==
    /\ asks[a].pc = "new"
    /\ \E u \in Subscriber, p \in Property :
          AskGoesTo(a, IF Listed(p) THEN [pc |-> "add", user |-> u, property |-> p] ELSE AskDone)
    /\ UNCHANGED <<vars, shortlists, noticeVars>>

\* add(): the insert, whatever has become of the property; when the index
\* refuses it, 409.
AddInsert(a) ==
    /\ asks[a].pc = "add"
    /\ LET u == asks[a].user
           p == asks[a].property
       IN shortlists' = IF EntryTaken(u, p) THEN shortlists
                        ELSE shortlists \cup {[id |-> a, userId |-> u, propertyId |-> p,
                                               createdAt |-> Len(events)]}
    /\ AskGoesTo(a, AskDone)
    /\ UNCHANGED <<vars, noticeVars>>

\* remove(): 404 unless the entry is there.
RemoveFind(a) ==
    /\ asks[a].pc = "new"
    /\ \E u \in Subscriber, p \in Property :
          AskGoesTo(a, IF EntryTaken(u, p) THEN [pc |-> "remove", user |-> u, property |-> p]
                                           ELSE AskDone)
    /\ UNCHANGED <<vars, shortlists, noticeVars>>

\* remove(): the delete by user and property, of the entry that was found or of
\* one that took its place; none when it is gone.
RemoveDelete(a) ==
    /\ asks[a].pc = "remove"
    /\ shortlists' = shortlists \ Entries(asks[a].user, asks[a].property)
    /\ AskGoesTo(a, AskDone)
    /\ UNCHANGED <<vars, noticeVars>>

\* The awaited call fails, or the process stops.
AskAbort(a) ==
    /\ asks[a].pc \in {"add", "remove"}
    /\ AskGoesTo(a, AskDone)
    /\ UNCHANGED <<vars, shortlists, noticeVars>>

-----------------------------------------------------------------------------
(* onPriceChanged().                                                       *)

\* A step of PropertiesService; the announcement it makes is heard at once, as
\* far as the await of the read.
Service ==
    /\ Next
    /\ reading' = reading \cup {i \in DOMAIN events' \ DOMAIN events : Heard(events'[i])}
    /\ UNCHANGED <<shortlistVars, telling, notices, missed>>

SubscribersIfListed(p) == {row \in shortlists : row.propertyId = p /\ Listed(p)}

\* where: { propertyId }, also when the property has been deleted meanwhile.
Subscribers(p) == {row \in shortlists : row.propertyId = p}

NoticesOf(i) == {[event |-> i, row |-> row] : row \in Subscribers(events[i].property)}

\* The read of the subscribers; the inserts start together.
ReadSubscribers(i) ==
    /\ i \in reading
    /\ reading' = reading \ {i}
    /\ telling' = telling \cup NoticesOf(i)
    /\ UNCHANGED <<vars, shortlistVars, notices, missed>>

\* The read fails: nobody is told, and the failure is logged.
ReadFails(i) ==
    /\ i \in reading
    /\ reading' = reading \ {i}
    /\ missed' = missed \cup NoticesOf(i)
    /\ UNCHANGED <<vars, shortlistVars, telling, notices>>

\* One insert ends, in any order, and whatever happens to the others.
Tell(n) ==
    /\ n \in telling
    /\ telling' = telling \ {n}
    /\ notices' = notices \cup {n}
    /\ UNCHANGED <<vars, shortlistVars, reading, missed>>

TellFails(n) ==
    /\ n \in telling
    /\ telling' = telling \ {n}
    /\ missed' = missed \cup {n}
    /\ UNCHANGED <<vars, shortlistVars, reading, notices>>

-----------------------------------------------------------------------------

Shortlist(a) == AddCheck(a) \/ AddInsert(a) \/ RemoveFind(a) \/ RemoveDelete(a) \/ AskAbort(a)

Listen ==
    \/ \E i \in reading : ReadSubscribers(i) \/ ReadFails(i)
    \/ \E n \in telling : Tell(n) \/ TellFails(n)

\* A listing that is there from the start may have its subscribers.
StoredRows == [id: {None}, userId: Subscriber, propertyId: Property, createdAt: {0}]

AlertsInit ==
    /\ Init
    /\ shortlists \in SUBSET StoredRows
    /\ \A row \in shortlists : Listed(row.propertyId)
    /\ asks = [a \in Ask |-> NewAsk]
    /\ reading = {} /\ telling = {} /\ notices = {} /\ missed = {}

AlertsNext == Service \/ (\E a \in Ask : Shortlist(a)) \/ Listen

AlertsSpec == AlertsInit /\ [][AlertsNext]_alertVars

-----------------------------------------------------------------------------

\* However their calls of add() and remove() cross, a user has one notice of one
\* change of price, and only of a listing that user shortlisted.
ToldOnce ==
    /\ \A m, n \in notices :
          m.event = n.event /\ m.row.userId = n.row.userId => m = n
    /\ \A n \in notices : n.row.propertyId = events[n.event].property

\* A user who shortlisted a listing before a change of its price was announced
\* and has not taken it off since is told of that change, is about to be, or a
\* call failed: a listener that lags and reads the list late leaves nobody out.
StillListedTold ==
    \A row \in shortlists, i \in DOMAIN events :
       /\ i > row.createdAt
       /\ events[i].name = "property.price_changed" /\ events[i].property = row.propertyId
       => \/ i \in reading
          \/ \E n \in telling \cup notices \cup missed : n.event = i /\ n.row = row
=============================================================================
