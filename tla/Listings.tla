------------------------------ MODULE Listings ------------------------------
(***************************************************************************)
(* PropertiesService (src/modules/properties/properties.service.ts): the   *)
(* life of a listing and the history of its price.                         *)
(*                                                                         *)
(* A handler suspends at each database call.  update() makes three of them *)
(* when the price changes: it reads the property, inserts a row of         *)
(* price_history and only then writes the property, in no transaction, and *)
(* it announces the new price between the last two.  A dto has a price with *)
(* any number of decimals; a column keeps two of them.                     *)
(***************************************************************************)
EXTENDS Sequences, FiniteSets, Naturals

CONSTANTS
    Request,     \* the HTTP calls of a behaviour, each served once
    Property,    \* uuids the database hands out to rows of "properties"
    Owner,       \* users whose role is OWNER
    Admin,       \* users whose role is ADMIN
    Other,       \* users whose role is neither
    Price,       \* what a dto may ask for, in thousandths
    None         \* null, undefined

User == Owner \cup Admin \cup Other

Operation == {"create", "update", "remove", "verify"}

\* Decimal(12, 2): what the database makes of a price, at its insert or update.
Rounded(c) == ((c + 5) \div 10) * 10

\* What the columns hold.
Amount == {Rounded(c) : c \in Price}

ASSUME ListingsAssumption ==
    /\ Price \subseteq Nat
    /\ None \notin Property \cup User \cup Operation
    /\ None \notin Price \cup Amount

VARIABLES
    listings,   \* table "properties": a row, or None for an id not handed out
    history,    \* table "price_history", in the order of the inserts
    events,     \* what was handed to EventEmitter2, in order
    req,        \* what each request is about and where it is suspended
    opened,     \* history variable: the price each listing was created with
    overlapped  \* whether a request was ever admitted while another was served

vars == <<listings, history, events, req, opened, overlapped>>

-----------------------------------------------------------------------------
(* Types.                                                                  *)

\* INACTIVE is what remove() sets; AVAILABLE, what create() does, stands for
\* whatever an update may set: no handler here reads it.
Status == {"AVAILABLE", "INACTIVE"}

\* deleted stands for "deletedAt is not null".
Listing == [ownerId: User, price: Amount, status: Status, isVerified: BOOLEAN, deleted: BOOLEAN]

ASSUME NoRowIsNone == None \notin Listing

Change == [property: Property, oldPrice: Amount, newPrice: Amount, src: Request]

\* price and status are those of the dto, None when it leaves them out; old is
\* the price that update() read.
Call == [pc: {"new", "history", "recorded", "write", "remove", "verify",
              "written", "answered", "rejected", "aborted"},
         op: Operation \cup {None},
         user: User \cup {None}, id: Property \cup {None}, price: Price \cup {None},
         status: Status \cup {None}, old: Amount \cup {None}]

NewCall == [pc |-> "new", op |-> None, user |-> None, id |-> None, price |-> None,
            status |-> None, old |-> None]

\* A request that was answered, rejected or aborted is forgotten but for that.
Over(pc) == [NewCall EXCEPT !.pc = pc]

Suspended == {"history", "recorded", "write", "remove", "verify", "written"}

Event == [name: {"property.created", "property.updated", "property.deleted",
                 "property.price_changed"},
          property: Property, price: Price \cup {None}, src: Request]

-----------------------------------------------------------------------------
(* Serving a request.                                                      *)

Served(r) == req[r].pc \in Suspended

Admitted(r) ==
    /\ req[r].pc = "new"
    /\ overlapped' = (overlapped \/ \E q \in Request : Served(q))

GoTo(r, pc) == req' = [req EXCEPT ![r].pc = pc]

Serve(r, call) == req' = [req EXCEPT ![r] = call]

ListedOrDeleted(p) == listings[p] # None

Listed(p) == listings[p] # None /\ ~listings[p].deleted

MayChangeAny(u, p) == TRUE

\* property.ownerId !== userId && userRole !== UserRole.ADMIN
MayChange(u, p) == u = listings[p].ownerId \/ u \in Admin

\* create(): one insert; its event follows in code after the await.
Create(r) ==
    /\ Admitted(r)
    /\ \E u \in Owner \cup Admin, p \in Property, c \in Price :
          /\ listings[p] = None
          /\ listings' = [listings EXCEPT ![p] =
                [ownerId |-> u, price |-> Rounded(c), status |-> "AVAILABLE",
                 isVerified |-> FALSE, deleted |-> FALSE]]
          /\ opened' = [opened EXCEPT ![p] = Rounded(c)]
          /\ Serve(r, [NewCall EXCEPT !.pc = "written", !.op = "create", !.user = u,
                           !.id = p, !.price = c])
    /\ UNCHANGED <<history, events>>

UpdateReadUntracked(r) ==
    /\ Admitted(r)
    /\ \E u \in User, p \in Property, c \in Price \cup {None}, s \in {None, "AVAILABLE"} :
          /\ Listed(p) /\ MayChange(u, p)
          /\ Serve(r, [pc |-> "write", op |-> "update", user |-> u, id |-> p, price |-> c,
                       status |-> s, old |-> listings[p].price])
    /\ UNCHANGED <<listings, history, events, opened>>

\* update(): is this a change of price?  The dto's is compared as it came.
UpdateRead(r) ==
    /\ Admitted(r)
    /\ \E u \in User, p \in Property, c \in Price \cup {None}, s \in {None, "AVAILABLE"} :
          /\ Listed(p) /\ MayChange(u, p)
          /\ Serve(r, [pc |-> IF c # None /\ listings[p].price # c THEN "history" ELSE "write",
                       op |-> "update", user |-> u, id |-> p, price |-> c, status |-> s,
                       old |-> listings[p].price])
    /\ UNCHANGED <<listings, history, events, opened>>

UpdateHistoryNewOnly(r) ==
    /\ req[r].pc = "history"
    /\ history' = Append(history, [property |-> req[r].id, oldPrice |-> None,
                                   newPrice |-> Rounded(req[r].price), src |-> r])
    /\ GoTo(r, "recorded")
    /\ UNCHANGED <<listings, events, opened, overlapped>>

UpdateHistoryReversed(r) ==
    /\ req[r].pc = "history"
    /\ history' = Append(history, [property |-> req[r].id, oldPrice |-> Rounded(req[r].price),
                                   newPrice |-> req[r].old, src |-> r])
    /\ GoTo(r, "recorded")
    /\ UNCHANGED <<listings, events, opened, overlapped>>

\* update(): the row of price_history, from the price that was read.
UpdateHistory(r) ==
    /\ req[r].pc = "history"
    /\ history' = Append(history, [property |-> req[r].id, oldPrice |-> req[r].old,
                                   newPrice |-> Rounded(req[r].price), src |-> r])
    /\ GoTo(r, "recorded")
    /\ UNCHANGED <<listings, events, opened, overlapped>>

\* update(): the announcement, of the dto's price as it came, before the
\* property has its new one.
UpdateAnnounce(r) ==
    /\ req[r].pc = "recorded"
    /\ events' = Append(events, [name |-> "property.price_changed", property |-> req[r].id,
                                 price |-> req[r].price, src |-> r])
    /\ GoTo(r, "write")
    /\ UNCHANGED <<listings, history, opened, overlapped>>

UpdateWriteWhole(r) ==
    /\ req[r].pc = "write"
    /\ listings' = [listings EXCEPT
          ![req[r].id].price = IF req[r].price = None THEN @ ELSE Rounded(req[r].price),
          ![req[r].id].status = IF req[r].status = None THEN @ ELSE req[r].status,
          ![req[r].id].deleted = FALSE]
    /\ GoTo(r, "written")
    /\ UNCHANGED <<history, events, opened, overlapped>>

\* update(): the fields of the dto that are there, in the row of that id,
\* whatever has become of it.
UpdateWrite(r) ==
    /\ req[r].pc = "write"
    /\ listings' = [listings EXCEPT
          ![req[r].id].price = IF req[r].price = None THEN @ ELSE Rounded(req[r].price),
          ![req[r].id].status = IF req[r].status = None THEN @ ELSE req[r].status]
    /\ GoTo(r, "written")
    /\ UNCHANGED <<history, events, opened, overlapped>>

\* remove(): the listing is there and the caller's.
RemoveRead(r) ==
    /\ Admitted(r)
    /\ \E u \in User, p \in Property :
          /\ Listed(p) /\ MayChange(u, p)
          /\ Serve(r, [NewCall EXCEPT !.pc = "remove", !.op = "remove", !.user = u, !.id = p])
    /\ UNCHANGED <<listings, history, events, opened>>

\* remove(): the soft delete.
RemoveWrite(r) ==
    /\ req[r].pc = "remove"
    /\ listings' = [listings EXCEPT ![req[r].id].deleted = TRUE,
                                    ![req[r].id].status = "INACTIVE"]
    /\ GoTo(r, "written")
    /\ UNCHANGED <<history, events, opened, overlapped>>

\* verify(), for admins.
VerifyRead(r) ==
    /\ Admitted(r)
    /\ \E u \in Admin, p \in Property :
          /\ Listed(p)
          /\ Serve(r, [NewCall EXCEPT !.pc = "verify", !.op = "verify", !.user = u, !.id = p])
    /\ UNCHANGED <<listings, history, events, opened>>

\* 404: the listing is not there, or deleted.  403: it is somebody else's.
Refuse(r) ==
    /\ Admitted(r)
    /\ \E u \in User, p \in Property : Listed(p) => ~MayChange(u, p)
    /\ Serve(r, Over("rejected"))
    /\ UNCHANGED <<listings, history, events, opened>>

\* verify() emits nothing: the write is its last step.
VerifyWrite(r) ==
    /\ req[r].pc = "verify"
    /\ listings' = [listings EXCEPT ![req[r].id].isVerified = TRUE]
    /\ Serve(r, Over("answered"))
    /\ UNCHANGED <<history, events, opened, overlapped>>

EventOf(op) == CASE op = "create" -> "property.created"
                 [] op = "update" -> "property.updated"
                 [] op = "remove" -> "property.deleted"

\* The code after the last write: emit the event, answer the client.
Finish(r) ==
    /\ req[r].pc = "written"
    /\ events' = Append(events, [name |-> EventOf(req[r].op), property |-> req[r].id,
                                 price |-> None, src |-> r])
    /\ Serve(r, Over("answered"))
    /\ UNCHANGED <<listings, history, opened, overlapped>>

\* The awaited call fails, or the process stops: the request is forgotten,
\* what it has written stays.
Abort(r) ==
    /\ Served(r)
    /\ Serve(r, Over("aborted"))
    /\ UNCHANGED <<listings, history, events, opened, overlapped>>

-----------------------------------------------------------------------------

\* A listing that is already there, as create() leaves it.
Stored == [ownerId: Owner \cup Admin, price: Amount, status: {"AVAILABLE"},
           isVerified: {FALSE}, deleted: {FALSE}]

Init ==
    /\ listings \in [Property -> {None} \cup Stored]
    /\ opened = [p \in Property |-> IF listings[p] = None THEN None ELSE listings[p].price]
    /\ history = <<>>
    /\ events = <<>>
    /\ req = [r \in Request |-> NewCall]
    /\ overlapped = FALSE

Update(r) == UpdateRead(r) \/ UpdateHistory(r) \/ UpdateAnnounce(r) \/ UpdateWrite(r)

Remove(r) == RemoveRead(r) \/ RemoveWrite(r)

Verify(r) == VerifyRead(r) \/ VerifyWrite(r)

Handle(r) ==
    Create(r) \/ Update(r) \/ Remove(r) \/ Verify(r) \/ Refuse(r) \/ Finish(r) \/ Abort(r)

Next == \E r \in Request : Handle(r)

Spec == Init /\ [][Next]_vars

-----------------------------------------------------------------------------
(* What holds whatever the interleaving.                                   *)

\* The tables, the events and the requests hold what their types allow.
TypeOK ==
    /\ listings \in [Property -> Listing \cup {None}]
    /\ history \in Seq(Change)
    /\ events \in Seq(Event)
    /\ req \in [Request -> Call]
    /\ opened \in [Property -> Amount \cup {None}]
    /\ overlapped \in BOOLEAN

Changes(p) == {history[i] : i \in {j \in DOMAIN history : history[j].property = p}}

\* No price is taken on in silence: the price of a listing is the one it was
\* created with or one that price_history has as new, however updates cross
\* and wherever they fail.
EveryPriceRecorded ==
    \A p \in Property : listings[p] # None =>
       listings[p].price \in {opened[p]} \cup {c.newPrice : c \in Changes(p)}

\* The price_changed event of a call comes after the row of price_history of
\* that call: the announced price, once rounded as a column rounds it, can be
\* found in the history.
AnnouncedIsRecorded ==
    \A i \in DOMAIN events : events[i].name = "property.price_changed" =>
       \E c \in Changes(events[i].property) :
          c.src = events[i].src /\ c.newPrice = Rounded(events[i].price)

\* A deleted listing stays deleted, also when an update that read it before
\* writes after.
DeletedIsFinal ==
    [][\A p \in Property : listings[p] # None /\ listings[p].deleted => listings'[p].deleted]_vars

\* Only its owner or an admin changes a listing.
OnlyOwnersChange ==
    [][\A p \in Property : listings[p] # None /\ listings'[p] # listings[p] =>
          \E r \in Request :
             /\ req[r].pc \in {"write", "remove", "verify"} /\ req'[r].pc # req[r].pc
             /\ req[r].id = p
             /\ req[r].user = listings[p].ownerId \/ req[r].user \in Admin]_vars

-----------------------------------------------------------------------------
(* What holds as long as no two requests overlapped, and needs it.         *)

Undisturbed == ~overlapped /\ \A r \in Request : req[r].pc # "aborted"

Settled == \A r \in Request : ~Served(r)

\* The rows of price_history that are a listing's, by their place in it.
Rows(p) == {i \in DOMAIN history : history[i].property = p}

First(i, S) == i \in S /\ \A j \in S : i <= j

Last(i, S) == i \in S /\ \A j \in S : j <= i

\* j is the row of the listing that comes after i.
NextTo(i, j, S) == i \in S /\ j \in S /\ i < j /\ \A k \in S : k <= i \/ j <= k

\* When no request overlapped another or failed, the history of a listing is a
\* chain: each change starts from the price the one before led to, the first
\* from the price at creation, and once the updates are done the last led to
\* the price the listing has.
HistoryIsChain ==
    Undisturbed =>
       \A p \in Property : listings[p] # None =>
          \A i \in DOMAIN history :
             /\ \A j \in DOMAIN history : NextTo(i, j, Rows(p)) => history[i].newPrice = history[j].oldPrice
             /\ First(i, Rows(p)) => history[i].oldPrice = opened[p]
             /\ Settled /\ Last(i, Rows(p)) => history[i].newPrice = listings[p].price

\* What the history says last is the price, once every update is done, also
\* when some of them failed or overlapped.
HistoryTellsPrice ==
    Settled =>
       \A p \in Property : listings[p] # None =>
          \A i \in DOMAIN history : Last(i, Rows(p)) => history[i].newPrice = listings[p].price

\* The subscribers of a listing hear nothing of it after property.deleted.
NothingAfterDeleted ==
    ~overlapped => \A i \in DOMAIN events : events[i].name = "property.deleted" =>
       \A j \in DOMAIN events : j > i => events[j].property # events[i].property
=============================================================================
