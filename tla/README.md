# TLA+ specifications of the real-estate API

The specifications of `real-estate-api`, a NestJS service over PostgreSQL (through
Prisma) in which owners list properties, tenants book visits, both chat, and
subscribers are told of changes. Paths below are those of the repository
(`src/modules/...`); `PROJECT.json` maps every definition to the lines it models.

## What makes this code hard

The service is one Node process (or several behind a balancer). A handler is an
`async` function: it runs alone until it awaits a database call, and any number
of other requests run before it goes on. No handler opens a transaction but
`resetPassword`, for its three writes, so the atomic unit is one SQL statement, and a
check made on a row that was read may be stale when the row is written. An event is handed to
`EventEmitter2` in memory: `emit()` runs each listener up to its first `await`,
nobody waits for the rest, a failure there is logged and forgotten, and nothing
outlives the process. A call may fail, or the process stop, at any await: what was
written stays. (One insert is nested, the conversation with its participants and its first
message; Prisma makes that one transaction, and here it is one action.)

All modules therefore share one shape. A *request* is one HTTP call, a record
whose `pc` says at which await it is suspended; one action is one database call
together with the synchronous code that follows it up to the next await, with its
guards and early returns; `Abort` ends a suspended request anywhere.

## Inventory

| Component | State | Operations | Hard behaviour | What makes it correct |
|---|---|---|---|---|
| Visits (`modules/visits`) | `visits`: property, tenant, owner, time, status, idempotency key, cancelledAt | `book`, `cancel`, `reschedule`, `confirm`; emits `visit.booked`, `visit.cancelled`, `visit.rescheduled` | up to four awaits per call, check then write, client retries | one visit per key, retries agree, one announcement, no overlapping visits, CANCELLED is the end, only the parties change a visit |
| Available slots (`getAvailableSlots`) | none, reads `visits` | one read per day | its notion of "taken" is not that of `book` | the two notions agree |
| Notifications (`modules/notifications`) | `notifications` | listeners of `visit.booked`, `visit.cancelled`, `property.price_changed`; `markRead`, `markAllRead` | listeners lag, overtake each other, fail silently | told once, told the right user, told of what happened, told in the end |
| Properties (`modules/properties`) | `properties`, `price_history` | `create`, `update`, `remove`, `verify`; emits `property.*` | history, event and price are three steps | history explains the price, deletion is final, nothing is announced after it |
| Property search (`search`) | none | filters, cursor, limit, distance | the distance filter comes after the cut of the page; listings change between pages | no listing is on two pages, none that stayed is missed, but for listings of equal date or price, which nothing orders |
| Shortlist (`modules/shortlist`) | `shortlists` | `add`, `remove` | check then insert; read by the price listener after the announcement | a subscriber is told once of a change; nobody who stays on the list is left out |
| Saved searches | `saved_searches` | `create`, `remove`, `toggleAlert` | read, negate, write | every answered toggle counts |
| Chat service (`modules/chat`) | `conversations`, `participants`, `messages` | `startConversation`, `sendMessage`, `getMessages`, `getUnreadCount` | find or create without a lock; two statements per message; read marker moved after the read | one conversation per pair and property (it does not hold when two starts cross); pages that lose and repeat nothing but messages of one instant; what is unread stays so until its reader fetches it |
| Chat gateway | socket rooms | join, leave, watch, typing, `send_message`; listeners of `property.*` and `visit.booked` | broadcast order against the store, disconnect | who joins, reads the last page and stays misses no message |
| Auth (`modules/auth`) | `refresh_tokens`, `password_resets`, `users` | `register`, `login`, `refreshTokens`, `logout`, `forgotPassword`, `resetPassword`, `changePassword` | refresh is two statements; registration checks then inserts; tokens expire | one account per e-mail, however typed; a session ends for a reason; a token is spent once; what was ended stays ended |
| Users | `users` | `findById`, `updateProfile`, ... | one statement each | |
| Analytics | `analytics_events` | `track`, counts | fire and forget | |
| Guards, filters, interceptors, health, configuration | none | | | |
| Prisma service, schema, migration | the database | | unique indexes refuse inserts | |

Visits, Properties, the chat and Auth never call each other. They meet in the database
(`book` reads `properties`, so does `ShortlistService.add`; the listener of price changes reads
`shortlists`) and in the events: Notifications and the chat gateway listen to what Visits and
Properties emit. `PROJECT.json` lists the hazards of
each component at the line where they bite, those no module covers yet included.

## Modules

**`Visits`** is `VisitsService` whole. `visits` is the table (`None` for an id not
handed out yet), `listed` the one column of `properties` that `book` reads, `now` the
clock, `req` the requests, `emitted` the events. `book` is `BookNew`/`BookReplay` (the
lookup of the key), `BookProperty`, `BookConflict`, `BookCreate` (the insert, refused by
the unique index on the key) and `Emit`; the other three operations are a read that
makes every check (`CancelRead`, `RescheduleRead`, `ConfirmRead`) and an update by id
(`CancelWrite`, ...), after which `cancel` and `reschedule` emit and `confirm` ends. `Delist`
is the part of `PropertiesService.remove` this service sees. A visit is born PENDING;
no code writes COMPLETED or NO_SHOW, so those statuses occur in guards only.
`crossed` is a history variable: the pairs of calls that had both passed their check, about one
property or one visit, before either of them wrote. The properties of what a check is worth name
it: they say what survives every interleaving, and which two calls must have crossed for
the rest.

**`VisitBoard`** is the abstract specification: a board, and callers who look at it, decide, and
write later. `Decide` takes only a decision that the board as it was allowed (a free slot, a live
visit of one's own, a pending one), `Write` makes it true once, `Forget` drops it; only the
freshness of a key is certain at the write. `Visits` implements it whatever the interleaving
(`board <- visits`, `decided <- Plans`, where `Plans` is what the calls between their check and their
write are about to do). That a decision and its write are two steps is all a board without
transactions can promise; the findings below say what it costs.

**`VisitSlots`** extends `Visits` with `getAvailableSlots` as a function of the visits,
and compares its answer with the conflict query of `book`.

**`VisitAlerts`** extends `Visits` with the listeners of `NotificationsService`: a step of
`Visits` hands the new events to their listeners (`handling`), which insert a
notification (`Deliver`) or fail (`Lose`) at any later time and in any order.
`markRead` and `markAllRead` run beside them.

**`Listings`** is the writing half of `PropertiesService`: `create` (one insert), `update`
(read; insert into `price_history`; `price_changed`; write), `remove` and `verify` (read;
write), and the event after the last write (`Finish`). The dto of an update carries a
price, a status, both or neither; the other columns are not told apart. A `Price` of a dto is
in thousandths, since the dto allows any number of decimals; the columns are
`Decimal(12, 2)`, so what is stored is `Rounded`, an `Amount`. `update` compares the price of the dto
with the stored one, and announces that of the dto, both as they are.
At the start a listing is there or not yet. A request that was answered, rejected or
aborted is forgotten but for that (`Over`). `opened` (the price at creation) and
`overlapped` are history variables; the second records that two calls were once served
together, so that one run checks both what always holds and what holds only
without overlap.

**`PriceAlerts`** extends `Listings` with `ShortlistService` (`AddCheck`, `AddInsert`, `RemoveFind`,
`RemoveDelete`) and the listener of `property.price_changed`: a step of `Listings` that announces a
price puts the announcement in `reading`; `ReadSubscribers` turns it into one pending insert per
entry (`telling`), each of which ends on its own (`Tell`, `TellFails`), as `Promise.allSettled`
lets them. `missed` is a history variable of the failures, which the code only logs. A
row has the `id` of the call that inserted it, so that a second row of one user would be
seen, and for `createdAt` the number of events emitted before it.

**`Conversations`** is the writing half of `ChatService` with the rooms of the gateway.
`startConversation` is `StartFind`, then `StartAppend` or the nested insert `StartCreate`;
`sendMessage` is `SendCheck`, `SendInsert`, `SendTouch` (the conversation's `updatedAt`) and, when the
call came by the socket, `Broadcast`; `getMessages` is `GetCheck`, `GetPage`, `GetMark` (the reader's
`lastReadAt`). `Fronts`, `Rests` and `Nexts` are its query, cursor and `nextCursor`, `Unread` is what
`getUnreadCount` counts. `Join` and `Leave` are the two socket events; a disconnection leaves every
room. A user has one socket. A time that the code takes with `new Date()` between two
database calls is any instant between them (`since .. now`). Messages are known by
their position, the order of the inserts; `createdAt` may be the same for several, and
the query has no second key, so of messages of one instant each query takes any, in
any order. `following` (the readers who joined a room, read its last page and stayed) and
`overlapped` are history variables. Of a `startConversation` that ended nothing is kept: no
property asks for its answer. Appending to a conversation that was found does not
touch its `updatedAt`, here as in the code.

**`Sessions`** is `AuthService`: the tables `users`, `tokens` and `resets`, and the clock by
which tokens expire. `register` is `RegisterFind`, `RegisterCreate` (the insert, refused by
the unique index on the address) and `Issue`; `login` is `LoginFind` and `Issue`;
`refreshTokens` is `RefreshFind`, `RefreshRevoke` and `Issue`, where `Issue` is the insert of
`generateTokens`. `Logout` is one statement, `forgotPassword` two (`ForgotFind`,
`ForgotInsert`), `resetPassword` a read and a transaction (`ResetFind`, `ResetWrite`),
`changePassword` a read and a write. `Abort` marks as `broken` a refresh that ends after it
revoked the old token and before it inserted the new one. A `Token` carries two history
fields that are no columns: `parent`, the token it replaced, and `era`, the number of
resets its issuer had found the user to have. `contested` is a history variable: the
refresh tokens and reset tokens that a call had found good when another found, or by `Logout`
revoked, the same before it wrote; and the sessions, by user and era, that a reset could not
end because their login, registration or refresh had its lookup behind it.
Addresses are spelled, and `LowerCase` is a constant; argon2 stands as equality of
passwords.

**`Search`** is `search()`, walked page by page: a call is one query and what the code does
with its rows, so it is one step, `Page`. The order of rows with equal keys is any; the
query is cut at `Limit + 1`, *then* the radius takes rows out, then it is decided
whether more follow and which row is the cursor. Of a cursor that the query no
longer finds Prisma promises nothing, so the model takes any subset that is not ahead of
it. Between pages listings come (`List`), go (`Unlist`), return (`Relist`) and change their
price (`Reprice`). Several may have one `createdAt`: `prisma/seed.ts:67` creates two with one
`createMany`. `steady`, `moved`, `tied` (what was equal to a cursor when the page after it was
read), `short` and `strayed` are history.

**`SavedSearches`** is `SavedSearchService`: `Create`, `ToggleFind` and `ToggleWrite`, `RemoveFind` and
`RemoveDelete`. `wanted` (the switch after each answered toggle) and `crossed` (the rows of which a
toggle read while another was about to write) are history.

**`MCVisits`, `MCVisitSlots`, `MCVisitAlerts`, `MCListings`, `MCPriceAlerts`, `MCConversations`,
`MCSessions`, `MCSeekers`** hold the symmetry sets and the constants that a cfg cannot write.
`MCSeekers` instantiates `Search` and `SavedSearches` together: they share no state and no
property, so that one runs while the other is at rest. **`VisitsProofs`,
`VisitSlotsProofs`, `VisitAlertsProofs`, `ListingsProofs`, `PriceAlertsProofs`,
`ConversationsProofs`, `SessionsProofs`, `SeekersProofs`** (of `Search` and `SavedSearches`) hold the theorems.

## Runs

| Run | Question | Result |
|---|---|---|
| `visits_concurrent` | three calls of any operation, interleaved at each await, failing anywhere | idempotency, single announcements, access; the board is implemented; visits overlap, a cancelled visit changes, a stamp contradicts the status or a cancellation is told twice only where the calls named had crossed (or `reschedule` moved a visit); the two notions of "taken" differ at the edge of a slot only |
| `visits_booking_race` | no double booking, overlapping calls of `book` | **violated** |
| `visits_reschedule_onto` | no double booking where no two calls crossed, with `reschedule` | **violated** |
| `alerts` | listeners that lag, overtake and fail | owner told once, cancellations real, a booking is heard in the end |
| `alerts_other_party` | the other party hears of a cancellation | **violated** |
| `listings` | two calls on a listing, two on the shortlist, the listener of price changes, interleaved, failing anywhere | prices recorded, announced prices on record once rounded, deletion final, access checked; told once, nobody left out; without overlap the history is a chain and a deleted listing is silent |
| `listings_history` | the history ends at the price, also after a failure | **violated** |
| `conversations` | three calls of the chat service and the rooms, interleaved, failing anywhere | followers miss nothing, pages lose and repeat only messages of the cursor's instant, marks are the reader's own; without overlap what was shown is read, what was not shown to a reader of first pages stays unread |
| `conversations_twice` | one conversation per pair and subject, two calls of `startConversation` | **violated** |
| `sessions` | three calls of the auth service and the clock, interleaved, failing anywhere | one account per address, sessions end for a reason; a token is spent once, and what was ended stays ended, but where calls contended for that very token or session |
| `seekers` | a search walked by its cursor while listings change; three calls on a saved search | a listing is repeated or missed only for the reasons named, ties among them; toggles count unless two cross |
| `search_ends_early` | the pages of a search by recency show all there is, nothing changing | **violated** |

The six violations are disagreements between the code and what it, its comments or
its README say; each is a finding in `PROJECT.json` with both lines. In short:
two overlapping `book` calls take one slot; `reschedule` never asks whether the
new time is free; the notice of a cancellation goes to the owner even when the owner
cancelled; an update that fails after its insert leaves a change of price in the
history that did not happen; a radius search ends at the first page from which the
radius took a row, although listings in range follow; two crossing calls of
`startConversation`, which its comment calls idempotent (`chat.service.ts:20`), create two
conversations.

Overlapping calls break more than the findings show, and the properties say where. In `Visits` and
`Sessions` they hold but for the calls that crossed, which they name: `confirm` writes over a
cancellation that came after its read (`CancelledIsFinal`, `CancelledIsStamped`); two calls of `cancel`
announce twice (`CancelAnnouncedOnce`); two refreshes, or two resets, with one token both succeed
(`SpentOnce`), although the README of the service lists token rotation (`README.md:37`)
among its features without a limit; a login that read the old password issues its token after the
reset has revoked the others, and a logout between the two writes of a refresh leaves the
new token alive (`EndedStaysEnded`). Whatever crosses, a token that was replaced is dead, and
nothing but a crossing about that very token or session is excused. In `Listings` and
`Conversations` four properties are judged only while no two calls overlap at all
(`~overlapped`): `HistoryIsChain` and `NothingAfterDeleted`, since crossing updates interleave their
inserts, writes and events; `ShownIsRead` and `UnshownStaysUnread`, since a message stored
between the read of a page and the instant written to `lastReadAt` is read unseen. And a slot
exactly 60 minutes from a visit is offered and refused, which is the one difference
`SlotsAgreeUpToTheEdge` allows.

### Bounds, and why they are enough

* Visits, three requests: every race here needs two calls, and a third can be the retry,
  the call that booked the visit, or the one that disturbs the other two. A failed
  `book` is one call, its retry a second, a call that steals the slot a third.
* Two idempotency keys (a retry and a stranger) and two visit ids, since two keys allow at most
  two rows; one property (visits of distinct properties never conflict, and no query
  spans properties), one owner, one or two tenants.
* `Time` is `0 .. MaxTime`. With `SlotDuration = 1`, `MaxTime = 2` visits can be in the same
  slot, exactly one slot apart (the edge the conflict query includes) or farther. The day of
  `visits_concurrent` has an hour of one instant and two slots, at 1 and 2, so a visit
  falls before the slots, on either of them, and exactly one slot from each. In the alerts
  `MaxTime = 0`: times play no part there, and two visits of one property then always conflict
  unless one is cancelled or the calls race, both of which happen.
* Listings and shortlists: one property (no query spans two), which is there at the start
  or is created by one of the two calls; two calls that change it are the smallest race
  and make a chain of two changes, for which two prices are enough, there and back: 15 and 30
  thousandths, of which the first is stored as 20 and the second as it is. One owner and one
  admin, to either of whom the listing may belong, so that the owner is also the stranger to a
  listing of the admin. One subscriber and two calls of `add` or
  `remove`, which cross each other, both changes and the deletion. With one property and one
  subscriber what a run says of the *others* is little; the theorems say it for all.
* Conversations: three requests (two that race and one that was answered before, whose
  cursor or page the others are compared with), two conversation ids (as many as
  a race can create), two users and one subject, pages of one message over the two that
  a conversation there from the start has, so that a first page has a successor
  and new messages arrive around both. One user at a time is in a room (`Seats = 1`): that user
  may be the sender or the other. The clock has two instants, so a stamp is either as old as
  a message or newer, and messages share an instant. Three calls store at most three more
  messages, so no other bound on them is needed. `conversations_twice` needs two requests, and
  neither rooms nor a clock that moves.
* Sessions: three calls (a refresh, the one that crosses it, and the one whose token or
  password they contend for), beside an account with a session and a reset token that may
  be there from the start. Two accounts; three spellings of two addresses; two passwords;
  four refresh tokens, the first and one per call; two reset tokens. The clock has two
  instants and both lifetimes are 0: a token of the first instant is alive at it and expired
  at the next, one issued later is alive, which is all that the comparison with the clock
  tells apart.
* Seekers: one walk, since a search changes nothing another could see; three listings, one on
  a page and one to look ahead, and one beyond; two instants of creation and two prices, with ties
  in both; two distances, in range and out. `MaxChanges = 2`: a listing goes and another comes, or one is repriced
  there and back. `MaxPages = 3`: each listing on a page of its own. `search_ends_early` has
  `MaxChanges = 0`, so nothing but the code ends the walk. On a saved search three calls:
  two toggles that cross and a third, or a deletion among them.
* `CHECK_DEADLOCK FALSE` everywhere: each request is served once, so a behaviour with
  finitely many of them comes to rest. Nothing in this code waits for another
  request, so there is no deadlock to look for.
* Model values of one kind are interchangeable; the runs with invariants and action
  properties use that symmetry, `alerts`, which has a liveness property, does not.

### Fairness

Only `alerts` needs any. Weak fairness of each admitted request (`Served(r)` and a step of
it, `Abort` included) and of the listeners (`Deliver` or `Lose`): Node runs the
continuation of every settled promise, and a database call settles, with a result or
an error. Nothing is assumed of arrivals, of success, or of the order of the listeners.
`BookingIsHeard` accordingly says: told, or the request failed, or its listener did.

## Proofs

`tlapm` checks all of them, for every value of the constants that satisfies the named
assumptions (`VisitsAssumption`, `SlotsAssumption`, `ListingsAssumption`, `AlertsAssumption`,
`ConversationsAssumption`, `SessionsAssumption`, `SavedAssumption`, `SearchAssumption`, and
`NoRowIsNone`, `NoSavedIsNothing`, `NoListingIsNone`, which TLC evaluates in the passing
runs): `None` is not a row or an id, times, prices, distances and durations are naturals, a
slot lasts an hour and no slot is within an hour of midnight, a page has at least one
message or listing, lower case is lower case, and the listings a search could meet are
finitely many.

*Visits, any interleaving.* The inductive invariant is `TypeInv == TypeOK /\ Found`: a
request past its read or insert names a row, and `book` one with its key. `Found` is
needed because `Emit` and the three updates dereference `req[r].id`. From it:

* `TypeCorrect`; `KeysAreUnique` (an insert needs `~KeyTaken`, updates keep keys); then
  `RetriesAreIdempotent` follows from `Found` and `KeyUnique` alone.
* `BookingsAnnouncedOnce` rests on `AnnounceInv`: a visit is about to be announced by one
  call at most, and by none once it was, because only its insert leads there.
* `PartiesOnly` rests on `Allowed`: a request waiting at its update named a visit whose
  tenant or owner its user is, and no step changes those two columns, so the check
  outlives the await although the status check does not.
* `StatusUsed`: COMPLETED and NO_SHOW do not occur, and every row that is CANCELLED was written
  by `CancelWrite`.

What the checks are worth rests on `Met`: two calls that stand between check and write about one
property, or one visit, have crossed, because the later of them recorded it when its check
passed. With it, whatever the interleaving:

* `CancellationsAreStamped`: by `StampInv` a row with a stamp is CANCELLED or a `cancel` of it
  crossed a call that puts the status back, and so for what is on its way to such a row.
* `CancelledForGood`: by `Late`, a call about to update a visit that is CANCELLED has crossed
  the one that cancelled it.
* `CancellationsAnnouncedOnce`: by `Twice`, two calls cancel one visit only when they crossed, or
  when one crossed a call that made it live again.
* `BookedStayApart`: by `Checked`, a visit in the way of a `book` that found none was moved
  there, was cancelled and lives again, or was booked by a call it crossed; a visit that was
  neither moved nor cancelled stays where it was (`Steady`).
* `ServiceImplementsBoard`: each step of a handler is a `Decide`, `Write` or `Forget` of its caller or
  leaves the board alone; a check that passes is one the board allows, which needs
  `StatusUsed`, for the code refuses statuses by name.

*Visits and their listeners.* `VisitsUndisturbed` shows that `VisitAlerts` implements `Visits`, whose
theorems above then hold of it. `AlertsInv` adds to the types `Behind` (what the proofs of
`Visits` say of announcements and access, with `EventsMeant`: an event is about a row, a
`visit.cancelled` about the row of the call it came from) and `Noticed` (an event waits for
its listener, or has its one notification, or was lost; what that says is what the event
said, to the owner of the row). `OwnersToldOnce` and `CancellationsDidHappen` follow.
`OwnersAreTold` is the safety half of `BookingIsHeard`, for cancellations too: what a call wrote
is announced unless its call has yet to do so or failed (`SaidOrFailed`), and what was
announced waits for its listener, is in its hands, told, or lost (`HeardOrLost`).

*Slots.* `SlotsAgree` is arithmetic about the two comparisons, true of every state with
`TypeOK`: what is shown as taken is refused, and what is shown as free and refused is exactly a
slot away from a visit.

*Listings.* `TypeInv` is `TypeOK /\ Ready` (what a suspended request carries is not null).
`PricesAreRecorded` rests on `PriceInv`, that is `EveryPriceRecorded` and `Backed`: an update
that is past its insert, or skipped it because the price it read was the one it was
asked for, writes only a price that is on record, and the record never shrinks.
`AnnouncementsAreOnRecord` rests on `AnnounceInv`, that every call past its insert has its row there,
with the price it is about to announce as the column rounds it.
`OwnersOnly` rests on `Checked`: the check of the read outlives every await because no step
changes `ownerId`. `DeletedForGood` needs only that no write touches `deletedAt` but the one
that sets it; `DeletionIsTheLastWord` adds `Gone` (a deletion is told when it is done) and `Quiet`
(without overlap one call is served, and the deletion of its listing has not been told).
`HistoryAddsUp` rests on `ChainInv`: the history of a listing leads to the price the listing
has, except between the insert and the write of the one update that is served, when it leads
to the price about to be written (`InStep`). The chain is stated of neighbours among
positions of the table (`NextTo`), so that an insert adds one pair to it.

*Price alerts.* `ListingsUndisturbed` shows that `PriceAlerts` implements `Listings`, so the theorems
above hold of it. `AlertsInv` adds to the types `IndexHolds` (the unique index), `NoticesApart` (an
announcement is read once; its notices are for entries of its listing, no two for one
user) and `StillListedTold` itself, which is inductive with them: an event is in `reading` as
soon as it is announced, and the read takes every entry that is there. `EachIsToldOnce` and
`NobodyIsLeftOut` are its conjuncts.

*Conversations.* `TypeInv` is `TypeOK /\ Ready` (a request under way names a conversation of its
user, and a message it has stored is there), and with it goes `Grows`: conversations
and messages stay. The lemmas on pages say what a page is: an upper end, by `createdAt`, of what
there is to show, empty only when that is, and what it leaves out is no newer than its cursor.

* `FollowersCorrect` rests on `FollowInv`: a follower is in the room and has read the last
  page; a message on its way to the room was stored when that page was read, or will be pushed.
* `PagesCorrect` rests on `PagesInv`: a cursor is a message, and another is no newer; a page leaves
  out nothing that is strictly between two of its own messages or between one of them and its
  cursor; and a message that arrives later is no older than every page and cursor there
  is. What may be lost or repeated is of the cursor's instant.
* `UnreadCorrect`: the only step that moves `lastReadAt` is `GetMark` of that user, and messages stay.
* `ShownCorrect` and `UnshownCorrect` rest on `ReadInv`: no message and no mark is from the future, and
  without overlap (`AloneInv`: one request is served at a time) the mark a `getMessages` is about
  to write is not before the messages of its page and nothing was stored since that page was
  read.
* `ParticipantsCorrect` rests on `PartiesInv`: what a request checked of participants before an
  await holds after it, because no step changes them; and a conversation of exactly
  two that every one of two users takes part in is of these two.

*Sessions.* `Inv` adds to the types that a suspended call carries what it needs, that accounts
are stored in lower case and apart, and that every revoked token has its reason
(`Reasons`). `AccountsApart` rests on the guard of the index and not on the lookup;
`NoSessionLost` on `Reasons`, in which the reason of a refresh passes from the call to the
new token in `Issue`, and from the call to its end in `Abort`. `SessionsKeepTheirUser`: the user
that a refresh read with the old token outlives the await before the new one is inserted
(`OfItsUser`), as no step gives a token to another user or revives it. What a lookup is still
worth at the write, whatever the interleaving, is three invariants, each about what nobody
contended for:

* `SpendInv`: a token is spent by one call, or by its logout, and before that has no successor.
  It holds because a refresh that finds a token alive finds it without successor and
  logout (`AliveIsUnspent`), and any other call that had found it is on record.
* `EraInv`: a live token, and a call about to issue one, is of the era its user is in.
* `ResetOnceInv`: a reset token is used by one call.

`TokensSpentOnce` follows from the first and the last, `SessionsStayEnded` from the first two.

*Saved searches.* `SwitchInv`: of a row no two toggles crossed, the one that is about to write
still has the switch as it is. `EveryToggleCounts` is its consequence.

*Search.* The lemmas first say what the first `n` rows of an order are: a front of it, the whole
when there are no more than `n`, and they have a last row (`FirstIsFront`, `FirstIsAll`, `PageFacts`);
the count is finite because the listings are. `SearchInv` adds to the types what it says of each
walk that has not lost its cursor and does not go by distance: what was shown and did not change
its price lies at or before the cursor (`Past`), and what stayed, was not shown and was equal to no cursor lies behind it or was out of
range (`ToCome`). The next page is cut from what is behind the cursor, so it repeats nothing but
what equals the cursor, and when the walk ends nothing is left behind it. `RepeatsHaveAReason`
and `MissesHaveAReason` are its consequences; by recency the first excuses ties of `createdAt` alone, whatever is listed or taken down.
`ByDateAllIsShown` sharpens the second: only a radius shortens a page (`ShortIsNear`), so a walk
by date without one misses nothing that stayed but listings exactly as old as a cursor, unless
its cursor's listing is taken down.

*Model-checked only:* `BookingIsHeard` (liveness: the prover does not do fairness). Every other
property of a passing run is a theorem.

## Not modelled

Access tokens, validation of dtos and roles appear as the sets a request's user and
inputs are drawn from (`Tenant`, `Owner`, `Admin`): access tokens are stateless JWTs, and the
guards keep nothing. Texts of notifications, payload fields nobody reads, time zones,
the haversine formula (floating point; a distance is a number of a small set), the
`meta` of a page of search (it is computed from a page number that the cursor never
moves), how the lifetime of a token is parsed from the configuration, the unique phone of an
account, logging and metrics are left out. A page has at least one row: a limit of 0, for which
`getMessages` reads the last element of an empty page, is listed as a hazard only. Of the
gateway the typing indicator, which keeps nothing, and the rooms of properties and
users with the pushes to them are left out, of the chat `getConversations`, which only
reads. Users and Analytics keep no relation between rows. Crash recovery is not a
subject of its own: no state but the database survives, and `Abort`, `AskAbort` and `Lose`
stand for the stop.

## Plan

Done, in this order: `Visits`, `VisitBoard`, `VisitSlots`, `VisitAlerts`, `Listings`, `PriceAlerts`,
`Conversations`, then `Search`, `SavedSearches` and `Sessions`, with the theorems above. What is left:

1. The rooms of properties, composed with `PriceAlerts`: what a socket is pushed against what the
   notices say.
