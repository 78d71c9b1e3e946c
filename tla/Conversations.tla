--------------------------- MODULE Conversations ---------------------------
(***************************************************************************)
(* ChatService (src/modules/chat/chat.service.ts) and the rooms of the     *)
(* WebSocket gateway (src/modules/chat/chat.gateway.ts): conversations of  *)
(* two users about a subject, their messages, what each user has read, and *)
(* what is pushed to those who are connected.                              *)
(*                                                                         *)
(* A handler suspends at each database call and opens no transaction.  One *)
(* action is one call together with the code up to the next await; a time  *)
(* the code takes in between (`new Date()`) is any time between the two    *)
(* calls.                                                                  *)
(***************************************************************************)
EXTENDS Naturals, Sequences, FiniteSets

CONSTANTS
    Request,   \* the calls of a behaviour, each served once
    ConvId,    \* uuids the database hands out to rows of "conversations"
    User,
    Subject,   \* values of propertyId, null being one like the others
    Limit,     \* messages on a page
    Stored,    \* how many messages a stored conversation starts with
    Seats,     \* how many sockets may be in rooms at a time (bounds the model)
    MaxTime,   \* the last instant of the clock
    None       \* null

Time == 0 .. MaxTime

Operation == {"start", "send", "get"}

ASSUME ConversationsAssumption ==
    /\ Limit \in Nat \ {0}
    /\ Stored \in Nat \ {0}
    /\ Seats \in Nat
    /\ MaxTime \in Nat
    /\ None \notin ConvId \cup User \cup Subject \cup Nat \cup Operation

VARIABLES
    convs,      \* "conversations" with its participants, None for an id not used yet
    messages,   \* table "messages", oldest first; a message is known by its position
    rooms,      \* the <<user, conversation>> whose socket is in the room
    received,   \* the <<user, message>> pushed by new_message
    now,        \* the clock
    req,        \* what each request is about and where it is suspended
    following,  \* answered pages whose reader has been in the room ever since
    overlapped  \* whether a request was ever admitted while another was served

vars == <<convs, messages, rooms, received, now, req, following, overlapped>>

-----------------------------------------------------------------------------
(* Types.                                                                  *)

Conversation ==
    [subject: Subject, members: {m \in SUBSET User : Cardinality(m) = 2},
     updatedAt: Time, readAt: [User -> Time \cup {None}]]

ASSUME NoRowIsNone == None \notin Conversation

Message == [conv: ConvId, sender: User, at: Time]

Suspended == {"append", "create", "insert", "touch", "broadcast", "page", "mark"}
Ended     == {"answered", "over"}

\* other and subject belong to startConversation, socket and msg to
\* sendMessage, cursor, page and next to getMessages; known is how many messages
\* there were when a first page was read, and since is when the last database
\* call ended.
Call == [pc: {"new"} \cup Suspended \cup Ended, op: Operation \cup {None},
         user: User \cup {None}, id: ConvId \cup {None}, other: User \cup {None},
         subject: Subject \cup {None}, socket: BOOLEAN, msg: Nat \cup {None},
         cursor: Nat \cup {None}, page: SUBSET Nat, next: Nat \cup {None}, known: Nat,
         since: Time]

NewCall == [pc |-> "new", op |-> None, user |-> None, id |-> None, other |-> None,
            subject |-> None, socket |-> FALSE, msg |-> None, cursor |-> None,
            page |-> {}, next |-> None, known |-> 0, since |-> 0]

-----------------------------------------------------------------------------
(* Queries.                                                                *)

Started == {c \in ConvId : convs[c] # None}

\* where: { propertyId, participants: { every: { userId: { in: [u, w] } } } },
\* and two participants.
Between(u, w, s) ==
    {c \in Started : /\ convs[c].subject = s
                     /\ convs[c].members \subseteq {u, w}
                     /\ Cardinality(convs[c].members) = 2}

IsParticipant(u, c) == c \in Started /\ u \in convs[c].members

In(c) == {i \in DOMAIN messages : messages[i].conv = c}

FrontsOfOldest(n, S) ==
    IF Cardinality(S) <= n THEN {S}
    ELSE {F \in SUBSET S : /\ Cardinality(F) = n
                           /\ \A i \in F, j \in S \ F : messages[i].at <= messages[j].at}

\* orderBy: { createdAt: 'desc' } and take: n, of the messages in S: n of them
\* with none newer left out.  Nothing orders messages of one instant, so there
\* may be several such sets, and each query takes any.
Fronts(n, S) ==
    IF Cardinality(S) <= n THEN {S}
    ELSE {F \in SUBSET S : /\ Cardinality(F) = n
                           /\ \A i \in F, j \in S \ F : messages[j].at <= messages[i].at}

RestsFromCursor(c, cursor) ==
    IF cursor = None THEN {In(c)}
    ELSE {{i \in In(c) : messages[i].at <= messages[cursor].at}}

\* cursor and skip: 1.  What comes after the cursor: the older messages, and of
\* those of its own instant the ones this query happens to put behind it.
Rests(c, cursor) ==
    IF cursor = None THEN {In(c)}
    ELSE LET older == {i \in In(c) : messages[i].at < messages[cursor].at}
             equal == {i \in In(c) \ {cursor} : messages[i].at = messages[cursor].at}
         IN {older \cup T : T \in SUBSET equal}

\* nextCursor: the last of the page, when there is more.
Nexts(found, page) ==
    IF found = page THEN {None}
    ELSE {i \in page : \A j \in page : messages[i].at <= messages[j].at}

UnreadSince(u) ==
    {i \in DOMAIN messages :
       LET c == messages[i].conv IN
       /\ IsParticipant(u, c)
       /\ messages[i].sender # u
       /\ convs[c].readAt[u] # None => messages[i].at >= convs[c].readAt[u]}

\* getUnreadCount(): the messages it counts.
Unread(u) ==
    {i \in DOMAIN messages :
       LET c == messages[i].conv IN
       /\ IsParticipant(u, c)
       /\ messages[i].sender # u
       /\ convs[c].readAt[u] # None => messages[i].at > convs[c].readAt[u]}

-----------------------------------------------------------------------------
(* Serving a request.                                                      *)

Served(r) == req[r].pc \in Suspended

Admitted(r) ==
    /\ req[r].pc = "new"
    /\ overlapped' = (overlapped \/ \E q \in Request : Served(q))

Serve(r, call) == req' = [req EXCEPT ![r] = call]

\* A request that was answered.
Answer(r) == req' = [req EXCEPT ![r].pc = "answered", ![r].since = 0]

\* One that is over and forgotten: it was refused, it failed, or it succeeded
\* and was a startConversation() or a sendMessage() through REST, which tell
\* nobody.  What it has written stays.
Over == [NewCall EXCEPT !.pc = "over"]

Store(r, c) ==
    messages' = Append(messages, [conv |-> c, sender |-> req[r].user, at |-> now])

\* startConversation(): is there one already?
StartFind(r) ==
    /\ Admitted(r)
    /\ \E u, w \in User, s \in Subject :
       LET call == [NewCall EXCEPT !.op = "start", !.user = u, !.other = w, !.subject = s] IN
          \/ /\ Between(u, w, s) = {}
             /\ Serve(r, [call EXCEPT !.pc = "create"])
          \/ \E c \in Between(u, w, s) : Serve(r, [call EXCEPT !.pc = "append", !.id = c])
    /\ UNCHANGED <<convs, messages, rooms, received, now, following>>

\* startConversation(): the first message goes to the conversation found.
StartAppend(r) ==
    /\ req[r].pc = "append"
    /\ Store(r, req[r].id)
    /\ Serve(r, Over)
    /\ UNCHANGED <<convs, rooms, received, now, following, overlapped>>

StartCreateUnindexed(r) ==
    /\ req[r].pc = "create"
    /\ \E c \in ConvId \ Started :
          /\ convs' = [convs EXCEPT ![c] =
                [subject |-> req[r].subject, members |-> {req[r].user, req[r].other},
                 updatedAt |-> now, readAt |-> [u \in User |-> None]]]
          /\ Store(r, c)
          /\ Serve(r, Over)
    /\ UNCHANGED <<rooms, received, now, following, overlapped>>

\* startConversation(): conversation, participants and first message in one
\* nested insert, which is a transaction.  The unique index on conversation
\* and user refuses it when somebody writes to himself.
StartCreate(r) ==
    /\ req[r].pc = "create"
    /\ \/ /\ req[r].user = req[r].other
          /\ Serve(r, Over)
          /\ UNCHANGED <<convs, messages>>
       \/ /\ req[r].user # req[r].other
          /\ \E c \in ConvId \ Started :
                /\ convs' = [convs EXCEPT ![c] =
                      [subject |-> req[r].subject, members |-> {req[r].user, req[r].other},
                       updatedAt |-> now, readAt |-> [u \in User |-> None]]]
                /\ Store(r, c)
                /\ Serve(r, Over)
    /\ UNCHANGED <<rooms, received, now, following, overlapped>>

\* sendMessage(), through REST or the socket: 403, also when there is no such
\* conversation.
SendCheck(r) ==
    /\ Admitted(r)
    /\ \E u \in User, c \in ConvId, socket \in BOOLEAN :
          Serve(r, IF IsParticipant(u, c)
                   THEN [NewCall EXCEPT !.pc = "insert", !.op = "send", !.user = u, !.id = c,
                                        !.socket = socket]
                   ELSE Over)
    /\ UNCHANGED <<convs, messages, rooms, received, now, following>>

\* sendMessage(): the message.
SendInsert(r) ==
    /\ req[r].pc = "insert"
    /\ Store(r, req[r].id)
    /\ req' = [req EXCEPT ![r].pc = "touch", ![r].msg = Len(messages'), ![r].since = now]
    /\ UNCHANGED <<convs, rooms, received, now, following, overlapped>>

\* sendMessage(): the conversation's updatedAt.
SendTouch(r) ==
    /\ req[r].pc = "touch"
    /\ \E t \in req[r].since .. now : convs' = [convs EXCEPT ![req[r].id].updatedAt = t]
    /\ Serve(r, IF req[r].socket THEN [req[r] EXCEPT !.pc = "broadcast", !.since = 0] ELSE Over)
    /\ UNCHANGED <<messages, rooms, received, now, following, overlapped>>

AudienceButSender(r) == {u \in User \ {req[r].user} : <<u, req[r].id>> \in rooms}

\* this.server.to(room): everybody in the room.
Audience(r) == {u \in User : <<u, req[r].id>> \in rooms}

\* handleSendMessage(): only the socket tells the others.
Broadcast(r) ==
    /\ req[r].pc = "broadcast"
    /\ received' = received \cup {<<u, req[r].msg>> : u \in Audience(r)}
    /\ Answer(r)
    /\ UNCHANGED <<convs, messages, rooms, now, following, overlapped>>

\* The cursor a client has: none, or one that an earlier page gave.
Cursors(c) == {None} \cup {req[q].next : q \in {p \in Request : req[p].op = "get" /\ req[p].id = c /\ req[p].pc = "answered"}}

\* getMessages(): 403.
GetCheck(r) ==
    /\ Admitted(r)
    /\ \E u \in User, c \in ConvId : \E cursor \in Cursors(c) :
          Serve(r, IF IsParticipant(u, c)
                   THEN [NewCall EXCEPT !.pc = "page", !.op = "get", !.user = u, !.id = c,
                                        !.cursor = cursor]
                   ELSE Over)
    /\ UNCHANGED <<convs, messages, rooms, received, now, following>>

\* getMessages(): limit + 1 messages are fetched, the page is the first limit
\* of them.
GetPage(r) ==
    /\ req[r].pc = "page"
    /\ \E rest \in Rests(req[r].id, req[r].cursor) :
       \E found \in Fronts(Limit + 1, rest) :
       \E page \in Fronts(Limit, found) : \E next \in Nexts(found, page) :
          Serve(r, [req[r] EXCEPT !.pc = "mark", !.since = now, !.page = page, !.next = next,
                                  !.known = IF req[r].cursor = None THEN Len(messages) ELSE 0])
    /\ following' = IF <<req[r].user, req[r].id>> \in rooms /\ req[r].cursor = None
                    THEN following \cup {r} ELSE following
    /\ UNCHANGED <<convs, messages, rooms, received, now, overlapped>>

GetMarkEverybody(r) ==
    /\ req[r].pc = "mark"
    /\ \E t \in req[r].since .. now :
          convs' = [convs EXCEPT ![req[r].id].readAt = [u \in User |-> t]]
    /\ Answer(r)
    /\ UNCHANGED <<messages, rooms, received, now, following, overlapped>>

\* getMessages(): the reader's lastReadAt, whatever the page was.
GetMark(r) ==
    /\ req[r].pc = "mark"
    /\ \E t \in req[r].since .. now :
          convs' = [convs EXCEPT ![req[r].id].readAt[req[r].user] = t]
    /\ Answer(r)
    /\ UNCHANGED <<messages, rooms, received, now, following, overlapped>>

\* The awaited call fails, or the process stops.
Abort(r) ==
    /\ Served(r)
    /\ Serve(r, Over)
    /\ following' = following \ {r}
    /\ UNCHANGED <<convs, messages, rooms, received, now, overlapped>>

-----------------------------------------------------------------------------
(* The sockets and the clock.                                              *)

\* join_conversation
Join(u, c) ==
    /\ <<u, c>> \notin rooms
    /\ Cardinality(rooms) < Seats
    /\ rooms' = rooms \cup {<<u, c>>}
    /\ UNCHANGED <<convs, messages, received, now, req, following, overlapped>>

\* leave_conversation, or the socket of u disconnects and leaves each room.
Leave(u, C) ==
    /\ \E c \in C : <<u, c>> \in rooms
    /\ rooms' = rooms \ ({u} \X C)
    /\ following' = {r \in following : req[r].user = u => req[r].id \notin C}
    /\ UNCHANGED <<convs, messages, received, now, req, overlapped>>

Tick ==
    /\ now < MaxTime
    /\ now' = now + 1
    /\ UNCHANGED <<convs, messages, rooms, received, req, following, overlapped>>

-----------------------------------------------------------------------------

\* Empty tables, or one conversation with messages that nobody has read.
StoredMessages(c, members) ==
    [1 .. Stored -> [conv: {c}, sender: members, at: {0}]]

Init ==
    /\ \/ convs = [c \in ConvId |-> None] /\ messages = <<>>
       \/ \E c \in ConvId, u, w \in User, s \in Subject :
             /\ u # w
             /\ convs = [d \in ConvId |->
                           IF d = c THEN [subject |-> s, members |-> {u, w}, updatedAt |-> 0,
                                          readAt |-> [x \in User |-> None]]
                           ELSE None]
             /\ messages \in StoredMessages(c, {u, w})
    /\ rooms = {} /\ received = {} /\ following = {}
    /\ now = 0
    /\ req = [r \in Request |-> NewCall]
    /\ overlapped = FALSE

Start(r) == StartFind(r) \/ StartAppend(r) \/ StartCreate(r)

Send(r) == SendCheck(r) \/ SendInsert(r) \/ SendTouch(r) \/ Broadcast(r)

Get(r) == GetCheck(r) \/ GetPage(r) \/ GetMark(r)

Handle(r) == Start(r) \/ Send(r) \/ Get(r) \/ Abort(r)

Next ==
    \/ \E r \in Request : Handle(r)
    \/ \E u \in User, c \in Started : Join(u, c) \/ Leave(u, {c})
    \/ \E u \in User : Leave(u, ConvId)
    \/ Tick

Spec == Init /\ [][Next]_vars

-----------------------------------------------------------------------------
(* What holds whatever the interleaving.                                   *)

\* The tables, the rooms and the requests hold what their types allow.
TypeOK ==
    /\ convs \in [ConvId -> Conversation \cup {None}]
    /\ messages \in Seq(Message)
    /\ rooms \subseteq User \X ConvId
    /\ received \subseteq User \X (DOMAIN messages)
    /\ now \in Time
    /\ req \in [Request -> Call]
    /\ following \subseteq Request
    /\ overlapped \in BOOLEAN

\* What the first page of call c tells of message i: it was stored before that
\* page was read, and is on it, or on one that follows, being no newer than the
\* cursor of the page.
Reaches(c, i) ==
    /\ i <= c.known
    /\ \/ i \in c.page
       \/ c.next # None /\ messages[i].at <= messages[c.next].at

\* Somebody who joins the room of a conversation, then reads its last page,
\* and stays, misses no message that was sent through the socket: it is pushed,
\* or it was stored before and that page or a later one shows it.
FollowersMissNothing ==
    \A r \in following, q \in Request :
       /\ req[q].op = "send" /\ req[q].socket /\ req[q].pc = "answered" /\ req[q].id = req[r].id
       => <<req[r].user, req[q].msg>> \in received \/ Reaches(req[r], req[q].msg)

\* Pages fetched one after the other by the cursor of the one before.  Only
\* messages of the cursor's own instant, which nothing orders, can be on both
\* pages, or on neither of them, or leave the second page empty; the cursor
\* itself is not repeated, and every other message between the two is shown.
PagesJoin ==
    \A r, q \in Request :
       /\ req[r].op = "get" /\ req[q].op = "get" /\ req[r].id = req[q].id
       /\ req[r].pc = "answered" /\ req[q].pc = "answered"
       /\ req[r].next # None /\ req[q].cursor = req[r].next
       => LET cursor == req[r].next
              tied   == {i \in In(req[r].id) \ {cursor} : messages[i].at = messages[cursor].at}
          IN /\ req[r].page \cap req[q].page \subseteq tied
             /\ req[q].page = {} => tied # {}
             /\ \A i \in In(req[r].id) \ (tied \cup {cursor}) :
                   /\ \E j \in req[q].page : messages[j].at < messages[i].at
                   /\ \E k \in req[r].page : messages[i].at < messages[k].at
                   => i \in req[r].page \cup req[q].page

\* What a user has not read becomes read by a call of that user alone.
OthersLeaveUnread ==
    [][\A u \in User :
          \/ \E r \in Request : req[r].op = "get" /\ req[r].user = u /\ req[r].pc = "mark"
                                                  /\ req'[r].pc = "answered"
          \/ UNCHANGED <<convs, messages>>
          \/ Unread(u) \subseteq Unread(u)']_vars

-----------------------------------------------------------------------------
(* What holds as long as no two requests overlapped, and needs it.         *)

\* A message that an answered getMessages() showed to a user is not counted
\* as unread.
ShownIsRead ==
    ~overlapped => \A r \in Request : req[r].op = "get" /\ req[r].pc = "answered" =>
                      req[r].page \cap Unread(req[r].user) = {}

\* What a user was not shown stays unread: a message of the other that
\* getUnreadCount() does not count was there for a page the user got, which or
\* whose followers show it, or it came after all those pages, in the very
\* instant of lastReadAt.  Fetching an older page by a cursor breaks this, for
\* it moves lastReadAt as well; so the claim is of users who fetched first pages
\* only.
FirstPagesOnly(u, c) ==
    \A r \in Request : req[r].op = "get" /\ req[r].user = u /\ req[r].id = c => req[r].cursor = None

GotBy(u, c) ==
    {r \in Request : /\ req[r].op = "get" /\ req[r].pc = "answered"
                     /\ req[r].user = u /\ req[r].id = c}

UnshownStaysUnread ==
    ~overlapped =>
       \A c \in Started : \A u \in convs[c].members : FirstPagesOnly(u, c) =>
          \A i \in In(c) \ Unread(u) :
             \/ messages[i].sender = u
             \/ \E r \in GotBy(u, c) : Reaches(req[r], i)
             \/ /\ messages[i].at = convs[c].readAt[u]
                /\ \A r \in GotBy(u, c) : i > req[r].known

-----------------------------------------------------------------------------
(* What the code says of itself and does not do.                           *)

\* "Idempotent: find existing 1-on-1 conversation for this property": two users
\* have one conversation about a subject, startConversation() finds it.
OneConversation ==
    \A c, d \in Started :
       convs[c].subject = convs[d].subject /\ convs[c].members = convs[d].members => c = d
=============================================================================
