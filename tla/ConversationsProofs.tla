------------------------ MODULE ConversationsProofs ------------------------
(***************************************************************************)
(* Proofs about Conversations, for every set of calls, users, conversations *)
(* and subjects and every size of a page.                                  *)
(***************************************************************************)
EXTENDS Conversations, FiniteSetTheorems, TLAPS
-----------------------------------------------------------------------------
(* Pages: what Rests, Fronts and Nexts make of the messages.               *)

\* The first n of a finite set are there, none left out is newer, and nothing
\* is left out unless there are n of them.
LEMMA FrontIs ==
    ASSUME NEW S, IsFiniteSet(S), NEW n \in Nat \ {0}, NEW F \in Fronts(n, S)
    PROVE  /\ F \subseteq S /\ IsFiniteSet(F)
           /\ \A i \in F, j \in S \ F : messages[j].at <= messages[i].at
           /\ F = S \/ Cardinality(F) = n
           /\ Cardinality(F) <= n
           /\ S # {} => F # {}
<1>1. Cardinality(S) \in Nat
  BY FS_CardinalityType
<1>2. CASE Cardinality(S) <= n
  BY <1>1, <1>2 DEF Fronts
<1>3. CASE ~(Cardinality(S) <= n)
  <2>1. /\ F \subseteq S /\ Cardinality(F) = n
        /\ \A i \in F, j \in S \ F : messages[j].at <= messages[i].at
    BY <1>3 DEF Fronts
  <2>2. IsFiniteSet(F)
    BY <2>1, FS_Subset
  <2>3. F # {}
    BY <2>1, FS_EmptySet
  <2>4. QED
    BY <2>1, <2>2, <2>3
<1>4. QED
  BY <1>2, <1>3

LEMMA InIsFinite ==
    ASSUME messages \in Seq(Message), NEW c
    PROVE  In(c) \subseteq DOMAIN messages /\ In(c) \subseteq Nat /\ IsFiniteSet(In(c))
<1>1. In(c) \subseteq 1 .. Len(messages) /\ Len(messages) \in Nat
  BY DEF In
<1>2. IsFiniteSet(1 .. Len(messages))
  BY <1>1, FS_Interval
<1>3. QED
  BY <1>1, <1>2, FS_Subset DEF In

\* What comes after a cursor is not it and is not newer, and has all that is
\* older.
LEMMA RestIs ==
    ASSUME messages \in Seq(Message), NEW c \in ConvId, NEW cursor,
           NEW rest \in Rests(c, cursor)
    PROVE  /\ rest \subseteq In(c)
           /\ cursor = None => rest = In(c)
           /\ cursor \in In(c) =>
                /\ \A i \in rest : i # cursor /\ messages[i].at <= messages[cursor].at
                /\ \A i \in In(c) : messages[i].at < messages[cursor].at => i \in rest
<1>0. None \notin In(c)
  BY InIsFinite, ConversationsAssumption
<1>1. CASE cursor = None
  BY <1>0, <1>1 DEF Rests
<1>2. CASE cursor # None
  <2> DEFINE older == {i \in In(c) : messages[i].at < messages[cursor].at}
             equal == {i \in In(c) \ {cursor} : messages[i].at = messages[cursor].at}
  <2>1. PICK T \in SUBSET equal : rest = older \cup T
    BY <1>2 DEF Rests
  <2>2. \A i \in In(c) : messages[i].at \in Nat
    <3>1. \A i \in In(c) : messages[i] \in Message
      BY DEF In
    <3>2. QED
      BY <3>1, ConversationsAssumption DEF Message, Time
  <2>3. ASSUME cursor \in In(c)
        PROVE  \A i \in older \cup equal : i # cursor /\ messages[i].at <= messages[cursor].at
    BY <2>2, <2>3
  <2>4. QED
    BY <1>2, <2>1, <2>3
<1>3. QED
  BY <1>1, <1>2

\* A page is the newer end of what there is to show, is empty only when that
\* is, and what it leaves out is no newer than the cursor it gives.
LEMMA Pages ==
    ASSUME messages \in Seq(Message), NEW c, NEW rest \in SUBSET In(c),
           NEW found \in Fronts(Limit + 1, rest), NEW page \in Fronts(Limit, found),
           NEW next \in Nexts(found, page)
    PROVE  /\ page \subseteq rest
           /\ rest # {} => page # {}
           /\ \A i \in rest \ page, j \in page : messages[i].at <= messages[j].at
           /\ next # None => /\ next \in page
                             /\ \A j \in page : messages[next].at <= messages[j].at
                             /\ \E i \in rest \ page : messages[i].at <= messages[next].at
           /\ \A i \in rest : i \in page \/ (next # None /\ messages[i].at <= messages[next].at)
<1>1. Limit \in Nat \ {0} /\ Limit + 1 \in Nat \ {0} /\ None \notin Nat
  BY ConversationsAssumption
<1>2. rest \subseteq Nat /\ IsFiniteSet(rest)
  BY InIsFinite, FS_Subset
<1>3. /\ found \subseteq rest /\ IsFiniteSet(found)
      /\ \A i \in found, j \in rest \ found : messages[j].at <= messages[i].at
      /\ found = rest \/ Cardinality(found) = Limit + 1
      /\ rest # {} => found # {}
  BY <1>1, <1>2, FrontIs
<1>4. /\ page \subseteq found /\ IsFiniteSet(page) /\ Cardinality(page) <= Limit
      /\ \A i \in page, j \in found \ page : messages[j].at <= messages[i].at
      /\ found # {} => page # {}
  BY <1>1, <1>3, FrontIs
<1>5. found = page => found = rest
  BY <1>1, <1>3, <1>4
<1>6. found = page => next = None
  BY DEF Nexts
<1>7. found # page => next \in page /\ \A j \in page : messages[next].at <= messages[j].at
  BY DEF Nexts
<1>8. \A i \in rest \ page, j \in page : messages[i].at <= messages[j].at
  BY <1>3, <1>4
<1>9. next # None => \E i \in rest \ page : messages[i].at <= messages[next].at
  BY <1>3, <1>4, <1>6, <1>7
<1>10. \A i \in rest : i \in page \/ (next # None /\ messages[i].at <= messages[next].at)
  <2>1. SUFFICES ASSUME NEW i \in rest, i \notin page
                 PROVE  next # None /\ messages[i].at <= messages[next].at
    OBVIOUS
  <2>2. found # page
    BY <1>5, <2>1
  <2>3. next \in page /\ next \in Nat
    BY <1>2, <1>3, <1>4, <1>7, <2>2
  <2>4. QED
    BY <1>1, <1>8, <2>1, <2>3
<1>11. QED
  BY <1>3, <1>4, <1>6, <1>7, <1>8, <1>9, <1>10

-----------------------------------------------------------------------------
(* Type correctness.  A request under way names a conversation, and a      *)
(* message it has stored is there.                                         *)

CallReady(c) ==
    /\ c.pc = "new" => c.op = None
    /\ c.pc \in {"append", "create"} => c.op = "start"
    /\ c.pc \in {"insert", "touch", "broadcast"} => c.op = "send"
    /\ c.pc \in {"page", "mark"} => c.op = "get"
    /\ c.pc \in Suspended => c.user \in User
    /\ c.pc = "create" => c.other \in User /\ c.subject \in Subject
    /\ c.pc \in {"append", "insert", "touch", "broadcast", "page", "mark"} => c.id \in Started
    /\ c.op = "send" /\ c.pc \in {"touch", "broadcast", "answered"} => c.msg \in In(c.id)
    /\ c.op = "get" => c.user \in User /\ c.id \in Started

Ready == \A r \in Request : CallReady(req[r])

TypeInv == TypeOK /\ Ready

\* Rows and messages stay.
Grows ==
    /\ Started \subseteq Started'
    /\ messages' = messages \/ \E m \in Message : messages' = Append(messages, m)

LEMMA Stays ==
    ASSUME TypeOK, Grows
    PROVE  /\ messages' \in Seq(Message)
           /\ DOMAIN messages \subseteq DOMAIN messages'
           /\ \A i \in DOMAIN messages : messages'[i] = messages[i]
           /\ \A i \in DOMAIN messages' \ DOMAIN messages : i = Len(messages) + 1
<1>1. messages \in Seq(Message)
  BY DEF TypeOK
<1>2. QED
  BY <1>1 DEF Grows

LEMMA InStays ==
    ASSUME TypeOK, Grows, NEW c
    PROVE  In(c) \subseteq In(c)'
BY Stays DEF In

LEMMA CallStaysReady ==
    ASSUME TypeOK, Grows, NEW c \in Call, CallReady(c)
    PROVE  CallReady(c)'
<1>1. In(c.id) \subseteq In(c.id)'
  BY InStays
<1>2. Started \subseteq Started'
  BY DEF Grows
<1>3. QED
  BY <1>1, <1>2 DEF CallReady

\* A step of one request.
LEMMA RequestStep ==
    ASSUME TypeInv, NEW r \in Request, NEW c \in Call, req' = [req EXCEPT ![r] = c],
           CallReady(c)', Grows, convs' \in [ConvId -> Conversation \cup {None}],
           rooms' = rooms, received' \subseteq User \X (DOMAIN messages'), now' = now,
           following' \subseteq Request, overlapped' \in BOOLEAN
    PROVE  TypeInv'
<1>1. req \in [Request -> Call]
  BY DEF TypeInv, TypeOK
<1>2. TypeOK'
  BY <1>1, Stays DEF TypeInv, TypeOK
<1>3. ASSUME NEW q \in Request PROVE CallReady(req[q])'
  <2>1. CASE q = r
    BY <1>1, <2>1
  <2>2. CASE q # r
    <3>1. req'[q] = req[q] /\ req[q] \in Call /\ CallReady(req[q])
      BY <1>1, <2>2 DEF TypeInv, Ready
    <3> DEFINE d == req[q]
    <3>2. \A x \in Call : CallReady(x) => CallReady(x)'
      BY CallStaysReady DEF TypeInv
    <3>3. QED
      BY <3>1, <3>2
  <2>3. QED
    BY <2>1, <2>2
<1>4. QED
  BY <1>2, <1>3 DEF TypeInv, Ready

LEMMA Unmoved ==
    ASSUME TypeInv, UNCHANGED convs, UNCHANGED messages
    PROVE  /\ Grows /\ convs' \in [ConvId -> Conversation \cup {None}]
           /\ Started' = Started /\ \A c : In(c)' = In(c)
BY DEF Grows, Started, In, TypeInv, TypeOK

\* The stored message.
LEMMA Stores ==
    ASSUME TypeInv, NEW r \in Request, NEW c \in ConvId, req[r].user \in User, Store(r, c)
    PROVE  /\ \E m \in Message : messages' = Append(messages, m)
           /\ messages' \in Seq(Message)
           /\ Len(messages') = Len(messages) + 1 /\ Len(messages') \in In(c)'
           /\ DOMAIN messages \subseteq DOMAIN messages'
<1> DEFINE m == [conv |-> c, sender |-> req[r].user, at |-> now]
<1>1. m \in Message /\ m.conv = c
  BY DEF Message, TypeInv, TypeOK
<1>2. messages' = Append(messages, m) /\ messages \in Seq(Message)
  BY DEF Store, TypeInv, TypeOK
<1> HIDE DEF m
<1>3. /\ messages' \in Seq(Message) /\ Len(messages') = Len(messages) + 1
      /\ messages'[Len(messages')] = m /\ Len(messages') \in DOMAIN messages'
      /\ DOMAIN messages \subseteq DOMAIN messages'
  BY <1>1, <1>2
<1>4. QED
  BY <1>1, <1>2, <1>3 DEF In

LEMMA OverIsCall == Over \in Call /\ CallReady(Over) /\ CallReady(Over)'
<1> DEFINE c == Over
<1>1. c \in Call
  <2>1. 0 \in Time
    BY ConversationsAssumption DEF Time
  <2>2. "over" \in Ended
    BY DEF Ended
  <2>3. FALSE \in BOOLEAN /\ {} \in SUBSET Nat
    OBVIOUS
  <2>4. QED
    BY <2>1, <2>2, <2>3 DEF Over, NewCall, Call
<1>2. c.pc = "over" /\ c.op = None
  BY DEF Over, NewCall
<1> HIDE DEF c
<1>3. CallReady(c) /\ CallReady(c)'
  BY <1>2, ConversationsAssumption DEF CallReady, Suspended, Operation
<1>4. QED
  BY <1>1, <1>3 DEF c

LEMMA NewCallIsCall == NewCall \in Call /\ NewCall.pc = "new" /\ NewCall.op = None /\ 0 \in Time
<1>1. 0 \in Time
  BY ConversationsAssumption DEF Time
<1>2. FALSE \in BOOLEAN /\ {} \in SUBSET Nat
  OBVIOUS
<1>3. QED
  BY <1>1, <1>2 DEF NewCall, Call

\* An admission only notes whether another request is served.
LEMMA Overlaps ==
    ASSUME TypeInv, NEW r \in Request, Admitted(r)
    PROVE  overlapped' \in BOOLEAN
BY DEF Admitted, TypeInv, TypeOK

LEMMA TypeStartFind ==
    ASSUME TypeInv, NEW r \in Request, StartFind(r)
    PROVE  TypeInv' /\ Grows
<1>1. PICK u \in User, w \in User, s \in Subject :
         LET call == [NewCall EXCEPT !.op = "start", !.user = u, !.other = w, !.subject = s] IN
            \/ /\ Between(u, w, s) = {}
               /\ Serve(r, [call EXCEPT !.pc = "create"])
            \/ \E c \in Between(u, w, s) : Serve(r, [call EXCEPT !.pc = "append", !.id = c])
  BY DEF StartFind
<1> DEFINE call == [NewCall EXCEPT !.op = "start", !.user = u, !.other = w, !.subject = s]
<1>2. call \in Call /\ call.op = "start" /\ call.user = u /\ call.other = w /\ call.subject = s
  BY NewCallIsCall DEF NewCall, Call, Operation
<1> HIDE DEF call
<1>3. PICK c \in Call : req' = [req EXCEPT ![r] = c] /\ CallReady(c)
  <2>1. CASE Serve(r, [call EXCEPT !.pc = "create"])
    <3> DEFINE c == [call EXCEPT !.pc = "create"]
    <3>1. c \in Call /\ c.pc = "create" /\ c.op = "start" /\ c.user = u /\ c.other = w /\ c.subject = s
      BY <1>2 DEF Call, Suspended
    <3> HIDE DEF c
    <3>2. CallReady(c)
      BY <3>1 DEF CallReady
    <3>3. QED
      BY <2>1, <3>1, <3>2 DEF Serve, c
  <2>2. ASSUME NEW d \in Between(u, w, s), Serve(r, [call EXCEPT !.pc = "append", !.id = d])
        PROVE  \E c \in Call : req' = [req EXCEPT ![r] = c] /\ CallReady(c)
    <3> DEFINE c == [call EXCEPT !.pc = "append", !.id = d]
    <3>1. d \in Started /\ d \in ConvId
      BY DEF Between, Started
    <3>2. c \in Call /\ c.pc = "append" /\ c.op = "start" /\ c.user = u /\ c.id = d
      BY <1>2, <3>1 DEF Call, Suspended
    <3> HIDE DEF c
    <3>3. CallReady(c)
      BY <3>1, <3>2 DEF CallReady
    <3>4. QED
      BY <2>2, <3>2, <3>3 DEF Serve, c
  <2>3. QED
    BY <1>1, <2>1, <2>2 DEF call
<1>4. UNCHANGED <<convs, messages, rooms, received, now, following>> /\ overlapped' \in BOOLEAN
  BY Overlaps DEF StartFind
<1>5. CallReady(c)' /\ Grows /\ convs' \in [ConvId -> Conversation \cup {None}]
  BY <1>3, <1>4, Unmoved, CallStaysReady DEF TypeInv
<1>6. QED
  BY <1>3, <1>4, <1>5, RequestStep DEF TypeInv, TypeOK

\* The other reads: who may not is rejected.
LEMMA TypeCheck ==
    ASSUME TypeInv, NEW r \in Request, SendCheck(r) \/ GetCheck(r)
    PROVE  TypeInv' /\ Grows
<1>1. PICK c \in Call : req' = [req EXCEPT ![r] = c] /\ CallReady(c)
  <2>1. CASE req' = [req EXCEPT ![r] = Over]
    BY <2>1, OverIsCall
  <2>2. ASSUME NEW u \in User, NEW d \in ConvId, NEW socket \in BOOLEAN, IsParticipant(u, d),
               Serve(r, [NewCall EXCEPT !.pc = "insert", !.op = "send", !.user = u, !.id = d,
                                        !.socket = socket])
        PROVE  \E c \in Call : req' = [req EXCEPT ![r] = c] /\ CallReady(c)
    <3> DEFINE c == [NewCall EXCEPT !.pc = "insert", !.op = "send", !.user = u, !.id = d,
                                    !.socket = socket]
    <3>1. c \in Call /\ c.pc = "insert" /\ c.op = "send" /\ c.user = u /\ c.id = d
      BY NewCallIsCall DEF NewCall, Call, Operation, Suspended
    <3> HIDE DEF c
    <3>2. CallReady(c)
      BY <2>2, <3>1 DEF CallReady, IsParticipant
    <3>3. QED
      BY <2>2, <3>1, <3>2 DEF Serve, c
  <2>3. ASSUME NEW u \in User, NEW d \in ConvId, NEW cursor \in Cursors(d), IsParticipant(u, d),
               Serve(r, [NewCall EXCEPT !.pc = "page", !.op = "get", !.user = u, !.id = d,
                                        !.cursor = cursor])
        PROVE  \E c \in Call : req' = [req EXCEPT ![r] = c] /\ CallReady(c)
    <3> DEFINE c == [NewCall EXCEPT !.pc = "page", !.op = "get", !.user = u, !.id = d,
                                    !.cursor = cursor]
    <3>1. cursor \in Nat \cup {None}
      BY DEF Cursors, TypeInv, TypeOK, Call
    <3>2. c \in Call /\ c.pc = "page" /\ c.op = "get" /\ c.user = u /\ c.id = d
      BY <3>1, NewCallIsCall DEF NewCall, Call, Operation, Suspended
    <3> HIDE DEF c
    <3>3. CallReady(c)
      BY <2>3, <3>2 DEF CallReady, IsParticipant
    <3>4. QED
      BY <2>3, <3>2, <3>3 DEF Serve, c
  <2>4. CASE SendCheck(r)
    BY <2>1, <2>2, <2>4 DEF SendCheck, Serve
  <2>5. CASE GetCheck(r)
    BY <2>1, <2>3, <2>5 DEF GetCheck, Serve
  <2>6. QED
    BY <2>4, <2>5
<1>2. UNCHANGED <<convs, messages, rooms, received, now, following>> /\ overlapped' \in BOOLEAN
  BY Overlaps DEF SendCheck, GetCheck
<1>3. CallReady(c)' /\ Grows /\ convs' \in [ConvId -> Conversation \cup {None}]
  BY <1>1, <1>2, Unmoved, CallStaysReady DEF TypeInv
<1>4. QED
  BY <1>1, <1>2, <1>3, RequestStep DEF TypeInv, TypeOK

\* An answer keeps the data of the request.
LEMMA Answers ==
    ASSUME TypeInv, NEW r \in Request, Answer(r)
    PROVE  \E c \in Call : /\ req' = [req EXCEPT ![r] = c] /\ c.pc = "answered"
                           /\ c.op = req[r].op /\ c.user = req[r].user /\ c.id = req[r].id
                           /\ c.msg = req[r].msg
<1> DEFINE c == [req[r] EXCEPT !.pc = "answered", !.since = 0]
<1>1. req \in [Request -> Call] /\ req[r] \in Call
  BY DEF TypeInv, TypeOK
<1>2. /\ c \in Call /\ c.pc = "answered" /\ c.op = req[r].op /\ c.user = req[r].user
      /\ c.id = req[r].id /\ c.msg = req[r].msg
  <2>1. "answered" \in {"new"} \cup Suspended \cup Ended /\ 0 \in Time
    BY NewCallIsCall DEF Ended
  <2>2. c \in Call
    BY <1>1, <2>1 DEF Call
  <2>3. PICK x \in Call : x = req[r]
    BY <1>1
  <2>4. PICK d \in Call : d = [x EXCEPT !.pc = "answered", !.since = 0]
    BY <2>2, <2>3
  <2>5. d.pc = "answered" /\ d.op = x.op /\ d.user = x.user /\ d.id = x.id /\ d.msg = x.msg
    BY <2>4 DEF Call
  <2>6. QED
    BY <2>2, <2>3, <2>4, <2>5
<1>3. req' = [req EXCEPT ![r] = c]
  BY <1>1 DEF Answer
<1> HIDE DEF c
<1>4. QED
  BY <1>2, <1>3

\* What CallReady says of a request under way.
LEMMA UnderWay ==
    ASSUME TypeInv, NEW r \in Request, Served(r)
    PROVE  /\ req[r] \in Call /\ req[r].user \in User
           /\ req[r].pc \in {"append", "create"} => req[r].op = "start"
           /\ req[r].pc \in {"insert", "touch", "broadcast"} => req[r].op = "send"
           /\ req[r].pc \in {"page", "mark"} => req[r].op = "get"
           /\ req[r].pc = "create" => req[r].other \in User /\ req[r].subject \in Subject
           /\ req[r].pc # "create" => req[r].id \in Started /\ req[r].id \in ConvId
           /\ req[r].pc \in {"touch", "broadcast"} => req[r].msg \in In(req[r].id)
<1>1. req[r] \in Call /\ CallReady(req[r])
  BY DEF TypeInv, TypeOK, Ready
<1>2. Started \subseteq ConvId
  BY DEF Started
<1>3. QED
  BY <1>1, <1>2 DEF CallReady, Served, Suspended

LEMMA TypeStartAppend ==
    ASSUME TypeInv, NEW r \in Request, StartAppend(r)
    PROVE  TypeInv' /\ Grows
<1>1. req[r].pc = "append" /\ Served(r)
  BY DEF StartAppend, Served, Suspended
<1>2. req[r].id \in ConvId /\ req[r].op = "start" /\ req[r].user \in User
  BY <1>1, UnderWay
<1>3. PICK c \in Call : req' = [req EXCEPT ![r] = c] /\ CallReady(c)'
  BY OverIsCall DEF StartAppend, Serve
<1>4. /\ \E m \in Message : messages' = Append(messages, m)
      /\ DOMAIN messages \subseteq DOMAIN messages'
  BY <1>2, Stores DEF StartAppend
<1>6. /\ convs' = convs /\ Grows /\ rooms' = rooms /\ now' = now /\ following' = following
      /\ received' = received /\ overlapped' = overlapped
  BY <1>4 DEF StartAppend, Grows, Started
<1>7. /\ convs' \in [ConvId -> Conversation \cup {None}] /\ overlapped' \in BOOLEAN
      /\ received' \subseteq User \X (DOMAIN messages') /\ following' \subseteq Request
  BY <1>4, <1>6 DEF TypeInv, TypeOK
<1>8. QED
  BY <1>3, <1>6, <1>7, RequestStep

LEMMA TypeSendInsert ==
    ASSUME TypeInv, NEW r \in Request, SendInsert(r)
    PROVE  TypeInv' /\ Grows
<1>1. req[r].pc = "insert" /\ Served(r)
  BY DEF SendInsert, Served, Suspended
<1>2. /\ req[r] \in Call /\ req[r].id \in ConvId /\ req[r].op = "send" /\ req[r].user \in User
      /\ req[r].id \in Started
  BY <1>1, UnderWay
<1>3. PICK id \in ConvId, n \in Nat : id = req[r].id /\ n = Len(messages) + 1
  BY <1>2 DEF TypeInv, TypeOK
<1>4. /\ \E m \in Message : messages' = Append(messages, m)
      /\ Len(messages') = n /\ n \in In(id)'
      /\ DOMAIN messages \subseteq DOMAIN messages'
  <2>1. Store(r, id)
    BY <1>3 DEF SendInsert
  <2>2. QED
    BY <1>2, <1>3, <2>1, Stores
<1> DEFINE c == [req[r] EXCEPT !.pc = "touch", !.msg = n, !.since = now]
<1>5. PICK d \in Call : d = c
  BY <1>2 DEF Call, Suspended, TypeInv, TypeOK
<1>6. d.pc = "touch" /\ d.op = "send" /\ d.user = req[r].user /\ d.id = id /\ d.msg = n
  BY <1>2, <1>3, <1>5 DEF Call
<1>7. req' = [req EXCEPT ![r] = d]
  BY <1>4, <1>5 DEF SendInsert, TypeInv, TypeOK
<1> HIDE DEF c
<1>8. /\ convs' = convs /\ Grows /\ rooms' = rooms /\ now' = now /\ following' = following
      /\ received' = received /\ overlapped' = overlapped /\ Started' = Started
  BY <1>4 DEF SendInsert, Grows, Started
<1>9. CallReady(d)'
  <2>1. d.id \in Started' /\ d.msg \in In(d.id)'
    BY <1>2, <1>3, <1>4, <1>6, <1>8
  <2>2. QED
    BY <1>2, <1>6, <2>1 DEF CallReady, Suspended
<1>10. /\ convs' \in [ConvId -> Conversation \cup {None}] /\ overlapped' \in BOOLEAN
       /\ received' \subseteq User \X (DOMAIN messages') /\ following' \subseteq Request
  BY <1>4, <1>8 DEF TypeInv, TypeOK
<1>11. QED
  BY <1>7, <1>8, <1>9, <1>10, RequestStep

\* A row replaced by another one.
LEMMA RowReplaced ==
    ASSUME TypeInv, NEW c \in ConvId, NEW row \in Conversation,
           convs' = [convs EXCEPT ![c] = row]
    PROVE  /\ convs' \in [ConvId -> Conversation \cup {None}]
           /\ Started' = Started \cup {c}
BY NoRowIsNone DEF Started, TypeInv, TypeOK

LEMMA TypeStartCreate ==
    ASSUME TypeInv, NEW r \in Request, StartCreate(r)
    PROVE  TypeInv' /\ Grows
<1>1. req[r].pc = "create" /\ Served(r)
  BY DEF StartCreate, Served, Suspended
<1>2. /\ req[r] \in Call /\ req[r].op = "start" /\ req[r].user \in User
      /\ req[r].other \in User /\ req[r].subject \in Subject
  BY <1>1, UnderWay
<1>3. CASE Serve(r, Over) /\ UNCHANGED <<convs, messages>>
  <2>1. UNCHANGED <<convs, messages, rooms, received, now, following, overlapped>>
    BY <1>3 DEF StartCreate
  <2>2. PICK c \in Call : req' = [req EXCEPT ![r] = c] /\ CallReady(c)'
    BY <1>3, OverIsCall DEF Serve
  <2>3. Grows /\ convs' \in [ConvId -> Conversation \cup {None}]
    BY <2>1, Unmoved
  <2>4. QED
    BY <2>1, <2>2, <2>3, RequestStep DEF TypeInv, TypeOK
<1>4. ASSUME NEW c \in ConvId \ Started, req[r].user # req[r].other, Store(r, c),
             convs' = [convs EXCEPT ![c] =
                [subject |-> req[r].subject, members |-> {req[r].user, req[r].other},
                 updatedAt |-> now, readAt |-> [u \in User |-> None]]],
             Serve(r, Over)
      PROVE  TypeInv' /\ Grows
  <2> DEFINE members == {req[r].user, req[r].other}
             row == [subject |-> req[r].subject, members |-> members,
                     updatedAt |-> now, readAt |-> [u \in User |-> None]]
  <2>1. members \in SUBSET User /\ Cardinality(members) = 2
    <3>1. Cardinality({req[r].user}) = 1 /\ IsFiniteSet({req[r].user})
      BY FS_Singleton
    <3>2. Cardinality({req[r].user} \cup {req[r].other}) = Cardinality({req[r].user}) + 1
      BY <1>4, <3>1, FS_AddElement
    <3>3. members = {req[r].user} \cup {req[r].other}
      OBVIOUS
    <3>4. QED
      BY <1>2, <3>1, <3>2, <3>3
  <2> HIDE DEF members
  <2>2. row \in Conversation
    BY <1>2, <2>1 DEF Conversation, TypeInv, TypeOK
  <2>3. convs' = [convs EXCEPT ![c] = row]
    BY <1>4 DEF members
  <2> HIDE DEF row
  <2>4. convs' \in [ConvId -> Conversation \cup {None}] /\ Started \subseteq Started'
    BY <2>2, <2>3, RowReplaced
  <2>5. /\ \E m \in Message : messages' = Append(messages, m)
        /\ DOMAIN messages \subseteq DOMAIN messages'
    BY <1>2, <1>4, Stores
  <2>6. PICK d \in Call : req' = [req EXCEPT ![r] = d] /\ CallReady(d)'
    BY <1>4, OverIsCall DEF Serve
  <2>10. UNCHANGED <<rooms, received, now, following, overlapped>> /\ Grows
    BY <2>4, <2>5 DEF StartCreate, Grows
  <2>11. /\ received' \subseteq User \X (DOMAIN messages') /\ following' \subseteq Request
         /\ overlapped' \in BOOLEAN
    BY <2>5, <2>10 DEF TypeInv, TypeOK
  <2>12. QED
    BY <2>4, <2>6, <2>10, <2>11, RequestStep
<1>5. QED
  BY <1>3, <1>4 DEF StartCreate

\* A time taken while a call was under way.
LEMMA TimeBetween ==
    ASSUME TypeInv, NEW r \in Request, NEW t \in req[r].since .. now
    PROVE  t \in Time
<1>1. req[r].since \in Time /\ now \in Time
  BY DEF TypeInv, TypeOK, Call
<1>2. QED
  BY <1>1, ConversationsAssumption DEF Time

LEMMA TypeSendTouch ==
    ASSUME TypeInv, NEW r \in Request, SendTouch(r)
    PROVE  TypeInv' /\ Grows
<1>1. req[r].pc = "touch" /\ Served(r)
  BY DEF SendTouch, Served, Suspended
<1>2. PICK x \in Call, id \in ConvId : x = req[r] /\ id = x.id
  BY <1>1, UnderWay
<1>3. x.op = "send" /\ x.user \in User /\ id \in Started /\ x.msg \in In(id)
  BY <1>1, <1>2, UnderWay
<1>4. PICK t \in req[r].since .. now : convs' = [convs EXCEPT ![req[r].id].updatedAt = t]
  BY DEF SendTouch
<1>5. /\ UNCHANGED <<messages, rooms, received, now, following, overlapped>>
  BY DEF SendTouch
<1>6. /\ convs' \in [ConvId -> Conversation \cup {None}] /\ Started' = Started
  <2>1. t \in Time
    BY TimeBetween
  <2>2. convs[id] \in Conversation
    BY <1>3 DEF Started, TypeInv, TypeOK
  <2>3. PICK row \in Conversation : row = [convs[id] EXCEPT !.updatedAt = t]
    BY <2>1, <2>2 DEF Conversation
  <2>4. convs' = [convs EXCEPT ![id] = row]
    BY <1>2, <1>4, <2>3 DEF TypeInv, TypeOK
  <2>5. /\ convs' \in [ConvId -> Conversation \cup {None}]
        /\ Started' = Started \cup {id}
    BY <2>3, <2>4, RowReplaced
  <2>6. QED
    BY <1>3, <2>5
<1>7. Grows /\ In(id)' = In(id)
  BY <1>5, <1>6 DEF Grows, In
<1>8. PICK c \in Call : req' = [req EXCEPT ![r] = c] /\ CallReady(c)'
  <2>1. CASE x.socket
    <3>1. PICK c \in Call : c = [x EXCEPT !.pc = "broadcast", !.since = 0]
      <4>1. "broadcast" \in {"new"} \cup Suspended \cup Ended /\ 0 \in Time
        BY NewCallIsCall DEF Suspended
      <4>2. [x EXCEPT !.pc = "broadcast", !.since = 0] \in Call
        BY <4>1 DEF Call
      <4>3. QED
        BY <4>2
    <3>2. c.pc = "broadcast" /\ c.op = x.op /\ c.user = x.user /\ c.id = x.id /\ c.msg = x.msg
      BY <3>1 DEF Call
    <3>3. req' = [req EXCEPT ![r] = c]
      BY <1>2, <2>1, <3>1 DEF SendTouch, Serve
    <3>4. c.id \in Started' /\ c.msg \in In(c.id)'
      BY <1>2, <1>3, <1>6, <1>7, <3>2
    <3>5. CallReady(c)'
      BY <1>3, <3>2, <3>4 DEF CallReady, Suspended
    <3>6. QED
      BY <3>3, <3>5
  <2>2. CASE ~x.socket
    BY <1>2, <2>2, OverIsCall DEF SendTouch, Serve
  <2>3. QED
    BY <2>1, <2>2
<1>9. QED
  BY <1>5, <1>6, <1>7, <1>8, RequestStep DEF TypeInv, TypeOK

LEMMA TypeBroadcast ==
    ASSUME TypeInv, NEW r \in Request, Broadcast(r)
    PROVE  TypeInv' /\ Grows
<1>1. req[r].pc = "broadcast" /\ Served(r)
  BY DEF Broadcast, Served, Suspended
<1>2. PICK x \in Call : x = req[r]
  BY <1>1, UnderWay
<1>3. x.op = "send" /\ x.user \in User /\ x.id \in Started /\ x.msg \in In(x.id)
  BY <1>1, <1>2, UnderWay
<1>4. PICK c \in Call : /\ req' = [req EXCEPT ![r] = c] /\ c.pc = "answered"
                        /\ c.op = "send" /\ c.user = x.user /\ c.id = x.id /\ c.msg = x.msg
  BY <1>2, <1>3, Answers DEF Broadcast
<1>5. UNCHANGED <<convs, messages, rooms, now, following, overlapped>>
  BY DEF Broadcast
<1>6. CallReady(c)
  BY <1>3, <1>4 DEF CallReady, Suspended
<1>7. Grows /\ convs' \in [ConvId -> Conversation \cup {None}] /\ CallReady(c)'
  BY <1>5, <1>6, Unmoved, CallStaysReady DEF TypeInv
<1>8. received' \subseteq User \X (DOMAIN messages')
  <2>1. x.msg \in DOMAIN messages
    BY <1>3 DEF In
  <2>2. received' = received \cup {<<u, x.msg>> : u \in Audience(r)}
    BY <1>2 DEF Broadcast
  <2>3. Audience(r) \subseteq User
    BY DEF Audience
  <2>4. QED
    BY <1>5, <2>1, <2>2, <2>3 DEF TypeInv, TypeOK
<1>9. QED
  BY <1>4, <1>5, <1>7, <1>8, RequestStep DEF TypeInv, TypeOK

LEMMA TypeGetPage ==
    ASSUME TypeInv, NEW r \in Request, GetPage(r)
    PROVE  TypeInv' /\ Grows
<1>1. req[r].pc = "page" /\ Served(r)
  BY DEF GetPage, Served, Suspended
<1>2. PICK x \in Call, id \in ConvId : x = req[r] /\ id = x.id
  BY <1>1, UnderWay
<1>3. x.op = "get" /\ x.user \in User /\ id \in Started
  BY <1>1, <1>2, UnderWay
<1>4. PICK rest \in Rests(id, x.cursor) :
      \E found \in Fronts(Limit + 1, rest) :
      \E page \in Fronts(Limit, found) : \E next \in Nexts(found, page) :
          Serve(r, [x EXCEPT !.pc = "mark", !.since = now, !.page = page, !.next = next,
                         !.known = IF x.cursor = None THEN Len(messages) ELSE 0])
  BY <1>2 DEF GetPage
<1>5. PICK found \in Fronts(Limit + 1, rest) : \E page \in Fronts(Limit, found) :
      \E next \in Nexts(found, page) :
          Serve(r, [x EXCEPT !.pc = "mark", !.since = now, !.page = page, !.next = next,
                         !.known = IF x.cursor = None THEN Len(messages) ELSE 0])
  BY <1>4
<1>5a. PICK page \in Fronts(Limit, found) : \E next \in Nexts(found, page) :
          Serve(r, [x EXCEPT !.pc = "mark", !.since = now, !.page = page, !.next = next,
                         !.known = IF x.cursor = None THEN Len(messages) ELSE 0])
  BY <1>5
<1>5b. PICK next \in Nexts(found, page) :
          Serve(r, [x EXCEPT !.pc = "mark", !.since = now, !.page = page, !.next = next,
                         !.known = IF x.cursor = None THEN Len(messages) ELSE 0])
  BY <1>5a
<1> DEFINE known == IF x.cursor = None THEN Len(messages) ELSE 0
<1>5c. Serve(r, [x EXCEPT !.pc = "mark", !.since = now, !.page = page, !.next = next,
                         !.known = known])
  BY <1>5b
<1>6. page \in SUBSET Nat /\ next \in Nat \cup {None} /\ known \in Nat
  <2>1. messages \in Seq(Message)
    BY DEF TypeInv, TypeOK
  <2>2. rest \subseteq In(id)
    BY <2>1, RestIs
  <2>3. page \subseteq rest /\ (next # None => next \in page)
    BY <2>1, <2>2, Pages
  <2>4. In(id) \subseteq Nat
    BY <2>1, InIsFinite
  <2>5. Len(messages) \in Nat
    BY <2>1
  <2>6. QED
    BY <2>2, <2>3, <2>4, <2>5
<1> HIDE DEF known
<1>7. PICK c \in Call : c = [x EXCEPT !.pc = "mark", !.since = now, !.page = page, !.next = next,
                                      !.known = known]
  <2>1. "mark" \in {"new"} \cup Suspended \cup Ended /\ now \in Time
    BY DEF Suspended, TypeInv, TypeOK
  <2>2. PICK y \in Call : y = [x EXCEPT !.pc = "mark", !.since = now]
    <3>1. [x EXCEPT !.pc = "mark", !.since = now] \in Call
      BY <2>1 DEF Call
    <3>2. QED
      BY <3>1
  <2>3. PICK z \in Call : z = [y EXCEPT !.page = page]
    <3>1. [y EXCEPT !.page = page] \in Call
      BY <1>6 DEF Call
    <3>2. QED
      BY <3>1
  <2>4. PICK c \in Call : c = [z EXCEPT !.next = next]
    <3>1. [z EXCEPT !.next = next] \in Call
      BY <1>6 DEF Call
    <3>2. QED
      BY <3>1
  <2>5. [c EXCEPT !.known = known] \in Call
    BY <1>6 DEF Call
  <2>6. [c EXCEPT !.known = known] =
           [x EXCEPT !.pc = "mark", !.since = now, !.page = page, !.next = next, !.known = known]
    BY <2>2, <2>3, <2>4
  <2>7. QED
    BY <2>5, <2>6
<1>8. c.pc = "mark" /\ c.op = x.op /\ c.user = x.user /\ c.id = x.id
  BY <1>7 DEF Call
<1>9. req' = [req EXCEPT ![r] = c]
  BY <1>5c, <1>7 DEF Serve
<1>10. CallReady(c)
  BY <1>2, <1>3, <1>8 DEF CallReady, Suspended
<1>11. UNCHANGED <<convs, messages, rooms, received, now, overlapped>>
  BY DEF GetPage
<1>12. Grows /\ convs' \in [ConvId -> Conversation \cup {None}] /\ CallReady(c)'
  BY <1>10, <1>11, Unmoved, CallStaysReady DEF TypeInv
<1>13. following' \subseteq Request
  BY DEF GetPage, TypeInv, TypeOK
<1>14. QED
  BY <1>9, <1>11, <1>12, <1>13, RequestStep DEF TypeInv, TypeOK

LEMMA TypeGetMark ==
    ASSUME TypeInv, NEW r \in Request, GetMark(r)
    PROVE  TypeInv' /\ Grows
<1>1. req[r].pc = "mark" /\ Served(r)
  BY DEF GetMark, Served, Suspended
<1>2. PICK x \in Call, id \in ConvId : x = req[r] /\ id = x.id
  BY <1>1, UnderWay
<1>3. x.op = "get" /\ x.user \in User /\ id \in Started
  BY <1>1, <1>2, UnderWay
<1>4. PICK t \in req[r].since .. now :
         convs' = [convs EXCEPT ![req[r].id].readAt[req[r].user] = t]
  BY DEF GetMark
<1>5. /\ UNCHANGED <<messages, rooms, received, now, following, overlapped>>
  BY DEF GetMark
<1>6. /\ convs' \in [ConvId -> Conversation \cup {None}] /\ Started' = Started
  <2>1. t \in Time
    BY TimeBetween
  <2>2. convs[id] \in Conversation
    BY <1>3 DEF Started, TypeInv, TypeOK
  <2>3. PICK readAt \in [User -> Time \cup {None}] :
           readAt = [convs[id].readAt EXCEPT ![x.user] = t]
    BY <2>1, <2>2 DEF Conversation
  <2>4. PICK row \in Conversation : row = [convs[id] EXCEPT !.readAt = readAt]
    BY <2>2 DEF Conversation
  <2>5. convs' = [convs EXCEPT ![id] = row]
    BY <1>2, <1>4, <2>2, <2>3, <2>4 DEF TypeInv, TypeOK, Conversation
  <2>6. /\ convs' \in [ConvId -> Conversation \cup {None}]
        /\ Started' = Started \cup {id}
    BY <2>4, <2>5, RowReplaced
  <2>7. QED
    BY <1>3, <2>6
<1>7. Grows
  BY <1>5, <1>6 DEF Grows
<1>8. PICK c \in Call : /\ req' = [req EXCEPT ![r] = c] /\ c.pc = "answered"
                        /\ c.op = "get" /\ c.user = x.user /\ c.id = id
  BY <1>2, <1>3, Answers DEF GetMark
<1>9. CallReady(c)'
  BY <1>3, <1>6, <1>8 DEF CallReady, Suspended
<1>10. QED
  BY <1>5, <1>6, <1>7, <1>8, <1>9, RequestStep DEF TypeInv, TypeOK

LEMMA TypeAbort ==
    ASSUME TypeInv, NEW r \in Request, Abort(r)
    PROVE  TypeInv' /\ Grows
<1>1. PICK c \in Call : req' = [req EXCEPT ![r] = c] /\ CallReady(c)'
  BY OverIsCall DEF Abort, Serve
<1>2. UNCHANGED <<convs, messages, rooms, received, now, overlapped>>
  BY DEF Abort
<1>3. Grows /\ convs' \in [ConvId -> Conversation \cup {None}]
  BY <1>2, Unmoved
<1>4. following' \subseteq Request
  BY DEF Abort, TypeInv, TypeOK
<1>5. QED
  BY <1>1, <1>2, <1>3, <1>4, RequestStep DEF TypeInv, TypeOK

\* What is not a step of a request.
Elsewhere ==
    \/ \E u \in User, c \in Started : Join(u, c) \/ Leave(u, {c})
    \/ \E u \in User : Leave(u, ConvId)
    \/ Tick
    \/ UNCHANGED vars

LEMMA TypeElsewhere ==
    ASSUME TypeInv, Elsewhere
    PROVE  TypeInv' /\ Grows
<1>1. UNCHANGED <<convs, messages, received, req, overlapped>>
  BY DEF Elsewhere, Join, Leave, Tick, vars
<1>2. rooms' \subseteq User \X ConvId
  <2>1. \/ rooms' = rooms
        \/ \E u \in User, c \in ConvId : rooms' = rooms \cup {<<u, c>>}
        \/ rooms' \subseteq rooms
    BY DEF Elsewhere, Join, Leave, Tick, vars, Started
  <2>2. rooms \subseteq User \X ConvId
    BY DEF TypeInv, TypeOK
  <2>3. QED
    BY <2>1, <2>2
<1>3. following' \subseteq Request
  BY DEF Elsewhere, Join, Leave, Tick, vars, TypeInv, TypeOK
<1>4. now' \in Time
  <2>1. now' = now \/ (now' = now + 1 /\ now < MaxTime)
    BY DEF Elsewhere, Join, Leave, Tick, vars
  <2>2. QED
    BY <2>1, ConversationsAssumption DEF Time, TypeInv, TypeOK
<1>5. TypeOK'
  BY <1>1, <1>2, <1>3, <1>4 DEF TypeInv, TypeOK
<1>6. Grows
  BY <1>1, Unmoved
<1>7. Ready'
  <2>2. \A c \in Call : CallReady(c) => CallReady(c)'
    BY <1>6, CallStaysReady DEF TypeInv
  <2>3. ASSUME NEW r \in Request PROVE CallReady(req[r])'
    <3>1. req'[r] = req[r] /\ req[r] \in Call /\ CallReady(req[r])
      BY <1>1 DEF TypeInv, TypeOK, Ready
    <3>2. QED
      BY <2>2, <3>1
  <2>4. QED
    BY <2>3 DEF Ready
<1>8. QED
  BY <1>5, <1>6, <1>7 DEF TypeInv

LEMMA TypeInit == Init => TypeInv
<1> SUFFICES ASSUME Init PROVE TypeInv
  OBVIOUS
<1>1. /\ rooms = {} /\ received = {} /\ following = {} /\ now = 0
      /\ req = [r \in Request |-> NewCall] /\ overlapped = FALSE
  BY DEF Init
<1>2. convs \in [ConvId -> Conversation \cup {None}] /\ messages \in Seq(Message)
  <2> DEFINE Was(c, u, w, s) ==
                /\ u # w
                /\ convs = [d \in ConvId |->
                              IF d = c THEN [subject |-> s, members |-> {u, w}, updatedAt |-> 0,
                                             readAt |-> [x \in User |-> None]]
                              ELSE None]
                /\ messages \in StoredMessages(c, {u, w})
  <2>1. CASE convs = [c \in ConvId |-> None] /\ messages = <<>>
    BY <2>1
  <2>2. ASSUME NEW c \in ConvId, NEW u \in User, NEW w \in User, NEW s \in Subject,
               Was(c, u, w, s)
        PROVE  convs \in [ConvId -> Conversation \cup {None}] /\ messages \in Seq(Message)
    <3>1. {u, w} \in SUBSET User /\ Cardinality({u, w}) = 2
      <4>1. Cardinality({u}) = 1 /\ IsFiniteSet({u})
        BY FS_Singleton
      <4>2. Cardinality({u} \cup {w}) = Cardinality({u}) + 1
        BY <2>2, <4>1, FS_AddElement
      <4>3. {u, w} = {u} \cup {w}
        OBVIOUS
      <4>4. QED
        BY <4>1, <4>2, <4>3
    <3>2. PICK members \in {m \in SUBSET User : Cardinality(m) = 2} : members = {u, w}
      BY <3>1
    <3>3. 0 \in Time
      BY NewCallIsCall
    <3>4. PICK row \in Conversation :
             row = [subject |-> s, members |-> members, updatedAt |-> 0,
                    readAt |-> [x \in User |-> None]]
      BY <3>2, <3>3 DEF Conversation
    <3>5. convs = [d \in ConvId |-> IF d = c THEN row ELSE None]
      BY <2>2, <3>2, <3>4
    <3>6. messages \in [1 .. Stored -> [conv: {c}, sender: members, at: {0}]]
      BY <2>2, <3>2 DEF StoredMessages
    <3>7. messages \in [1 .. Stored -> Message] /\ Stored \in Nat
      BY <3>2, <3>3, <3>6, ConversationsAssumption DEF Message
    <3>8. QED
      BY <3>5, <3>7
  <2>3. QED
    <3>1. \/ convs = [c \in ConvId |-> None] /\ messages = <<>>
          \/ \E c \in ConvId, u \in User, w \in User, s \in Subject : Was(c, u, w, s)
      BY DEF Init
    <3> HIDE DEF Was
    <3>2. QED
      BY <2>1, <2>2, <3>1
<1>3. TypeOK
  BY <1>1, <1>2, NewCallIsCall DEF TypeOK
<1>4. \A r \in Request : CallReady(req[r])
  <2> HIDE DEF NewCall
  <2>1. NewCall.pc = "new" /\ NewCall.op = None
    BY NewCallIsCall
  <2>2. CallReady(NewCall)
    BY <2>1, ConversationsAssumption DEF CallReady, Suspended, Operation
  <2>3. QED
    BY <1>1, <2>2
<1>5. QED
  BY <1>3, <1>4 DEF TypeInv, Ready

LEMMA TypeStep == TypeInv /\ [Next]_vars => TypeInv' /\ Grows
<1> SUFFICES ASSUME TypeInv, [Next]_vars PROVE TypeInv' /\ Grows
  OBVIOUS
<1>1. ASSUME NEW r \in Request, Start(r) PROVE TypeInv' /\ Grows
  BY <1>1, TypeStartFind, TypeStartAppend, TypeStartCreate DEF Start
<1>2. ASSUME NEW r \in Request, Send(r) PROVE TypeInv' /\ Grows
  BY <1>2, TypeCheck, TypeSendInsert, TypeSendTouch, TypeBroadcast DEF Send
<1>3. ASSUME NEW r \in Request, Get(r) PROVE TypeInv' /\ Grows
  BY <1>3, TypeCheck, TypeGetPage, TypeGetMark DEF Get
<1>4. ASSUME NEW r \in Request, Abort(r) PROVE TypeInv' /\ Grows
  BY <1>4, TypeAbort
<1>5. CASE Elsewhere
  BY <1>5, TypeElsewhere
<1>6. QED
  BY <1>1, <1>2, <1>3, <1>4, <1>5 DEF Next, Handle, Elsewhere

LEMMA TypeInvariant == Spec => []TypeInv
<1>1. QED
  BY TypeInit, TypeStep, PTL DEF Spec

\* TypeOK: in every reachable state the rows have two participants, a pushed
\* message is stored, and each request holds what its step needs.
THEOREM TypeCorrect == Spec => []TypeOK
<1>1. TypeInv => TypeOK
  BY DEF TypeInv
<1>2. QED
  BY TypeInvariant, <1>1, PTL

-----------------------------------------------------------------------------
(* What a step does to the requests.                                       *)

\* A request's step leaves the others alone.
LEMMA OneMoves ==
    ASSUME TypeInv, NEW r \in Request, Handle(r), NEW q \in Request, q # r
    PROVE  req'[q] = req[q]
<1>1. req \in [Request -> Call]
  BY DEF TypeInv, TypeOK
<1>2. CASE Start(r)
  BY <1>1, <1>2 DEF Start, StartFind, StartAppend, StartCreate, Serve, Answer
<1>3. CASE Send(r)
  BY <1>1, <1>3 DEF Send, SendCheck, SendInsert, SendTouch, Broadcast, Serve, Answer
<1>4. CASE Get(r)
  <2>1. CASE GetCheck(r)
    BY <1>1, <2>1 DEF GetCheck, Serve
  <2>2. CASE GetPage(r)
    BY <1>1, <2>2 DEF GetPage, Serve
  <2>3. CASE GetMark(r)
    BY <1>1, <2>3 DEF GetMark, Answer
  <2>4. QED
    BY <1>4, <2>1, <2>2, <2>3 DEF Get
<1>5. CASE Abort(r)
  BY <1>1, <1>5 DEF Abort, Serve
<1>6. QED
  BY <1>2, <1>3, <1>4, <1>5 DEF Handle

\* The steps of startConversation() and sendMessage(), and a failure, make no
\* reader of the request, and of what is answered only the broadcast is for
\* the room.
LEMMA NoReader ==
    ASSUME TypeInv, NEW r \in Request, Start(r) \/ Send(r) \/ Abort(r)
    PROVE  /\ req'[r].op # "get"
           /\ rooms' = rooms /\ received \subseteq received' /\ following' \subseteq following
           /\ Abort(r) \/ req[r].op # "get"
           /\ Abort(r) => r \notin following'
           /\ req'[r].op = "send" /\ req'[r].pc = "answered" /\ req'[r].socket => Broadcast(r)
<1>1. req \in [Request -> Call] /\ None # "get" /\ None # "send"
  BY ConversationsAssumption DEF TypeInv, TypeOK, Operation
<1>2. /\ req[r].pc = "new" => req[r].op = None
      /\ req[r].pc \in {"append", "create"} => req[r].op = "start"
      /\ req[r].pc \in {"insert", "touch", "broadcast"} => req[r].op = "send"
      /\ req[r] \in Call /\ (Abort(r) => r \notin following')
  <2>1. CallReady(req[r]) /\ req[r] \in Call
    BY DEF TypeInv, TypeOK, Ready
  <2>2. QED
    BY <2>1 DEF CallReady, Abort
<1>3. CASE StartFind(r)
  <2>1. req'[r].op = "start"
    BY <1>1, <1>3 DEF StartFind, Serve, NewCall
  <2>2. QED
    BY <1>1, <1>2, <1>3, <2>1 DEF StartFind, Admitted
<1>4. CASE StartAppend(r)
  BY <1>1, <1>2, <1>4 DEF StartAppend, Serve, Over, NewCall
<1>5. CASE StartCreate(r)
  <2>1. req'[r].op \in {"start", None}
    BY <1>1, <1>2, <1>5 DEF StartCreate, Serve, Over, NewCall, Call
  <2>2. QED
    BY <1>1, <1>2, <1>5, <2>1 DEF StartCreate
<1>6. CASE SendCheck(r)
  <2>1. req'[r].op \in {"send", None} /\ req'[r].pc # "answered"
    BY <1>1, <1>6 DEF SendCheck, Serve, Over, NewCall
  <2>2. QED
    BY <1>1, <1>2, <1>6, <2>1 DEF SendCheck, Admitted
<1>7. CASE SendInsert(r)
  <2>1. req'[r].op = req[r].op /\ req'[r].pc = "touch"
    BY <1>1, <1>7 DEF SendInsert, Call
  <2>2. QED
    BY <1>1, <1>2, <1>7, <2>1 DEF SendInsert
<1>8. CASE SendTouch(r)
  <2>1. req'[r].op \in {req[r].op, None} /\ req'[r].pc # "answered"
    BY <1>1, <1>8 DEF SendTouch, Serve, Over, NewCall, Call
  <2>2. QED
    BY <1>1, <1>2, <1>8, <2>1 DEF SendTouch
<1>9. CASE Broadcast(r)
  <2>1. req'[r].op = req[r].op
    BY <1>1, <1>9 DEF Broadcast, Answer, Call
  <2>2. QED
    BY <1>1, <1>2, <1>9, <2>1 DEF Broadcast
<1>10. CASE Abort(r)
  <2>1. req'[r].op = None
    BY <1>1, <1>10 DEF Abort, Serve, Over, NewCall
  <2>2. QED
    BY <1>1, <1>10, <2>1 DEF Abort
<1>11. QED
  BY <1>3, <1>4, <1>5, <1>6, <1>7, <1>8, <1>9, <1>10 DEF Start, Send

\* The mark and the answer keep the page and what it was asked for.
SamePage(c, d) ==
    /\ d.op = c.op /\ d.user = c.user /\ d.id = c.id
    /\ d.cursor = c.cursor /\ d.page = c.page /\ d.next = c.next /\ d.known = c.known

LEMMA MarkKeepsPage ==
    ASSUME TypeInv, NEW r \in Request, GetMark(r)
    PROVE  /\ SamePage(req[r], req'[r]) /\ req[r].op = "get" /\ req[r].pc = "mark"
           /\ req'[r].pc = "answered"
           /\ rooms' = rooms /\ received' = received /\ following' = following
<1>1. req \in [Request -> Call] /\ req[r] \in Call /\ CallReady(req[r])
  BY DEF TypeInv, TypeOK, Ready
<1>2. SamePage(req[r], req'[r]) /\ req'[r].pc = "answered"
  BY <1>1 DEF GetMark, Answer, SamePage, Call
<1>3. req[r].op = "get"
  BY <1>1 DEF GetMark, CallReady
<1>4. QED
  BY <1>2, <1>3 DEF GetMark

\* What a request for a page reads.
LEMMA PageIsRead ==
    ASSUME TypeInv, NEW r \in Request, GetPage(r)
    PROVE  /\ req[r].op = "get" /\ req'[r].op = "get" /\ req'[r].id = req[r].id
           /\ req'[r].user = req[r].user /\ req'[r].cursor = req[r].cursor
           /\ req[r].pc = "page" /\ req'[r].pc = "mark" /\ req'[r].since = now
           /\ req'[r].known \in 0 .. Len(messages)
           /\ req[r].cursor = None => req'[r].known = Len(messages)
           /\ \E rest \in Rests(req[r].id, req[r].cursor) :
                /\ req'[r].page \subseteq rest
                /\ rest # {} => req'[r].page # {}
                /\ \A i \in rest \ req'[r].page, j \in req'[r].page :
                      messages[i].at <= messages[j].at
                /\ req'[r].next # None =>
                     /\ req'[r].next \in req'[r].page
                     /\ \A j \in req'[r].page : messages[req'[r].next].at <= messages[j].at
                     /\ \E i \in rest \ req'[r].page :
                           messages[i].at <= messages[req'[r].next].at
                /\ \A i \in rest : \/ i \in req'[r].page
                                   \/ /\ req'[r].next # None
                                      /\ messages[i].at <= messages[req'[r].next].at
<1>1. req \in [Request -> Call] /\ messages \in Seq(Message)
  BY DEF TypeInv, TypeOK
<1>2. req[r].pc = "page" /\ Served(r)
  BY DEF GetPage, Served, Suspended
<1>3. req[r] \in Call /\ req[r].op = "get" /\ req[r].id \in ConvId
  BY <1>2, UnderWay
<1>4. PICK rest \in Rests(req[r].id, req[r].cursor) :
      \E found \in Fronts(Limit + 1, rest) :
      \E page \in Fronts(Limit, found) : \E next \in Nexts(found, page) :
          Serve(r, [req[r] EXCEPT !.pc = "mark", !.since = now, !.page = page, !.next = next,
                         !.known = IF req[r].cursor = None THEN Len(messages) ELSE 0])
  BY DEF GetPage
<1>5. PICK found \in Fronts(Limit + 1, rest) : \E page \in Fronts(Limit, found) :
      \E next \in Nexts(found, page) :
          Serve(r, [req[r] EXCEPT !.pc = "mark", !.since = now, !.page = page, !.next = next,
                         !.known = IF req[r].cursor = None THEN Len(messages) ELSE 0])
  BY <1>4
<1>5a. PICK page \in Fronts(Limit, found) : \E next \in Nexts(found, page) :
          Serve(r, [req[r] EXCEPT !.pc = "mark", !.since = now, !.page = page, !.next = next,
                         !.known = IF req[r].cursor = None THEN Len(messages) ELSE 0])
  BY <1>5
<1>5b. PICK next \in Nexts(found, page) :
          Serve(r, [req[r] EXCEPT !.pc = "mark", !.since = now, !.page = page, !.next = next,
                         !.known = IF req[r].cursor = None THEN Len(messages) ELSE 0])
  BY <1>5a
<1>6. /\ req'[r].page = page /\ req'[r].next = next /\ req'[r].pc = "mark"
      /\ req'[r].op = req[r].op /\ req'[r].id = req[r].id /\ req'[r].since = now
      /\ req'[r].user = req[r].user /\ req'[r].cursor = req[r].cursor
      /\ req'[r].known = IF req[r].cursor = None THEN Len(messages) ELSE 0
  BY <1>1, <1>3, <1>5b DEF Serve, Call
<1>7. rest \subseteq In(req[r].id)
  BY <1>1, <1>3, RestIs
<1>8. /\ page \subseteq rest
      /\ rest # {} => page # {}
      /\ \A i \in rest \ page, j \in page : messages[i].at <= messages[j].at
      /\ next # None => /\ next \in page
                        /\ \A j \in page : messages[next].at <= messages[j].at
                        /\ \E i \in rest \ page : messages[i].at <= messages[next].at
      /\ \A i \in rest : i \in page \/ (next # None /\ messages[i].at <= messages[next].at)
  BY <1>1, <1>7, Pages
<1>9. Len(messages) \in Nat
  BY <1>1
<1>10. QED
  BY <1>2, <1>3, <1>6, <1>8, <1>9

-----------------------------------------------------------------------------
(* What a step does to the rows.                                           *)

\* A conversation keeps its participants and its subject, and what a user has
\* read changes when that user's getMessages() marks it.
RowKept(c) ==
    /\ c \in Started'
    /\ convs'[c].subject = convs[c].subject /\ convs'[c].members = convs[c].members
    /\ \A u \in User : \/ convs'[c].readAt[u] = convs[c].readAt[u]
                       \/ \E r \in Request : GetMark(r) /\ req[r].user = u

LEMMA RowsKept ==
    ASSUME TypeInv, [Next]_vars, NEW c \in Started
    PROVE  RowKept(c)
<1>1. /\ convs \in [ConvId -> Conversation \cup {None}] /\ c \in ConvId
      /\ convs[c] \in Conversation /\ c \in Started'
  BY TypeStep DEF Grows, Started, TypeInv, TypeOK
<1>2. CASE convs'[c] = convs[c]
  BY <1>1, <1>2 DEF RowKept
<1>3. ASSUME NEW r \in Request, SendTouch(r) PROVE RowKept(c)
  <2>1. PICK t : convs' = [convs EXCEPT ![req[r].id].updatedAt = t]
    BY <1>3 DEF SendTouch
  <2>2. /\ convs'[c].subject = convs[c].subject /\ convs'[c].members = convs[c].members
        /\ convs'[c].readAt = convs[c].readAt
    BY <1>1, <2>1 DEF Conversation
  <2>3. QED
    BY <1>1, <2>2 DEF RowKept
<1>4. ASSUME NEW r \in Request, GetMark(r) PROVE RowKept(c)
  <2>1. PICK t : convs' = [convs EXCEPT ![req[r].id].readAt[req[r].user] = t]
    BY <1>4 DEF GetMark
  <2>2. /\ convs'[c].subject = convs[c].subject /\ convs'[c].members = convs[c].members
        /\ \A u \in User : u # req[r].user => convs'[c].readAt[u] = convs[c].readAt[u]
    BY <1>1, <2>1 DEF Conversation
  <2>3. QED
    BY <1>1, <1>4, <2>2 DEF RowKept
<1>5. ASSUME NEW r \in Request, StartCreate(r) PROVE RowKept(c)
  <2>1. convs'[c] = convs[c]
    <3>1. \/ convs' = convs
          \/ \E d \in ConvId \ Started : \E row : convs' = [convs EXCEPT ![d] = row]
      BY <1>5 DEF StartCreate
    <3>2. QED
      BY <1>1, <3>1
  <2>2. QED
    BY <1>2, <2>1
<1>6. ASSUME NEW r \in Request, Handle(r) PROVE RowKept(c)
  <2>1. \/ convs' = convs \/ StartCreate(r) \/ SendTouch(r) \/ GetMark(r)
    BY <1>6 DEF Handle, Start, StartFind, StartAppend, Send, SendCheck, SendInsert, Broadcast,
                Get, GetCheck, GetPage, Abort
  <2>2. QED
    BY <1>2, <1>3, <1>4, <1>5, <1>6, <2>1
<1>7. CASE Elsewhere
  BY <1>2, <1>7 DEF Elsewhere, Join, Leave, Tick, vars
<1>8. QED
  BY <1>6, <1>7 DEF Next, Elsewhere

\* OthersLeaveUnread: what a user has not read is not made read by anybody else.
LEMMA UnreadStep ==
    ASSUME TypeInv, [Next]_vars, NEW u \in User, ~(Unread(u) \subseteq Unread(u)')
    PROVE  \E r \in Request : req[r].op = "get" /\ req[r].user = u /\ req[r].pc = "mark"
                                                /\ req'[r].pc = "answered"
<1>1. PICK i \in Unread(u) : i \notin Unread(u)'
  OBVIOUS
<1>2. messages' \in Seq(Message) /\ i \in DOMAIN messages' /\ messages'[i] = messages[i]
  BY <1>1, TypeStep, Stays DEF Unread, TypeInv
<1>3. PICK c \in Started : c = messages[i].conv /\ u \in convs[c].members
  BY <1>1 DEF Unread, IsParticipant
<1>4. RowKept(c)
  BY RowsKept
<1>5. convs'[c].readAt[u] # convs[c].readAt[u]
  <2>1. SUFFICES ASSUME convs'[c].readAt[u] = convs[c].readAt[u] PROVE i \in Unread(u)'
    BY <1>1
  <2>2. c \in Started' /\ u \in convs'[c].members /\ messages'[i].conv = c
    BY <1>2, <1>3, <1>4 DEF RowKept
  <2>3. /\ messages[i].sender # u
        /\ convs[c].readAt[u] # None => messages[i].at > convs[c].readAt[u]
    BY <1>1, <1>3 DEF Unread
  <2>4. QED
    BY <1>2, <2>1, <2>2, <2>3 DEF Unread, IsParticipant
<1>6. PICK r \in Request : GetMark(r) /\ req[r].user = u
  BY <1>4, <1>5 DEF RowKept
<1>7. req[r].op = "get" /\ req[r].pc = "mark" /\ req'[r].pc = "answered"
  BY <1>6, MarkKeepsPage
<1>8. QED
  BY <1>6, <1>7

\* OthersLeaveUnread: a message leaves the unread ones of a user in a step of
\* that user's own getMessages().
THEOREM UnreadCorrect == Spec => OthersLeaveUnread
<1>1. TypeInv /\ [Next]_vars =>
        [\A u \in User :
            \/ \E r \in Request : req[r].op = "get" /\ req[r].user = u /\ req[r].pc = "mark"
                                                    /\ req'[r].pc = "answered"
            \/ UNCHANGED <<convs, messages>>
            \/ Unread(u) \subseteq Unread(u)']_vars
  BY UnreadStep
<1>2. QED
  BY TypeInvariant, <1>1, PTL DEF Spec, OthersLeaveUnread

-----------------------------------------------------------------------------
(* Times.                                                                  *)

\* No message and no lastReadAt is of the future.
Dated ==
    /\ \A i \in DOMAIN messages : messages[i].at <= now
    /\ \A c \in Started, u \in User : convs[c].readAt[u] # None => convs[c].readAt[u] <= now

\* The time getMessages() writes lies between its page and now, and is
\* written for its reader alone.
LEMMA Marks ==
    ASSUME TypeInv, NEW r \in Request, GetMark(r)
    PROVE  /\ req[r].id \in Started /\ req[r].user \in User
           /\ \E t \in Time :
                /\ req[r].since <= t /\ t <= now
                /\ convs'[req[r].id].readAt[req[r].user] = t
           /\ \A c \in Started, u \in User :
                 c # req[r].id \/ u # req[r].user => convs'[c].readAt[u] = convs[c].readAt[u]
<1>1. req[r].id \in Started /\ req[r].user \in User
  BY UnderWay DEF GetMark, Served, Suspended
<1>2. PICK t \in req[r].since .. now : convs' = [convs EXCEPT ![req[r].id].readAt[req[r].user] = t]
  BY DEF GetMark
<1>3. t \in Time /\ req[r].since <= t /\ t <= now
  BY TimeBetween DEF TypeInv, TypeOK, Call, Time
<1>4. /\ convs \in [ConvId -> Conversation \cup {None}]
      /\ \A c \in Started : c \in ConvId /\ convs[c] \in Conversation
  BY DEF Started, TypeInv, TypeOK
<1>5. convs'[req[r].id].readAt[req[r].user] = t
  BY <1>1, <1>2, <1>4 DEF Conversation
<1>6. \A c \in Started, u \in User :
         c # req[r].id \/ u # req[r].user => convs'[c].readAt[u] = convs[c].readAt[u]
  BY <1>1, <1>2, <1>4 DEF Conversation
<1>7. QED
  BY <1>1, <1>3, <1>5, <1>6

\* A new conversation is read by nobody.
LEMMA NewRows ==
    ASSUME TypeInv, [Next]_vars, NEW c \in Started', c \notin Started, NEW u \in User
    PROVE  convs'[c].readAt[u] = None
<1>1. convs' # convs /\ c \in ConvId /\ convs[c] = None /\ convs'[c] # None
  BY DEF Started
<1>2. ASSUME NEW r \in Request, Handle(r) PROVE convs'[c].readAt[u] = None
  <2>1. StartCreate(r) \/ SendTouch(r) \/ GetMark(r)
    BY <1>1, <1>2 DEF Handle, Start, StartFind, StartAppend, Send, SendCheck, SendInsert, Broadcast,
                      Get, GetCheck, GetPage, Abort
  <2>2. CASE StartCreate(r)
    <3>1. PICK d \in ConvId \ Started :
            convs' = [convs EXCEPT ![d] =
                [subject |-> req[r].subject, members |-> {req[r].user, req[r].other},
                 updatedAt |-> now, readAt |-> [x \in User |-> None]]]
      BY <1>1, <2>2 DEF StartCreate
    <3>2. QED
      BY <1>1, <3>1 DEF TypeInv, TypeOK
  <2>3. CASE SendTouch(r) \/ GetMark(r)
    <3>1. req[r].id \in Started
      BY <2>3, UnderWay DEF SendTouch, GetMark, Served, Suspended
    <3>2. convs'[c] = convs[c]
      BY <1>1, <2>3, <3>1 DEF SendTouch, GetMark, TypeInv, TypeOK
    <3>3. QED
      BY <1>1, <3>2
  <2>4. QED
    BY <2>1, <2>2, <2>3
<1>3. ~Elsewhere
  BY <1>1 DEF Elsewhere, Join, Leave, Tick, vars
<1>4. QED
  BY <1>2, <1>3 DEF Next, Elsewhere

\* A stored message is of now, and the clock does not go back.
LEMMA NewMessages ==
    ASSUME TypeInv, [Next]_vars
    PROVE  /\ now \in Nat /\ now' \in Nat /\ now <= now'
           /\ DOMAIN messages \subseteq DOMAIN messages'
           /\ \A i \in DOMAIN messages : messages'[i] = messages[i]
           /\ \A i \in DOMAIN messages' \ DOMAIN messages : messages'[i].at = now
<1>1. messages \in Seq(Message) /\ now \in Nat
  BY ConversationsAssumption DEF TypeInv, TypeOK, Time
<1>2. now' \in Nat /\ now <= now'
  <2>1. now' = now \/ now' = now + 1
    BY DEF Next, Handle, Start, StartFind, StartAppend, StartCreate, Send, SendCheck, SendInsert,
           SendTouch, Broadcast, Get, GetCheck, GetPage, GetMark, Abort, Join, Leave, Tick, vars
  <2>2. QED
    BY <1>1, <2>1
<1>3. messages' = messages \/ \E r \in Request, c \in ConvId : Store(r, c)
  <2>1. ASSUME NEW r \in Request, Handle(r), messages' # messages
        PROVE  \E c \in ConvId : Store(r, c)
    <3>1. StartAppend(r) \/ StartCreate(r) \/ SendInsert(r)
      BY <2>1 DEF Handle, Start, StartFind, Send, SendCheck, SendTouch, Broadcast, Get, GetCheck,
                  GetPage, GetMark, Abort
    <3>2. req[r].pc \in {"append", "insert"} => req[r].id \in ConvId
      BY UnderWay DEF Served, Suspended
    <3>3. QED
      BY <2>1, <3>1, <3>2 DEF StartAppend, StartCreate, SendInsert
  <2>2. CASE Elsewhere
    BY <2>2 DEF Elsewhere, Join, Leave, Tick, vars
  <2>3. QED
    BY <2>1, <2>2 DEF Next, Elsewhere
<1>4. CASE messages' = messages
  BY <1>2, <1>1, <1>4
<1>5. ASSUME NEW r \in Request, NEW c \in ConvId, Store(r, c)
      PROVE  /\ DOMAIN messages \subseteq DOMAIN messages'
             /\ \A i \in DOMAIN messages : messages'[i] = messages[i]
             /\ \A i \in DOMAIN messages' \ DOMAIN messages : messages'[i].at = now
  <2> DEFINE m == [conv |-> c, sender |-> req[r].user, at |-> now]
  <2>1. messages' = Append(messages, m) /\ m.at = now
    BY <1>5 DEF Store
  <2> HIDE DEF m
  <2>2. QED
    BY <1>1, <2>1
<1>6. QED
  BY <1>1, <1>2, <1>3, <1>4, <1>5

\* Times are numbers.
LEMMA Times ==
    ASSUME TypeInv
    PROVE  /\ None \notin Nat
           /\ \A i \in DOMAIN messages : messages[i].at \in Nat
           /\ \A c \in Started, u \in User : convs[c].readAt[u] \in Nat \cup {None}
           /\ \A r \in Request : req[r].since \in Nat
<1>1. Time \subseteq Nat /\ None \notin Nat
  BY ConversationsAssumption DEF Time
<1>2. \A i \in DOMAIN messages : messages[i].at \in Nat
  <2>1. \A i \in DOMAIN messages : messages[i] \in Message
    BY DEF TypeInv, TypeOK
  <2>2. QED
    BY <1>1, <2>1 DEF Message
<1>3. \A c \in Started, u \in User : convs[c].readAt[u] \in Nat \cup {None}
  <2>1. \A c \in Started : convs[c] \in Conversation
    BY DEF Started, TypeInv, TypeOK
  <2>2. QED
    BY <1>1, <2>1 DEF Conversation
<1>4. \A r \in Request : req[r].since \in Nat
  BY <1>1 DEF TypeInv, TypeOK, Call
<1>5. QED
  BY <1>1, <1>2, <1>3, <1>4

LEMMA DatedStep == ASSUME TypeInv, Dated, [Next]_vars PROVE Dated'
<1>1. /\ now \in Nat /\ now' \in Nat /\ now <= now'
      /\ \A i \in DOMAIN messages : messages'[i] = messages[i]
      /\ \A i \in DOMAIN messages' \ DOMAIN messages : messages'[i].at = now
  BY NewMessages
<1>2. \A i \in DOMAIN messages' : messages'[i].at <= now'
  <2> SUFFICES ASSUME NEW i \in DOMAIN messages' PROVE messages'[i].at <= now'
    OBVIOUS
  <2>1. CASE i \in DOMAIN messages
    <3>1. messages'[i] = messages[i] /\ messages[i].at \in Nat /\ messages[i].at <= now
      BY <1>1, <2>1, Times DEF Dated
    <3>2. QED
      BY <1>1, <3>1
  <2>2. CASE i \notin DOMAIN messages
    BY <1>1, <2>2
  <2>3. QED
    BY <2>1, <2>2
<1>3. ASSUME NEW c \in Started', NEW u \in User, convs'[c].readAt[u] # None
      PROVE  convs'[c].readAt[u] <= now'
  <2>1. c \in Started
    BY <1>3, NewRows
  <2>2. CASE convs'[c].readAt[u] = convs[c].readAt[u]
    <3>1. convs[c].readAt[u] \in Nat /\ convs[c].readAt[u] <= now
      BY <1>3, <2>1, <2>2, Times DEF Dated
    <3>2. QED
      BY <1>1, <2>2, <3>1
  <2>3. CASE convs'[c].readAt[u] # convs[c].readAt[u]
    <3>1. PICK r \in Request : GetMark(r)
      BY <2>1, <2>3, RowsKept DEF RowKept
    <3>2. PICK t \in Time : t <= now /\ convs'[req[r].id].readAt[req[r].user] = t
      BY <3>1, Marks
    <3>3. c = req[r].id /\ u = req[r].user
      BY <2>1, <2>3, <3>1, Marks
    <3>4. t \in Nat
      BY ConversationsAssumption DEF Time
    <3>5. QED
      BY <1>1, <3>2, <3>3, <3>4
  <2>4. QED
    BY <2>2, <2>3
<1>4. QED
  BY <1>2, <1>3 DEF Dated

LEMMA InitRows ==
    ASSUME Init
    PROVE  /\ now = 0 /\ \A i \in DOMAIN messages : messages[i].at = 0
           /\ \A c \in Started, u \in User : convs[c].readAt[u] = None
<1>1. now = 0 /\ \A i \in DOMAIN messages : messages[i].at = 0
  <2>1. now = 0 /\ (messages = <<>> \/ \E c, m : messages \in StoredMessages(c, m))
    BY DEF Init
  <2>2. ASSUME NEW c, NEW m, messages \in StoredMessages(c, m), NEW i \in DOMAIN messages
        PROVE  messages[i].at = 0
    <3>1. messages[i] \in [conv: {c}, sender: m, at: {0}]
      BY <2>2 DEF StoredMessages
    <3>2. QED
      BY <3>1
  <2>3. QED
    BY <2>1, <2>2
<1>2. \A c \in Started, u \in User : convs[c].readAt[u] = None
  <2> DEFINE Was(c, u, w, s) ==
                /\ u # w
                /\ convs = [d \in ConvId |->
                              IF d = c THEN [subject |-> s, members |-> {u, w}, updatedAt |-> 0,
                                             readAt |-> [x \in User |-> None]]
                              ELSE None]
                /\ messages \in StoredMessages(c, {u, w})
  <2>1. CASE convs = [c \in ConvId |-> None]
    BY <2>1 DEF Started
  <2>2. ASSUME NEW c \in ConvId, NEW u \in User, NEW w \in User, NEW s \in Subject, Was(c, u, w, s)
        PROVE  \A d \in Started, x \in User : convs[d].readAt[x] = None
    <3>1. \A d \in Started : d = c /\ d \in ConvId
      BY <2>2 DEF Started
    <3>2. convs[c].readAt = [x \in User |-> None]
      BY <2>2
    <3>3. QED
      BY <3>1, <3>2
  <2>3. \/ convs = [c \in ConvId |-> None] /\ messages = <<>>
        \/ \E c \in ConvId, u \in User, w \in User, s \in Subject : Was(c, u, w, s)
    BY DEF Init
  <2> HIDE DEF Was
  <2>4. QED
    BY <2>1, <2>2, <2>3
<1>3. QED
  BY <1>1, <1>2

LEMMA DatedInvariant == Spec => []Dated
<1>1. Init => Dated
  BY InitRows DEF Dated
<1>2. TypeInv /\ Dated /\ [Next]_vars => Dated'
  BY DatedStep
<1>3. QED
  BY <1>1, <1>2, TypeInvariant, PTL DEF Spec

\* What is stored stays as it is, and what is stored later is no older.
LEMMA Later ==
    ASSUME TypeInv, Dated, [Next]_vars, NEW c
    PROVE  /\ In(c) \subseteq In(c)' /\ In(c) \subseteq DOMAIN messages
           /\ \A i \in DOMAIN messages : messages'[i] = messages[i] /\ messages[i].at \in Nat
           /\ \A i \in In(c)' \ In(c) :
                 /\ i \notin DOMAIN messages
                 /\ messages'[i].at \in Nat
                 /\ \A j \in DOMAIN messages : messages[j].at <= messages'[i].at
           /\ Len(messages) \in Nat /\ Len(messages') \in Nat /\ Len(messages) <= Len(messages')
<1>1. /\ now \in Nat /\ DOMAIN messages \subseteq DOMAIN messages'
      /\ \A i \in DOMAIN messages : messages'[i] = messages[i]
      /\ \A i \in DOMAIN messages' \ DOMAIN messages : messages'[i].at = now
  BY NewMessages
<1>2. In(c) \subseteq In(c)' /\ In(c) \subseteq DOMAIN messages
  BY <1>1 DEF In
<1>3. \A i \in DOMAIN messages : messages[i].at \in Nat /\ messages[i].at <= now
  BY Times DEF Dated
<1>4. \A i \in In(c)' \ In(c) : i \notin DOMAIN messages /\ messages'[i].at = now
  BY <1>1 DEF In
<1>5. Len(messages) \in Nat /\ Len(messages') \in Nat /\ Len(messages) <= Len(messages')
  <2>1. messages \in Seq(Message) /\ messages' \in Seq(Message)
    BY TypeStep DEF TypeInv, TypeOK
  <2>2. Len(messages) \in Nat /\ Len(messages') \in Nat
    BY <2>1
  <2>3. DOMAIN messages = 1 .. Len(messages) /\ DOMAIN messages' = 1 .. Len(messages')
    BY <2>1
  <2>4. QED
    BY <1>1, <2>2, <2>3
<1>6. QED
  BY <1>1, <1>2, <1>3, <1>4, <1>5

-----------------------------------------------------------------------------
(* Pages that join.                                                        *)

\* A cursor is a message of the conversation, and there is another one that is
\* no newer.
CursorOK(c) ==
    c.op = "get" /\ c.cursor # None =>
       /\ c.cursor \in In(c.id)
       /\ \E i \in In(c.id) \ {c.cursor} : messages[i].at <= messages[c.cursor].at

\* A page has no message that is newer than its cursor, nor the cursor itself,
\* and is empty only when nothing is older than that.  It leaves out no message
\* that lies between two of its own, or between one of its own and its cursor.
\* The cursor it gives is as old as any of its messages, and is not all there is.
PageOK(c) ==
    c.op = "get" /\ c.pc \in {"mark", "answered"} =>
       /\ c.page \subseteq In(c.id)
       /\ c.known <= Len(messages)
       /\ \A i \in In(c.id), j, k \in c.page :
             messages[j].at < messages[i].at /\ messages[i].at < messages[k].at => i \in c.page
       /\ c.cursor # None =>
             /\ \A i \in c.page : i # c.cursor /\ messages[i].at <= messages[c.cursor].at
             /\ c.page = {} => \A i \in In(c.id) : messages[c.cursor].at <= messages[i].at
             /\ \A i \in In(c.id), j \in c.page :
                   messages[j].at < messages[i].at /\ messages[i].at < messages[c.cursor].at
                      => i \in c.page
       /\ c.next # None =>
             /\ c.next \in c.page
             /\ \A j \in c.page : messages[c.next].at <= messages[j].at
             /\ \E i \in In(c.id) \ c.page : messages[i].at <= messages[c.next].at

PagesInv == \A r \in Request : CursorOK(req[r]) /\ PageOK(req[r])

\* A message stored later is no older than every page and cursor.
LEMMA PagesStay ==
    ASSUME TypeInv, Dated, [Next]_vars, NEW c \in Call, CursorOK(c), PageOK(c)
    PROVE  CursorOK(c)' /\ PageOK(c)'
<1>1. /\ In(c.id) \subseteq In(c.id)' /\ In(c.id) \subseteq DOMAIN messages
      /\ \A i \in DOMAIN messages : messages'[i] = messages[i] /\ messages[i].at \in Nat
      /\ \A i \in In(c.id)' \ In(c.id) :
            /\ i \notin DOMAIN messages
            /\ messages'[i].at \in Nat
            /\ \A j \in DOMAIN messages : messages[j].at <= messages'[i].at
      /\ Len(messages) \in Nat /\ Len(messages') \in Nat /\ Len(messages) <= Len(messages')
  BY Later
<1>2. \A i \in In(c.id)', k \in In(c.id) : messages'[i].at < messages'[k].at => i \in In(c.id)
  <2>1. SUFFICES ASSUME NEW i \in In(c.id)', NEW k \in In(c.id), i \notin In(c.id)
                 PROVE  ~(messages'[i].at < messages'[k].at)
    OBVIOUS
  <2>2. /\ messages'[i].at \in Nat /\ messages[k].at <= messages'[i].at
        /\ messages'[k] = messages[k] /\ messages[k].at \in Nat
    BY <1>1, <2>1
  <2>3. QED
    BY <2>2
<1>3. CursorOK(c)'
  BY <1>1 DEF CursorOK
<1>4. ASSUME c.op = "get", c.pc \in {"mark", "answered"}
      PROVE  PageOK(c)'
  <2>1. c.page \subseteq In(c.id) /\ c.page \subseteq In(c.id)' /\ c.known \in Nat
    BY <1>1, <1>4 DEF PageOK, Call
  <2>2. c.known <= Len(messages')
    BY <1>1, <1>4, <2>1 DEF PageOK
  <2>3. \A i \in In(c.id)', j, k \in c.page :
           messages'[j].at < messages'[i].at /\ messages'[i].at < messages'[k].at => i \in c.page
    BY <1>1, <1>2, <1>4, <2>1 DEF PageOK
  <2>4. ASSUME c.cursor # None
        PROVE  /\ \A i \in c.page : i # c.cursor /\ messages'[i].at <= messages'[c.cursor].at
               /\ c.page = {} => \A i \in In(c.id)' : messages'[c.cursor].at <= messages'[i].at
               /\ \A i \in In(c.id)', j \in c.page :
                     messages'[j].at < messages'[i].at /\ messages'[i].at < messages'[c.cursor].at
                        => i \in c.page
    <3>1. c.cursor \in In(c.id)
      BY <1>4, <2>4 DEF CursorOK
    <3>2. \A i \in c.page : i # c.cursor /\ messages'[i].at <= messages'[c.cursor].at
      BY <1>1, <1>4, <2>1, <2>4, <3>1 DEF PageOK
    <3>3. c.page = {} => \A i \in In(c.id)' : messages'[c.cursor].at <= messages'[i].at
      BY <1>1, <1>4, <2>4, <3>1 DEF PageOK
    <3>4. \A i \in In(c.id)', j \in c.page :
             messages'[j].at < messages'[i].at /\ messages'[i].at < messages'[c.cursor].at
                => i \in c.page
      BY <1>1, <1>2, <1>4, <2>1, <2>4, <3>1 DEF PageOK
    <3>5. QED
      BY <3>2, <3>3, <3>4
  <2>5. ASSUME c.next # None
        PROVE  /\ c.next \in c.page
               /\ \A j \in c.page : messages'[c.next].at <= messages'[j].at
               /\ \E i \in In(c.id)' \ c.page : messages'[i].at <= messages'[c.next].at
    BY <1>1, <1>4, <2>1, <2>5 DEF PageOK
  <2>6. QED
    BY <2>1, <2>2, <2>3, <2>4, <2>5 DEF PageOK
<1>5. QED
  BY <1>3, <1>4 DEF PageOK

\* A step of one request.
LEMMA PagesFrame ==
    ASSUME TypeInv, Dated, PagesInv, [Next]_vars, NEW r \in Request,
           \A q \in Request \ {r} : req'[q] = req[q],
           CursorOK(req[r])', PageOK(req[r])'
    PROVE  PagesInv'
<1>1. ASSUME NEW q \in Request, q # r PROVE CursorOK(req[q])' /\ PageOK(req[q])'
  <2>1. req[q] \in Call /\ CursorOK(req[q]) /\ PageOK(req[q]) /\ req'[q] = req[q]
    BY <1>1 DEF TypeInv, TypeOK, PagesInv
  <2>2. \A c \in Call : CursorOK(c) /\ PageOK(c) => CursorOK(c)' /\ PageOK(c)'
    BY PagesStay
  <2>3. QED
    BY <2>1, <2>2
<1>2. QED
  BY <1>1 DEF PagesInv

LEMMA PagesGetCheck ==
    ASSUME TypeInv, PagesInv, NEW r \in Request, GetCheck(r)
    PROVE  CursorOK(req[r])' /\ PageOK(req[r])'
<1>1. req \in [Request -> Call] /\ None # "get"
  BY ConversationsAssumption DEF TypeInv, TypeOK, Operation
<1>2. messages' = messages
  BY DEF GetCheck
<1>3. CASE req'[r] = Over
  <2>1. req'[r].op = None
    BY <1>3 DEF Over, NewCall
  <2>2. QED
    BY <1>1, <2>1 DEF CursorOK, PageOK
<1>4. ASSUME NEW u \in User, NEW d \in ConvId, NEW cursor \in Cursors(d),
             req'[r] = [NewCall EXCEPT !.pc = "page", !.op = "get", !.user = u, !.id = d,
                                       !.cursor = cursor]
      PROVE  CursorOK(req[r])' /\ PageOK(req[r])'
  <2>1. req'[r].pc = "page" /\ req'[r].id = d /\ req'[r].cursor = cursor
    BY <1>4 DEF NewCall
  <2>2. cursor # None => /\ cursor \in In(d)
                         /\ \E i \in In(d) \ {cursor} : messages[i].at <= messages[cursor].at
    <3>1. SUFFICES ASSUME cursor # None
                   PROVE  /\ cursor \in In(d)
                          /\ \E i \in In(d) \ {cursor} : messages[i].at <= messages[cursor].at
      OBVIOUS
    <3>2. PICK q \in Request : req[q].op = "get" /\ req[q].id = d /\ req[q].pc = "answered"
                               /\ cursor = req[q].next
      BY <3>1 DEF Cursors
    <3>3. /\ req[q].page \subseteq In(d) /\ cursor \in req[q].page
          /\ \E i \in In(d) \ req[q].page : messages[i].at <= messages[cursor].at
      BY <3>1, <3>2 DEF PagesInv, PageOK
    <3>4. QED
      BY <3>3
  <2>3. In(d)' = In(d)
    BY <1>2 DEF In
  <2>4. CursorOK(req[r])'
    BY <1>2, <2>1, <2>2, <2>3 DEF CursorOK
  <2>5. PageOK(req[r])'
    BY <2>1 DEF PageOK
  <2>6. QED
    BY <2>4, <2>5
<1>5. QED
  <2>1. \/ Serve(r, Over)
        \/ \E u \in User, d \in ConvId : \E cursor \in Cursors(d) :
              Serve(r, [NewCall EXCEPT !.pc = "page", !.op = "get", !.user = u, !.id = d,
                                       !.cursor = cursor])
    BY DEF GetCheck
  <2>2. \A c : Serve(r, c) => req'[r] = c
    BY <1>1 DEF Serve
  <2>3. QED
    BY <1>3, <1>4, <2>1, <2>2

LEMMA PagesGetPage ==
    ASSUME TypeInv, PagesInv, NEW r \in Request, GetPage(r)
    PROVE  CursorOK(req[r])' /\ PageOK(req[r])'
<1>0. PICK id, cursor : id = req[r].id /\ cursor = req[r].cursor
  OBVIOUS
<1> DEFINE page == req'[r].page
           next == req'[r].next
<1>1. /\ req[r].op = "get" /\ req'[r].op = "get" /\ req'[r].id = id /\ req'[r].cursor = cursor
      /\ req[r].pc = "page" /\ req'[r].known \in 0 .. Len(messages)
  BY <1>0, PageIsRead
<1>2. PICK rest \in Rests(id, cursor) :
        /\ page \subseteq rest
        /\ rest # {} => page # {}
        /\ \A i \in rest \ page, j \in page : messages[i].at <= messages[j].at
        /\ next # None => /\ next \in page
                          /\ \A j \in page : messages[next].at <= messages[j].at
                          /\ \E i \in rest \ page : messages[i].at <= messages[next].at
  BY <1>0, PageIsRead
<1> HIDE DEF page, next
<1>3. CursorOK(req[r])
  BY DEF PagesInv
<1>4. messages' = messages /\ In(id)' = In(id)
  BY DEF GetPage, In
<1>5. messages \in Seq(Message) /\ id \in ConvId
  BY <1>0, <1>1 DEF TypeInv, TypeOK, Ready, CallReady, Started
<1>6. \A i \in In(id) : messages[i].at \in Nat
  BY Times DEF In
<1>7. cursor # None => cursor \in In(id)
  BY <1>0, <1>1, <1>3 DEF CursorOK
<1>8. /\ rest \subseteq In(id)
      /\ cursor = None => rest = In(id)
      /\ cursor # None =>
           /\ \A i \in rest : i # cursor /\ messages[i].at <= messages[cursor].at
           /\ \A i \in In(id) : messages[i].at < messages[cursor].at => i \in rest
  BY <1>5, <1>7, RestIs
<1>9. CursorOK(req[r])'
  BY <1>0, <1>1, <1>3, <1>4 DEF CursorOK
<1>10. page \subseteq In(id)
  BY <1>2, <1>8
<1>11. ASSUME NEW i \in In(id), NEW j \in page, messages[j].at < messages[i].at, i \in rest
       PROVE  i \in page
  <2>1. messages[i].at \in Nat /\ messages[j].at \in Nat
    BY <1>6, <1>10
  <2>2. QED
    BY <1>2, <1>11, <2>1
<1>12. ASSUME NEW i \in In(id), NEW j \in page, NEW k \in page,
              messages[j].at < messages[i].at, messages[i].at < messages[k].at
       PROVE  i \in page
  <2>1. i \in rest
    <3>1. CASE cursor = None
      BY <1>8, <3>1
    <3>2. CASE cursor # None
      <4>1. messages[k].at <= messages[cursor].at /\ cursor \in In(id)
        BY <1>2, <1>7, <1>8, <3>2
      <4>2. messages[i].at < messages[cursor].at
        BY <1>6, <1>10, <1>12, <4>1
      <4>3. QED
        BY <1>8, <3>2, <4>2
    <3>3. QED
      BY <3>1, <3>2
  <2>2. QED
    BY <1>11, <1>12, <2>1
<1>13. ASSUME cursor # None
       PROVE  /\ \A i \in page : i # cursor /\ messages[i].at <= messages[cursor].at
              /\ page = {} => \A i \in In(id) : messages[cursor].at <= messages[i].at
              /\ \A i \in In(id), j \in page :
                    messages[j].at < messages[i].at /\ messages[i].at < messages[cursor].at
                       => i \in page
  <2>1. \A i \in page : i # cursor /\ messages[i].at <= messages[cursor].at
    BY <1>2, <1>8, <1>13
  <2>2. page = {} => \A i \in In(id) : messages[cursor].at <= messages[i].at
    <3>1. SUFFICES ASSUME page = {}, NEW i \in In(id) PROVE messages[cursor].at <= messages[i].at
      OBVIOUS
    <3>2. ~(messages[i].at < messages[cursor].at)
      BY <1>2, <1>8, <1>13, <3>1
    <3>3. messages[i].at \in Nat /\ messages[cursor].at \in Nat
      BY <1>6, <1>7, <1>13
    <3>4. QED
      BY <3>2, <3>3
  <2>3. \A i \in In(id), j \in page :
           messages[j].at < messages[i].at /\ messages[i].at < messages[cursor].at => i \in page
    BY <1>8, <1>11, <1>13
  <2>4. QED
    BY <2>1, <2>2, <2>3
<1>14. next # None => /\ next \in page
                      /\ \A j \in page : messages[next].at <= messages[j].at
                      /\ \E i \in In(id) \ page : messages[i].at <= messages[next].at
  BY <1>2, <1>8
<1>15. Len(messages) \in Nat
  BY <1>5
<1>16. req'[r].known <= Len(messages)
  BY <1>1, <1>15
<1>17. /\ req'[r].page = page /\ req'[r].next = next /\ req'[r].id = id /\ req'[r].cursor = cursor
  BY <1>1 DEF page, next
<1>18. PageOK(req[r])'
  BY <1>4, <1>10, <1>12, <1>13, <1>14, <1>16, <1>17 DEF PageOK
<1>19. QED
  BY <1>9, <1>18

LEMMA PagesGetMark ==
    ASSUME TypeInv, PagesInv, NEW r \in Request, GetMark(r)
    PROVE  CursorOK(req[r])' /\ PageOK(req[r])'
<1>1. SamePage(req[r], req'[r]) /\ req[r].op = "get" /\ req[r].pc = "mark"
  BY MarkKeepsPage
<1>2. messages' = messages /\ \A c : In(c)' = In(c)
  BY DEF GetMark, In
<1>3. CursorOK(req[r]) /\ PageOK(req[r])
  BY DEF PagesInv
<1>4. QED
  BY <1>1, <1>2, <1>3 DEF SamePage, CursorOK, PageOK

LEMMA PagesStep == TypeInv /\ Dated /\ PagesInv /\ [Next]_vars => PagesInv'
<1> SUFFICES ASSUME TypeInv, Dated, PagesInv, [Next]_vars PROVE PagesInv'
  OBVIOUS
<1>2. ASSUME NEW r \in Request, Handle(r) PROVE PagesInv'
  <2>1. \A q \in Request \ {r} : req'[q] = req[q]
    BY <1>2, OneMoves
  <2>2. CASE Start(r) \/ Send(r) \/ Abort(r)
    <3>1. req'[r].op # "get"
      BY <2>2, NoReader
    <3>2. CursorOK(req[r])' /\ PageOK(req[r])'
      BY <3>1 DEF CursorOK, PageOK
    <3>3. QED
      BY <2>1, <3>2, PagesFrame
  <2>3. CASE Get(r)
    <3>1. CursorOK(req[r])' /\ PageOK(req[r])'
      BY <2>3, PagesGetCheck, PagesGetPage, PagesGetMark DEF Get
    <3>2. QED
      BY <2>1, <3>1, PagesFrame
  <2>4. QED
    BY <1>2, <2>2, <2>3 DEF Handle
<1>3. CASE Elsewhere
  <2>1. req' = req
    BY <1>3 DEF Elsewhere, Join, Leave, Tick, vars
  <2>2. ASSUME NEW r \in Request PROVE CursorOK(req[r])' /\ PageOK(req[r])'
    <3>1. \A c \in Call : CursorOK(c) /\ PageOK(c) => CursorOK(c)' /\ PageOK(c)'
      BY PagesStay
    <3>2. req[r] \in Call /\ CursorOK(req[r]) /\ PageOK(req[r])
      BY DEF TypeInv, TypeOK, PagesInv
    <3>3. QED
      BY <2>1, <3>1, <3>2
  <2>3. QED
    BY <2>2 DEF PagesInv
<1>4. QED
  BY <1>2, <1>3 DEF Next, Elsewhere

LEMMA PagesInvariant == Spec => []PagesInv
<1>1. Init => PagesInv
  <2>1. SUFFICES ASSUME Init, NEW r \in Request PROVE CursorOK(req[r]) /\ PageOK(req[r])
    BY DEF PagesInv
  <2>2. req[r].op # "get"
    BY <2>1, ConversationsAssumption DEF Init, NewCall, Operation
  <2>3. QED
    BY <2>2 DEF CursorOK, PageOK
<1>2. QED
  BY TypeInvariant, DatedInvariant, PagesStep, <1>1, PTL DEF Spec

LEMMA PagesInvJoins == TypeInv /\ PagesInv => PagesJoin
<1> SUFFICES ASSUME TypeInv, PagesInv, NEW r \in Request, NEW q \in Request,
                    req[r].op = "get", req[q].op = "get", req[r].id = req[q].id,
                    req[r].pc = "answered", req[q].pc = "answered",
                    req[r].next # None, req[q].cursor = req[r].next
             PROVE  LET cursor == req[r].next
                        tied   == {i \in In(req[r].id) \ {cursor} :
                                     messages[i].at = messages[cursor].at}
                    IN /\ req[r].page \cap req[q].page \subseteq tied
                       /\ req[q].page = {} => tied # {}
                       /\ \A i \in In(req[r].id) \ (tied \cup {cursor}) :
                             /\ \E j \in req[q].page : messages[j].at < messages[i].at
                             /\ \E k \in req[r].page : messages[i].at < messages[k].at
                             => i \in req[r].page \cup req[q].page
  BY DEF PagesJoin
<1> DEFINE n == req[r].next
           D == req[r].id
           tied == {i \in In(D) \ {n} : messages[i].at = messages[n].at}
<1>1. \A i \in In(D) : messages[i].at \in Nat
  BY Times DEF In
<1>2. /\ n \in req[r].page /\ n \in In(D) /\ req[r].page \subseteq In(D)
      /\ \A j \in req[r].page : messages[n].at <= messages[j].at
      /\ \A i \in In(D), j, k \in req[r].page :
            messages[j].at < messages[i].at /\ messages[i].at < messages[k].at => i \in req[r].page
  BY DEF PagesInv, PageOK
<1>3. /\ req[q].page \subseteq In(D)
      /\ \A j \in req[q].page : j # n /\ messages[j].at <= messages[n].at
      /\ req[q].page = {} => \A i \in In(D) : messages[n].at <= messages[i].at
      /\ \A i \in In(D), j \in req[q].page :
            messages[j].at < messages[i].at /\ messages[i].at < messages[n].at => i \in req[q].page
  BY DEF PagesInv, PageOK
<1>4. \E i \in In(D) \ {n} : messages[i].at <= messages[n].at
  BY DEF PagesInv, CursorOK
<1> HIDE DEF n, D
<1>5. req[r].page \cap req[q].page \subseteq tied
  <2>1. SUFFICES ASSUME NEW i \in req[r].page, i \in req[q].page PROVE i \in tied
    OBVIOUS
  <2>2. i \in In(D) /\ i # n /\ messages[i].at <= messages[n].at /\ messages[n].at <= messages[i].at
    BY <1>2, <1>3, <2>1
  <2>3. QED
    BY <1>1, <1>2, <2>2
<1>6. req[q].page = {} => tied # {}
  <2>1. SUFFICES ASSUME req[q].page = {} PROVE tied # {}
    OBVIOUS
  <2>2. PICK i \in In(D) \ {n} : messages[i].at <= messages[n].at
    BY <1>4
  <2>3. messages[n].at <= messages[i].at
    BY <1>3, <2>1
  <2>4. messages[i].at = messages[n].at
    BY <1>1, <1>2, <2>2, <2>3
  <2>5. QED
    BY <2>2, <2>4
<1>7. ASSUME NEW i \in In(D) \ (tied \cup {n}),
             NEW j \in req[q].page, messages[j].at < messages[i].at,
             NEW k \in req[r].page, messages[i].at < messages[k].at
      PROVE  i \in req[r].page \cup req[q].page
  <2>1. messages[i].at < messages[n].at \/ messages[n].at < messages[i].at
    BY <1>1, <1>2
  <2>2. QED
    BY <1>2, <1>3, <1>7, <2>1
<1>8. QED
  BY <1>5, <1>6, <1>7 DEF n, D

\* PagesJoin: of two pages, the second fetched by the cursor of the first, only
\* messages of the cursor's own instant are on both or on neither.
THEOREM PagesCorrect == Spec => []PagesJoin
BY TypeInvariant, PagesInvariant, PagesInvJoins, PTL

-----------------------------------------------------------------------------
(* Followers.                                                              *)

\* Whoever follows a conversation is in its room, and has read its last page.
FollowInv ==
    /\ FollowersMissNothing
    /\ \A r \in following : /\ req[r].op = "get" /\ req[r].pc \in {"mark", "answered"}
                            /\ <<req[r].user, req[r].id>> \in rooms

\* What a page tells of a message it goes on telling.
LEMMA ReachesStays ==
    ASSUME TypeInv, [Next]_vars, NEW c, NEW d, SamePage(c, d),
           c.next # None => c.next \in DOMAIN messages,
           NEW i \in DOMAIN messages, Reaches(c, i)
    PROVE  Reaches(d, i)'
<1>1. \A j \in DOMAIN messages : messages'[j] = messages[j]
  BY NewMessages
<1>2. QED
  BY <1>1 DEF Reaches, SamePage

\* Where messages of an answered send and the cursors of pages are.
LEMMA Stand ==
    ASSUME TypeInv, PagesInv
    PROVE  /\ \A q \in Request : req[q].op = "send" /\ req[q].pc = "answered" =>
                 req[q].msg \in In(req[q].id) /\ req[q].msg \in DOMAIN messages
           /\ \A r \in Request : req[r].op = "get" /\ req[r].pc \in {"mark", "answered"}
                                 /\ req[r].next # None =>
                 req[r].next \in DOMAIN messages
<1>1. \A q \in Request : req[q].op = "send" /\ req[q].pc = "answered" =>
         req[q].msg \in In(req[q].id) /\ req[q].msg \in DOMAIN messages
  BY DEF TypeInv, Ready, CallReady, In
<1>2. ASSUME NEW r \in Request, req[r].op = "get", req[r].pc \in {"mark", "answered"},
             req[r].next # None
      PROVE  req[r].next \in DOMAIN messages
  <2>1. req[r].page \subseteq In(req[r].id) /\ req[r].next \in req[r].page
    BY <1>2 DEF PagesInv, PageOK
  <2>2. QED
    BY <2>1 DEF In
<1>3. QED
  BY <1>1, <1>2

\* A follower whose page stays as it is, and a message answered for before.
LEMMA FollowKept ==
    ASSUME TypeInv, PagesInv, FollowInv, [Next]_vars, NEW f \in following, NEW q \in Request,
           SamePage(req[f], req'[f]), req'[q] = req[q], received \subseteq received',
           req[q].op = "send", req[q].socket, req[q].pc = "answered", req[q].id = req[f].id
    PROVE  \/ <<req'[f].user, req'[q].msg>> \in received'
           \/ Reaches(req[f], req[q].msg)'
<1>1. f \in Request
  BY DEF TypeInv, TypeOK
<1>2. PICK c, d, i : c = req[f] /\ d = req'[f] /\ i = req[q].msg
  OBVIOUS
<1>3. i \in DOMAIN messages /\ (c.next # None => c.next \in DOMAIN messages)
  BY <1>1, <1>2, Stand DEF FollowInv
<1>4. <<c.user, i>> \in received \/ Reaches(c, i)
  BY <1>1, <1>2 DEF FollowInv, FollowersMissNothing
<1>5. d.user = c.user
  BY <1>2 DEF SamePage
<1>6. CASE Reaches(c, i)
  <2>1. Reaches(d, i)'
    BY <1>2, <1>3, <1>6, ReachesStays
  <2>2. QED
    BY <1>2, <2>1 DEF Reaches
<1>7. CASE <<c.user, i>> \in received
  BY <1>2, <1>5, <1>7
<1>8. QED
  BY <1>4, <1>6, <1>7

\* A step of a request that nobody follows by, and that answers no message
\* sent through the socket.
LEMMA FollowFrame ==
    ASSUME TypeInv, PagesInv, FollowInv, [Next]_vars, NEW r \in Request,
           \A q \in Request \ {r} : req'[q] = req[q],
           rooms' = rooms, received \subseteq received', following' \subseteq following \ {r},
           ~(req'[r].op = "send" /\ req'[r].pc = "answered" /\ req'[r].socket)
    PROVE  FollowInv'
<1>1. \A f \in following' : f \in Request /\ f # r /\ f \in following /\ req'[f] = req[f]
  BY DEF TypeInv, TypeOK
<1>2. FollowersMissNothing'
  <2>1. SUFFICES ASSUME NEW f \in following', NEW q \in Request,
                        req'[q].op = "send" /\ req'[q].socket /\ req'[q].pc = "answered",
                        req'[q].id = req'[f].id
                 PROVE  <<req'[f].user, req'[q].msg>> \in received' \/ Reaches(req[f], req[q].msg)'
    BY DEF FollowersMissNothing
  <2>2. q # r /\ req'[q] = req[q] /\ req'[f] = req[f] /\ f \in following
    BY <1>1, <2>1
  <2>3. SamePage(req[f], req'[f])
    BY <2>2 DEF SamePage
  <2>4. QED
    BY <2>1, <2>2, <2>3, FollowKept
<1>3. QED
  BY <1>1, <1>2 DEF FollowInv

LEMMA FollowBroadcast ==
    ASSUME TypeInv, PagesInv, FollowInv, [Next]_vars, NEW r \in Request, Broadcast(r)
    PROVE  FollowInv'
<1>1. \A q \in Request \ {r} : req'[q] = req[q]
  BY OneMoves DEF Handle, Send
<1>2. req[r].op = "send" /\ req[r] \in Call
  BY UnderWay DEF Broadcast, Served, Suspended
<1>3. req'[r].id = req[r].id /\ req'[r].msg = req[r].msg
  BY <1>2 DEF Broadcast, Answer, TypeInv, TypeOK, Call
<1>4. \A f \in following' : f \in following /\ f \in Request /\ f # r /\ req'[f] = req[f]
  BY <1>1, <1>2 DEF Broadcast, FollowInv, TypeInv, TypeOK
<1>5. rooms' = rooms /\ received \subseteq received' /\ rooms \subseteq User \X ConvId
  BY DEF Broadcast, TypeInv, TypeOK
<1>6. FollowersMissNothing'
  <2>1. SUFFICES ASSUME NEW f \in following', NEW q \in Request,
                        req'[q].op = "send" /\ req'[q].socket /\ req'[q].pc = "answered",
                        req'[q].id = req'[f].id
                 PROVE  <<req'[f].user, req'[q].msg>> \in received' \/ Reaches(req[f], req[q].msg)'
    BY DEF FollowersMissNothing
  <2>2. CASE q # r
    <3>1. SamePage(req[f], req'[f]) /\ f \in following /\ req'[f] = req[f] /\ req'[q] = req[q]
      BY <1>1, <1>4, <2>1, <2>2 DEF SamePage
    <3>2. QED
      BY <1>5, <2>1, <3>1, FollowKept
  <2>3. CASE q = r
    <3>1. <<req[f].user, req[r].id>> \in rooms
      BY <1>3, <1>4, <2>1, <2>3 DEF FollowInv
    <3>2. req[f].user \in Audience(r)
      BY <1>5, <3>1 DEF Audience
    <3>3. <<req[f].user, req[r].msg>> \in received'
      BY <3>2 DEF Broadcast
    <3>4. QED
      BY <1>3, <1>4, <2>3, <3>3
  <2>4. QED
    BY <2>2, <2>3
<1>7. QED
  BY <1>4, <1>5, <1>6 DEF FollowInv

LEMMA FollowGetPage ==
    ASSUME TypeInv, PagesInv, FollowInv, [Next]_vars, NEW r \in Request, GetPage(r)
    PROVE  FollowInv'
<1>1. \A q \in Request \ {r} : req'[q] = req[q]
  BY OneMoves DEF Handle, Get
<1>2. /\ req[r].pc = "page" /\ req'[r].op = "get" /\ req'[r].pc = "mark"
      /\ req'[r].user = req[r].user /\ req'[r].id = req[r].id
      /\ req[r].cursor = None => req'[r].known = Len(messages)
  BY PageIsRead
<1>3. rooms' = rooms /\ received' = received /\ messages' = messages
  BY DEF GetPage
<1>4. \A f \in following' : f \in Request /\ (f = r \/ (f # r /\ f \in following /\ req'[f] = req[f]))
  BY <1>1, <1>2 DEF GetPage, FollowInv, TypeInv, TypeOK
<1>5. r \in following' => req[r].cursor = None /\ <<req[r].user, req[r].id>> \in rooms
  BY <1>2 DEF GetPage, FollowInv
<1>6. FollowersMissNothing'
  <2>1. SUFFICES ASSUME NEW f \in following', NEW q \in Request,
                        req'[q].op = "send" /\ req'[q].socket /\ req'[q].pc = "answered",
                        req'[q].id = req'[f].id
                 PROVE  <<req'[f].user, req'[q].msg>> \in received' \/ Reaches(req[f], req[q].msg)'
    BY DEF FollowersMissNothing
  <2>2. q # r /\ req'[q] = req[q]
    BY <1>1, <1>2, <2>1
  <2>3. CASE f # r
    <3>1. SamePage(req[f], req'[f]) /\ f \in following /\ req'[f] = req[f]
      BY <1>4, <2>3 DEF SamePage
    <3>2. QED
      BY <1>3, <2>1, <2>2, <3>1, FollowKept
  <2>4. CASE f = r
    <3>1. req[q].msg \in In(req[r].id) /\ req[q].msg \in DOMAIN messages
      BY <1>2, <2>1, <2>2, <2>4, Stand
    <3>2. req[r].cursor = None /\ req[r].id \in ConvId /\ messages \in Seq(Message)
      BY <1>2, <1>5, <2>4, UnderWay DEF TypeInv, TypeOK, Served, Suspended
    <3>3. \A i \in In(req[r].id) : \/ i \in req'[r].page
                                   \/ /\ req'[r].next # None
                                      /\ messages[i].at <= messages[req'[r].next].at
      <4>1. PICK rest \in Rests(req[r].id, req[r].cursor) :
               \A i \in rest : \/ i \in req'[r].page
                               \/ /\ req'[r].next # None
                                  /\ messages[i].at <= messages[req'[r].next].at
        BY PageIsRead
      <4>2. rest = In(req[r].id)
        BY <3>2, RestIs
      <4>3. QED
        BY <4>1, <4>2
    <3>4. req[q].msg <= req'[r].known
      BY <1>2, <3>1, <3>2
    <3>5. QED
      BY <1>3, <2>2, <2>4, <3>1, <3>3, <3>4 DEF Reaches
  <2>5. QED
    BY <2>3, <2>4
<1>7. QED
  BY <1>2, <1>3, <1>4, <1>5, <1>6 DEF FollowInv

LEMMA FollowGetMark ==
    ASSUME TypeInv, PagesInv, FollowInv, [Next]_vars, NEW r \in Request, GetMark(r)
    PROVE  FollowInv'
<1>1. \A q \in Request \ {r} : req'[q] = req[q]
  BY OneMoves DEF Handle, Get
<1>2. /\ SamePage(req[r], req'[r]) /\ req[r].op = "get" /\ req'[r].pc = "answered"
      /\ rooms' = rooms /\ received' = received /\ following' = following
  BY MarkKeepsPage
<1>3. \A q \in Request : SamePage(req[q], req'[q])
  BY <1>1, <1>2 DEF SamePage
<1>4. \A q \in Request : req'[q].op = "send" => req'[q] = req[q]
  BY <1>1, <1>2 DEF SamePage
<1>5. following \subseteq Request
  BY DEF TypeInv, TypeOK
<1>6. FollowersMissNothing'
  <2>1. SUFFICES ASSUME NEW f \in following', NEW q \in Request,
                        req'[q].op = "send" /\ req'[q].socket /\ req'[q].pc = "answered",
                        req'[q].id = req'[f].id
                 PROVE  <<req'[f].user, req'[q].msg>> \in received' \/ Reaches(req[f], req[q].msg)'
    BY DEF FollowersMissNothing
  <2>2. req'[q] = req[q] /\ SamePage(req[f], req'[f]) /\ f \in following
    BY <1>2, <1>3, <1>4, <1>5, <2>1
  <2>3. req'[f].id = req[f].id
    BY <2>2 DEF SamePage
  <2>4. QED
    BY <1>2, <2>1, <2>2, <2>3, FollowKept
<1>7. \A f \in following : req'[f].pc \in {"mark", "answered"}
  BY <1>1, <1>2, <1>5 DEF FollowInv
<1>8. QED
  BY <1>2, <1>3, <1>5, <1>6, <1>7 DEF FollowInv, SamePage

LEMMA FollowElsewhere ==
    ASSUME TypeInv, FollowInv, Elsewhere
    PROVE  FollowInv'
<1>1. UNCHANGED <<req, received, messages>> /\ following' \subseteq following
      /\ following \subseteq Request
  BY DEF Elsewhere, Join, Leave, Tick, vars, TypeInv, TypeOK
<1>2. \A f \in following' : <<req[f].user, req[f].id>> \in rooms'
  <2>1. CASE rooms \subseteq rooms'
    BY <1>1, <2>1 DEF FollowInv
  <2>2. ASSUME NEW u \in User, NEW C, Leave(u, C)
        PROVE  \A f \in following' : <<req[f].user, req[f].id>> \in rooms'
    BY <1>1, <2>2 DEF Leave, FollowInv
  <2>3. QED
    BY <2>1, <2>2 DEF Elsewhere, Join, Tick, vars
<1>3. FollowersMissNothing'
  BY <1>1 DEF FollowInv, FollowersMissNothing, Reaches
<1>4. QED
  BY <1>1, <1>2, <1>3 DEF FollowInv

LEMMA FollowStep == TypeInv /\ PagesInv /\ FollowInv /\ [Next]_vars => FollowInv'
<1> SUFFICES ASSUME TypeInv, PagesInv, FollowInv, [Next]_vars PROVE FollowInv'
  OBVIOUS
<1>1. ASSUME NEW r \in Request, Start(r) \/ Send(r) \/ Abort(r) PROVE FollowInv'
  <2>1. CASE Broadcast(r)
    BY <2>1, FollowBroadcast
  <2>2. CASE ~Broadcast(r)
    <3>1. \A q \in Request \ {r} : req'[q] = req[q]
      BY <1>1, OneMoves DEF Handle
    <3>2. /\ rooms' = rooms /\ received \subseteq received' /\ following' \subseteq following
          /\ (Abort(r) \/ req[r].op # "get") /\ (Abort(r) => r \notin following')
          /\ ~(req'[r].op = "send" /\ req'[r].pc = "answered" /\ req'[r].socket)
      BY <1>1, <2>2, NoReader
    <3>3. following' \subseteq following \ {r}
      BY <3>2 DEF FollowInv
    <3>4. QED
      BY <3>1, <3>2, <3>3, FollowFrame
  <2>3. QED
    BY <2>1, <2>2
<1>2. ASSUME NEW r \in Request, GetCheck(r) PROVE FollowInv'
  <2>1. \A q \in Request \ {r} : req'[q] = req[q]
    BY <1>2, OneMoves DEF Handle, Get
  <2>2. req[r].pc = "new" /\ req'[r].pc # "answered"
    BY <1>2 DEF GetCheck, Admitted, Serve, Over, NewCall, TypeInv, TypeOK
  <2>3. /\ rooms' = rooms /\ received \subseteq received' /\ following' \subseteq following \ {r}
    BY <1>2, <2>2 DEF GetCheck, FollowInv
  <2>4. QED
    BY <2>1, <2>2, <2>3, FollowFrame
<1>3. ASSUME NEW r \in Request, Get(r) PROVE FollowInv'
  BY <1>2, <1>3, FollowGetPage, FollowGetMark DEF Get
<1>4. CASE Elsewhere
  BY <1>4, FollowElsewhere
<1>5. QED
  BY <1>1, <1>3, <1>4 DEF Next, Handle, Elsewhere

LEMMA FollowInvariant == Spec => []FollowInv
<1>1. Init => FollowInv
  BY DEF Init, FollowInv, FollowersMissNothing
<1>2. QED
  BY TypeInvariant, PagesInvariant, FollowStep, <1>1, PTL DEF Spec

\* FollowersMissNothing: who joins the room before reading the last page and
\* stays misses no message that the socket answered for.
THEOREM FollowersCorrect == Spec => []FollowersMissNothing
<1>1. FollowInv => FollowersMissNothing
  BY DEF FollowInv
<1>2. QED
  BY FollowInvariant, <1>1, PTL

-----------------------------------------------------------------------------
(* Requests served one at a time.                                          *)

\* As long as none was admitted beside another, at most one is served.
AloneInv == ~overlapped => \A r, q \in Request : Served(r) /\ Served(q) => r = q

\* A step that admits nobody.
LEMMA StaysServed ==
    ASSUME TypeInv, NEW r \in Request, Handle(r), req[r].pc # "new"
    PROVE  overlapped' = overlapped /\ Served(r)
<1>1. req \in [Request -> Call] /\ req[r] \in Call
  BY DEF TypeInv, TypeOK
<1>2. CASE StartFind(r)
  BY <1>1, <1>2 DEF StartFind, Admitted
<1>3. CASE StartAppend(r)
  BY <1>1, <1>3 DEF StartAppend, Serve, Over, NewCall, Served, Suspended
<1>4. CASE StartCreate(r)
  BY <1>1, <1>4 DEF StartCreate, Serve, Over, NewCall, Call, Served, Suspended
<1>5. CASE SendCheck(r)
  BY <1>1, <1>5 DEF SendCheck, Admitted
<1>6. CASE SendInsert(r)
  BY <1>1, <1>6 DEF SendInsert, Call, Served, Suspended
<1>7. CASE SendTouch(r)
  BY <1>1, <1>7 DEF SendTouch, Serve, Over, NewCall, Call, Served, Suspended
<1>8. CASE Broadcast(r)
  BY <1>1, <1>8 DEF Broadcast, Answer, Call, Served, Suspended
<1>9. CASE GetCheck(r)
  BY <1>1, <1>9 DEF GetCheck, Admitted
<1>10. CASE GetPage(r)
  BY <1>1, <1>10 DEF GetPage, Call, Served, Suspended
<1>11. CASE GetMark(r)
  BY <1>1, <1>11 DEF GetMark, Answer, Call, Served, Suspended
<1>12. CASE Abort(r)
  BY <1>1, <1>12 DEF Abort, Serve, Over, NewCall
<1>13. QED
  BY <1>2, <1>3, <1>4, <1>5, <1>6, <1>7, <1>8, <1>9, <1>10, <1>11, <1>12
     DEF Handle, Start, Send, Get

\* When no two requests overlapped, the one that moves is the only one served.
LEMMA OnlyServed ==
    ASSUME TypeInv, AloneInv, NEW r \in Request, Handle(r), ~overlapped'
    PROVE  ~overlapped /\ \A q \in Request \ {r} : req'[q] = req[q] /\ ~Served(q)
<1>1. ~overlapped /\ (req[r].pc = "new" => \A q \in Request : ~Served(q))
  <2>1. CASE req[r].pc = "new"
    <3>1. Admitted(r)
      BY <2>1 DEF Handle, Start, StartFind, StartAppend, StartCreate, Send, SendCheck, SendInsert,
                  SendTouch, Broadcast, Get, GetCheck, GetPage, GetMark, Abort, Served, Suspended
    <3>2. QED
      BY <3>1 DEF Admitted, TypeInv, TypeOK
  <2>2. CASE req[r].pc # "new"
    BY <2>2, StaysServed
  <2>3. QED
    BY <2>1, <2>2
<1>2. QED
  BY <1>1, OneMoves, StaysServed DEF AloneInv

\* A request that was answered does not move.
LEMMA AnsweredRests ==
    ASSUME TypeInv, NEW r \in Request, Handle(r) PROVE req[r].pc # "answered"
<1>1. CASE req[r].pc = "new"
  BY <1>1
<1>2. CASE req[r].pc # "new"
  BY <1>2, StaysServed DEF Served, Suspended
<1>3. QED
  BY <1>1, <1>2

LEMMA AloneStep == TypeInv /\ AloneInv /\ [Next]_vars => AloneInv'
<1> SUFFICES ASSUME TypeInv, AloneInv, [Next]_vars, ~overlapped' PROVE AloneInv'
  BY DEF AloneInv
<1>1. ASSUME NEW r \in Request, Handle(r) PROVE AloneInv'
  <2>1. \A q \in Request \ {r} : req'[q] = req[q] /\ ~Served(q)
    BY <1>1, OnlyServed
  <2>2. QED
    BY <2>1 DEF AloneInv, Served
<1>2. CASE Elsewhere
  <2>1. UNCHANGED <<req, overlapped>>
    BY <1>2 DEF Elsewhere, Join, Leave, Tick, vars
  <2>2. QED
    BY <2>1 DEF AloneInv, Served
<1>3. QED
  BY <1>1, <1>2 DEF Next, Elsewhere

LEMMA AloneInvariant == Spec => []AloneInv
<1>1. Init => AloneInv
  <2>1. Init => \A r \in Request : req[r].pc = "new"
    BY DEF Init, NewCall
  <2>2. QED
    BY <2>1 DEF AloneInv, Served, Suspended
<1>2. QED
  BY TypeInvariant, AloneStep, <1>1, PTL DEF Spec

-----------------------------------------------------------------------------
(* What was shown and what is unread, of requests served one at a time.    *)

\* What a page shows is no newer than the time that will be written for it,
\* which moves lastReadAt forward; a first page reaches all there is.
Marking(c) ==
    c.op = "get" /\ c.pc = "mark" =>
       /\ \A i \in c.page : messages[i].at <= c.since
       /\ convs[c.id].readAt[c.user] # None => convs[c.id].readAt[c.user] <= c.since
       /\ c.cursor = None => \A i \in In(c.id) : Reaches(c, i)

Marked(c) ==
    c.op = "get" /\ c.pc = "answered" =>
       \A i \in c.page : /\ convs[c.id].readAt[c.user] # None
                         /\ messages[i].at <= convs[c.id].readAt[c.user]

AnsweredFirst(u, c) == \A r \in GotBy(u, c) : req[r].cursor = None

\* What is no newer than lastReadAt is reached by a page the user got, or came
\* after all of them in the instant of lastReadAt.
UpTo(u, c) ==
    AnsweredFirst(u, c) /\ convs[c].readAt[u] # None =>
       \A i \in In(c) : messages[i].at <= convs[c].readAt[u] =>
          \/ \E r \in GotBy(u, c) : Reaches(req[r], i)
          \/ /\ messages[i].at = convs[c].readAt[u]
             /\ \A r \in GotBy(u, c) : i > req[r].known

ReadInv ==
    ~overlapped => /\ \A r \in Request : Marking(req[r]) /\ Marked(req[r])
                   /\ \A c \in Started, u \in User : UpTo(u, c)

\* The page that is read shows nothing of the future, and a first page reaches
\* every message.
LEMMA ReadGetPage ==
    ASSUME TypeInv, Dated, NEW r \in Request, GetPage(r)
    PROVE  Marking(req[r])' /\ Marked(req[r])'
<1>1. /\ req[r].op = "get" /\ req[r].pc = "page" /\ req'[r].pc = "mark" /\ req'[r].id = req[r].id
      /\ req'[r].user = req[r].user /\ req'[r].cursor = req[r].cursor /\ req'[r].since = now
      /\ req[r].cursor = None => req'[r].known = Len(messages)
  BY PageIsRead
<1>2. req[r].id \in Started /\ req[r].user \in User /\ convs' = convs /\ messages' = messages
  BY <1>1, UnderWay DEF GetPage, Served, Suspended
<1>3. PICK rest \in Rests(req[r].id, req[r].cursor) :
        /\ req'[r].page \subseteq rest
        /\ \A i \in rest : \/ i \in req'[r].page
                           \/ /\ req'[r].next # None
                              /\ messages[i].at <= messages[req'[r].next].at
  BY PageIsRead
<1>4. /\ messages \in Seq(Message) /\ rest \subseteq In(req[r].id)
      /\ req[r].cursor = None => rest = In(req[r].id)
  BY <1>2, RestIs DEF TypeInv, TypeOK, Started
<1>5. \A i \in req'[r].page : messages'[i].at <= req'[r].since
  BY <1>1, <1>2, <1>3, <1>4 DEF In, Dated
<1>6. convs[req[r].id].readAt[req[r].user] # None => convs[req[r].id].readAt[req[r].user] <= now
  BY <1>2 DEF Dated
<1>7. ASSUME req[r].cursor = None, NEW i \in In(req[r].id)
      PROVE  Reaches(req[r], i)'
  <2>1. i <= Len(messages)
    BY <1>4 DEF In
  <2>2. QED
    BY <1>1, <1>2, <1>3, <1>4, <1>7, <2>1 DEF Reaches
<1>8. Marked(req[r])'
  BY <1>1 DEF Marked
<1>9. Marking(req[r])'
  <2>1. In(req[r].id)' = In(req[r].id)
    BY <1>1, <1>2 DEF In
  <2>2. req'[r].cursor = None => \A i \in In(req[r].id)' : Reaches(req[r], i)'
    BY <1>1, <1>7, <2>1
  <2>3. convs'[req'[r].id].readAt[req'[r].user] # None =>
           convs'[req'[r].id].readAt[req'[r].user] <= req'[r].since
    BY <1>1, <1>2, <1>6
  <2>4. QED
    BY <1>5, <2>2, <2>3 DEF Marking
<1>10. QED
  BY <1>8, <1>9

\* A page lies in its conversation.
LEMMA PageThere ==
    ASSUME TypeInv, PagesInv, NEW r \in Request, req[r].op = "get", req[r].pc \in {"mark", "answered"}
    PROVE  /\ req[r].id \in Started /\ req[r].user \in User
           /\ \A i \in req[r].page : i \in In(req[r].id) /\ i \in DOMAIN messages
<1>1. CallReady(req[r]) /\ PageOK(req[r])
  BY DEF TypeInv, Ready, PagesInv
<1>2. QED
  BY <1>1 DEF CallReady, PageOK, In

\* lastReadAt stays, or moves forward.
LEMMA MarksForward ==
    ASSUME TypeInv, NEW r \in Request, GetMark(r), Marking(req[r]),
           NEW c \in Started, NEW u \in User, convs[c].readAt[u] # None
    PROVE  /\ convs'[c].readAt[u] \in Nat /\ convs[c].readAt[u] \in Nat
           /\ convs[c].readAt[u] <= convs'[c].readAt[u]
<1>1. req[r].op = "get" /\ req[r].pc = "mark"
  BY MarkKeepsPage
<1>2. convs[c].readAt[u] \in Nat /\ req[r].since \in Nat
  BY Times
<1>3. PICK t \in Time : req[r].since <= t /\ convs'[req[r].id].readAt[req[r].user] = t
  BY Marks
<1>4. t \in Nat
  BY ConversationsAssumption DEF Time
<1>5. CASE c = req[r].id /\ u = req[r].user
  <2>1. convs[c].readAt[u] <= req[r].since
    BY <1>1, <1>5 DEF Marking
  <2>2. QED
    BY <1>2, <1>3, <1>4, <1>5, <2>1
<1>6. CASE ~(c = req[r].id /\ u = req[r].user)
  BY <1>2, <1>6, Marks
<1>7. QED
  BY <1>5, <1>6

\* The rows when no page is marked.
LEMMA RowsUnmarked ==
    ASSUME TypeInv, NEW r \in Request, Handle(r), ~GetMark(r), NEW c \in Started, NEW u \in User
    PROVE  convs'[c].readAt[u] = convs[c].readAt[u]
<1>1. \A q \in Request : ~GetMark(q)
  <2> SUFFICES ASSUME NEW q \in Request, GetMark(q), q # r PROVE FALSE
    OBVIOUS
  <2>1. req'[q] = req[q]
    BY OneMoves
  <2>2. QED
    BY <2>1, MarkKeepsPage
<1>2. RowKept(c)
  BY RowsKept DEF Next
<1>3. QED
  BY <1>1, <1>2 DEF RowKept

LEMMA ReadHandle ==
    ASSUME TypeInv, Dated, AloneInv, PagesInv, ReadInv, NEW r \in Request, Handle(r), ~overlapped'
    PROVE  /\ \A q \in Request : Marking(req[q])' /\ Marked(req[q])'
           /\ \A c \in Started', u \in User : UpTo(u, c)'
<1>1. ~overlapped /\ \A q \in Request \ {r} : req'[q] = req[q] /\ ~Served(q)
  BY OnlyServed
<1>2. /\ \A q \in Request : Marking(req[q]) /\ Marked(req[q])
      /\ \A c \in Started, u \in User : UpTo(u, c)
  BY <1>1 DEF ReadInv
<1>3. /\ now \in Nat
      /\ \A i \in DOMAIN messages : i \in DOMAIN messages' /\ messages'[i] = messages[i]
      /\ \A i \in DOMAIN messages' \ DOMAIN messages : messages'[i].at = now
  BY NewMessages DEF Next
<1>4. \A c \in Started, u \in User : convs[c].readAt[u] # None =>
         /\ convs[c].readAt[u] \in Nat
         /\ convs'[c].readAt[u] \in Nat /\ convs[c].readAt[u] <= convs'[c].readAt[u]
  <2>1. CASE GetMark(r)
    BY <1>2, <2>1, MarksForward
  <2>2. CASE ~GetMark(r)
    <3>1. ASSUME NEW c \in Started, NEW u \in User, convs[c].readAt[u] # None
          PROVE  convs[c].readAt[u] \in Nat /\ convs'[c].readAt[u] = convs[c].readAt[u]
      BY <2>2, <3>1, RowsUnmarked, Times
    <3>2. QED
      BY <3>1
  <2>3. QED
    BY <2>1, <2>2
<1>5. ASSUME NEW q \in Request, q # r PROVE Marking(req[q])' /\ Marked(req[q])'
  <2>1. req'[q] = req[q] /\ req[q].pc # "mark"
    BY <1>1, <1>5 DEF Served, Suspended
  <2>2. Marking(req[q])'
    BY <2>1 DEF Marking
  <2>3. ASSUME req[q].op = "get", req[q].pc = "answered", NEW i \in req[q].page
        PROVE  /\ convs'[req[q].id].readAt[req[q].user] # None
               /\ messages'[i].at <= convs'[req[q].id].readAt[req[q].user]
    <3>1. req[q].id \in Started /\ req[q].user \in User /\ i \in DOMAIN messages
      BY <2>3, PageThere
    <3>2. /\ convs[req[q].id].readAt[req[q].user] # None
          /\ messages[i].at <= convs[req[q].id].readAt[req[q].user]
      BY <1>2, <2>3 DEF Marked
    <3>3. messages'[i].at = messages[i].at /\ messages[i].at \in Nat /\ None \notin Nat
      BY <1>3, <3>1, Times
    <3>4. QED
      BY <1>4, <3>1, <3>2, <3>3
  <2>4. Marked(req[q])'
    BY <2>1, <2>3 DEF Marked
  <2>5. QED
    BY <2>2, <2>4
<1>6. Marking(req[r])' /\ Marked(req[r])'
  <2>1. CASE Start(r) \/ Send(r) \/ Abort(r)
    BY <2>1, NoReader DEF Marking, Marked
  <2>2. CASE GetCheck(r)
    <3>1. req'[r].pc \in {"page", "over"}
      BY <2>2 DEF GetCheck, Serve, Over, NewCall, TypeInv, TypeOK
    <3>2. QED
      BY <3>1 DEF Marking, Marked
  <2>3. CASE GetPage(r)
    BY <1>2, <2>3, ReadGetPage
  <2>4. CASE GetMark(r)
    <3>1. SamePage(req[r], req'[r]) /\ req[r].op = "get" /\ req[r].pc = "mark" /\ req'[r].pc = "answered"
      BY <2>4, MarkKeepsPage
    <3>2. PICK t \in Time : req[r].since <= t /\ convs'[req[r].id].readAt[req[r].user] = t
      BY <2>4, Marks
    <3>3. t \in Nat /\ req[r].since \in Nat /\ None \notin Nat
      BY Times, ConversationsAssumption DEF Time
    <3>4. ASSUME NEW i \in req[r].page PROVE messages'[i].at <= t
      <4>1. messages[i].at <= req[r].since /\ i \in DOMAIN messages
        BY <1>2, <3>1, PageThere DEF Marking
      <4>2. messages'[i].at = messages[i].at /\ messages[i].at \in Nat
        BY <1>3, <4>1, Times
      <4>3. QED
        BY <3>2, <3>3, <4>1, <4>2
    <3>5. QED
      BY <3>1, <3>2, <3>3, <3>4 DEF Marking, Marked, SamePage
  <2>5. QED
    BY <2>1, <2>2, <2>3, <2>4 DEF Handle, Get
<1>7. ASSUME NEW c \in Started', NEW u \in User PROVE UpTo(u, c)'
  <2> SUFFICES ASSUME AnsweredFirst(u, c)', convs'[c].readAt[u] # None, NEW i \in In(c)',
                      messages'[i].at <= convs'[c].readAt[u]
               PROVE  \/ \E q \in GotBy(u, c)' : Reaches(req[q], i)'
                      \/ /\ messages'[i].at = convs'[c].readAt[u]
                         /\ \A q \in GotBy(u, c)' : i > req'[q].known
    BY DEF UpTo
  <2>1. c \in Started
    BY NewRows DEF Next
  <2>2. GotBy(u, c) \subseteq GotBy(u, c)' /\ \A q \in GotBy(u, c) : req'[q] = req[q]
    <3>1. \A q \in GotBy(u, c) : q # r /\ q \in Request
      BY AnsweredRests DEF GotBy
    <3>2. \A q \in GotBy(u, c) : req'[q] = req[q]
      BY <1>1, <3>1
    <3>3. QED
      BY <3>1, <3>2 DEF GotBy
  <2>3. CASE GetMark(r) /\ c = req[r].id /\ u = req[r].user
    <3>1. SamePage(req[r], req'[r]) /\ req[r].op = "get" /\ req[r].pc = "mark" /\ req'[r].pc = "answered"
      BY <2>3, MarkKeepsPage
    <3>2. r \in GotBy(u, c)'
      BY <2>3, <3>1 DEF GotBy, SamePage
    <3>3. req[r].cursor = None
      BY <3>1, <3>2 DEF AnsweredFirst, SamePage
    <3>4. i \in In(req[r].id) /\ i \in DOMAIN messages
      BY <2>3 DEF GetMark, In
    <3>5. Reaches(req[r], i)
      BY <1>2, <3>1, <3>3, <3>4 DEF Marking
    <3>6. req[r].next # None => req[r].next \in DOMAIN messages
      BY <3>1, Stand
    <3>7. PICK old, new : old = req[r] /\ new = req'[r]
      OBVIOUS
    <3>8. Reaches(new, i)'
      BY <3>1, <3>4, <3>5, <3>6, <3>7, ReachesStays DEF Next
    <3>9. Reaches(req[r], i)'
      BY <3>7, <3>8 DEF Reaches
    <3>10. QED
      BY <3>2, <3>9
  <2>4. CASE ~(GetMark(r) /\ c = req[r].id /\ u = req[r].user)
    <3>1. convs'[c].readAt[u] = convs[c].readAt[u]
      <4>1. CASE GetMark(r)
        BY <2>1, <2>4, <4>1, Marks
      <4>2. CASE ~GetMark(r)
        BY <2>1, <4>2, RowsUnmarked
      <4>3. QED
        BY <4>1, <4>2
    <3>2. r \notin GotBy(u, c)'
      <4>1. CASE Start(r) \/ Send(r) \/ Abort(r)
        BY <4>1, NoReader DEF GotBy
      <4>2. CASE GetCheck(r)
        BY <4>2 DEF GetCheck, Serve, Over, NewCall, TypeInv, TypeOK, GotBy
      <4>3. CASE GetPage(r)
        BY <4>3, PageIsRead DEF GotBy
      <4>4. CASE GetMark(r)
        BY <2>4, <4>4, MarkKeepsPage DEF GotBy, SamePage
      <4>5. QED
        BY <4>1, <4>2, <4>3, <4>4 DEF Handle, Get
    <3>3. GotBy(u, c)' = GotBy(u, c)
      BY <1>1, <2>2, <3>2 DEF GotBy
    <3>4. AnsweredFirst(u, c)
      BY <2>2, <3>3 DEF AnsweredFirst
    <3>5. CASE i \in DOMAIN messages
      <4>1. i \in In(c) /\ messages'[i] = messages[i]
        BY <1>3, <3>5 DEF In
      <4>2. \/ \E q \in GotBy(u, c) : Reaches(req[q], i)
            \/ /\ messages[i].at = convs[c].readAt[u]
               /\ \A q \in GotBy(u, c) : i > req[q].known
        BY <1>2, <2>1, <3>1, <3>4, <4>1 DEF UpTo
      <4>3. CASE \E q \in GotBy(u, c) : Reaches(req[q], i)
        <5>1. PICK q \in GotBy(u, c) : Reaches(req[q], i)
          BY <4>3
        <5>2. req'[q] = req[q] /\ req[q].next # None => req[q].next \in DOMAIN messages
          BY <2>2, Stand DEF GotBy
        <5>3. Reaches(req[q], i)'
          <6>1. PICK d : d = req[q]
            OBVIOUS
          <6>2. Reaches(d, i)'
            BY <2>2, <3>5, <5>1, <5>2, <6>1, ReachesStays DEF Next, SamePage
          <6>3. QED
            BY <2>2, <6>1, <6>2 DEF Reaches
        <5>4. QED
          BY <2>2, <5>3
      <4>4. CASE /\ messages[i].at = convs[c].readAt[u]
                 /\ \A q \in GotBy(u, c) : i > req[q].known
        BY <2>2, <3>1, <3>3, <4>1, <4>4
      <4>5. QED
        BY <4>2, <4>3, <4>4
    <3>6. CASE i \notin DOMAIN messages
      <4>1. messages'[i].at = now /\ i \in DOMAIN messages'
        BY <1>3, <3>6 DEF In
      <4>2. convs[c].readAt[u] \in Nat /\ convs[c].readAt[u] <= now
        BY <1>4, <2>1, <3>1 DEF Dated
      <4>3. messages'[i].at = convs'[c].readAt[u]
        BY <1>3, <3>1, <4>1, <4>2
      <4>4. /\ i \in Nat /\ i > Len(messages) /\ Len(messages) \in Nat
            /\ \A q \in Request : req[q].known \in Nat
        <5>1. messages \in Seq(Message) /\ messages' \in Seq(Message) /\ req \in [Request -> Call]
          BY TypeStep DEF TypeInv, TypeOK, Next
        <5>2. DOMAIN messages = 1 .. Len(messages) /\ Len(messages) \in Nat
              /\ DOMAIN messages' = 1 .. Len(messages') /\ Len(messages') \in Nat
          BY <5>1
        <5>3. \A q \in Request : req[q].known \in Nat
          BY <5>1 DEF Call
        <5>4. QED
          BY <3>6, <4>1, <5>2, <5>3
      <4>5. \A q \in GotBy(u, c)' : req'[q].known <= Len(messages)
        BY <2>2, <3>3 DEF GotBy, PagesInv, PageOK
      <4>6. \A q \in GotBy(u, c)' : i > req'[q].known
        BY <2>2, <3>3, <4>4, <4>5 DEF GotBy
      <4>7. QED
        BY <4>3, <4>6
    <3>7. QED
      BY <3>5, <3>6
  <2>5. QED
    BY <2>3, <2>4
<1>8. QED
  BY <1>5, <1>6, <1>7

LEMMA ReadStep == ASSUME TypeInv, Dated, AloneInv, PagesInv, ReadInv, [Next]_vars PROVE ReadInv'
<1>1. ASSUME NEW r \in Request, Handle(r) PROVE ReadInv'
  BY <1>1, ReadHandle DEF ReadInv
<1>2. CASE Elsewhere
  <2>1. UNCHANGED <<convs, messages, req, overlapped>>
    BY <1>2 DEF Elsewhere, Join, Leave, Tick, vars
  <2>2. QED
    BY <2>1 DEF ReadInv, Marking, Marked, UpTo, AnsweredFirst, GotBy, Reaches, In, Started
<1>3. QED
  BY <1>1, <1>2 DEF Next, Elsewhere

LEMMA ReadInvariant == Spec => []ReadInv
<1>1. ASSUME Init PROVE ReadInv
  <2>1. \A r \in Request : req[r].op = None /\ req[r].pc = "new"
    BY <1>1 DEF Init, NewCall
  <2>2. \A c \in Started, u \in User : convs[c].readAt[u] = None
    BY <1>1, InitRows
  <2>3. QED
    BY <2>1, <2>2 DEF ReadInv, Marking, Marked, UpTo
<1>2. TypeInv /\ Dated /\ AloneInv /\ PagesInv /\ ReadInv /\ [Next]_vars => ReadInv'
  BY ReadStep
<1>3. QED
  BY <1>1, <1>2, TypeInvariant, DatedInvariant, AloneInvariant, PagesInvariant, PTL DEF Spec

\* counted as unread.
THEOREM ShownCorrect == Spec => []ShownIsRead
<1>1. ASSUME TypeInv, PagesInv, ReadInv PROVE ShownIsRead
  <2> SUFFICES ASSUME ~overlapped, NEW r \in Request, req[r].op = "get", req[r].pc = "answered",
                      NEW i \in req[r].page, i \in Unread(req[r].user)
               PROVE  FALSE
    BY DEF ShownIsRead
  <2>1. req[r].id \in Started /\ req[r].user \in User /\ i \in In(req[r].id) /\ i \in DOMAIN messages
    BY <1>1, PageThere
  <2>2. /\ convs[req[r].id].readAt[req[r].user] # None
        /\ messages[i].at <= convs[req[r].id].readAt[req[r].user]
    BY <1>1 DEF ReadInv, Marked
  <2>3. messages[i].at > convs[req[r].id].readAt[req[r].user]
    BY <2>1, <2>2 DEF Unread, In
  <2>4. messages[i].at \in Nat /\ convs[req[r].id].readAt[req[r].user] \in Nat
    BY <1>1, <2>1, <2>2, Times
  <2>5. QED
    BY <2>2, <2>3, <2>4
<1>2. QED
  BY <1>1, TypeInvariant, PagesInvariant, ReadInvariant, PTL

\* As long as no two requests overlapped, what a user who fetched first pages
\* only was not shown stays unread.
\* As long as no two requests overlapped, what a user who fetched first pages
\* only was not shown stays unread, but for what came in the instant of
\* lastReadAt.
THEOREM UnshownCorrect == Spec => []UnshownStaysUnread
<1>1. ASSUME TypeInv, ReadInv PROVE UnshownStaysUnread
  <2> SUFFICES ASSUME ~overlapped, NEW c \in Started, NEW u \in convs[c].members,
                      FirstPagesOnly(u, c), NEW i \in In(c) \ Unread(u), messages[i].sender # u
               PROVE  \/ \E r \in GotBy(u, c) : Reaches(req[r], i)
                      \/ /\ messages[i].at = convs[c].readAt[u]
                         /\ \A r \in GotBy(u, c) : i > req[r].known
    BY DEF UnshownStaysUnread
  <2>1. u \in User
    BY <1>1 DEF Started, TypeInv, TypeOK, Conversation
  <2>2. i \in DOMAIN messages /\ messages[i].conv = c
    BY DEF In
  <2>3. convs[c].readAt[u] # None /\ ~(messages[i].at > convs[c].readAt[u])
    BY <2>2 DEF Unread, IsParticipant
  <2>4. messages[i].at <= convs[c].readAt[u]
    <3>1. messages[i].at \in Nat /\ convs[c].readAt[u] \in Nat
      BY <1>1, <2>1, <2>2, <2>3, Times
    <3>2. QED
      BY <2>3, <3>1
  <2>5. AnsweredFirst(u, c)
    BY DEF FirstPagesOnly, AnsweredFirst, GotBy
  <2>6. QED
    BY <1>1, <2>1, <2>3, <2>4, <2>5 DEF ReadInv, UpTo
<1>2. QED
  BY <1>1, TypeInvariant, ReadInvariant, PTL

-----------------------------------------------------------------------------
(* Who takes part.                                                         *)

\* A request past its check, and a page that was fetched, are of a participant.
ActsFor(c) ==
    c.pc \in Suspended \ {"create"} \/ c.op = "get" => IsParticipant(c.user, c.id)

ByParty(i) == IsParticipant(messages[i].sender, messages[i].conv)

PartiesInv ==
    /\ \A r \in Request : ActsFor(req[r])
    /\ \A i \in DOMAIN messages : ByParty(i)

\* What a page shows was written by a participant of the conversation the page
\* is of, and is shown to one: the check at the start of a call, or the lookup
\* of startConversation(), still holds at the insert and at the page.
AmongParticipants ==
    /\ \A i \in DOMAIN messages : ByParty(i)
    /\ \A r \in Request : req[r].op = "get" /\ req[r].pc \in {"mark", "answered"} =>
          \A i \in req[r].page : /\ i \in DOMAIN messages
                                 /\ IsParticipant(req[r].user, messages[i].conv)

LEMMA ParticipantStays ==
    ASSUME TypeInv, [Next]_vars, NEW u, NEW c, IsParticipant(u, c)
    PROVE  IsParticipant(u, c)'
BY RowsKept DEF RowKept, IsParticipant

\* Every participant is one of two, and there are two: so each of the two is.
LEMMA FoundIsOwn ==
    ASSUME NEW u, NEW w, NEW s, NEW c \in Between(u, w, s)
    PROVE  IsParticipant(u, c)
<1>1. /\ c \in Started /\ convs[c].members \subseteq {u, w}
      /\ Cardinality(convs[c].members) = 2
  BY DEF Between
<1>2. ASSUME u \notin convs[c].members PROVE FALSE
  <2>1. convs[c].members \subseteq {w}
    BY <1>1, <1>2
  <2>2. IsFiniteSet({w}) /\ Cardinality({w}) = 1
    BY FS_Singleton
  <2>3. Cardinality(convs[c].members) <= 1
    BY <2>1, <2>2, FS_Subset
  <2>4. QED
    BY <1>1, <2>3
<1>3. QED
  BY <1>1, <1>2 DEF IsParticipant

LEMMA TwoAreTwo ==
    ASSUME NEW u, NEW w, u # w
    PROVE  Cardinality({u, w}) = 2
<1>1. IsFiniteSet({w}) /\ Cardinality({w}) = 1
  BY FS_Singleton
<1>2. Cardinality({w} \cup {u}) = Cardinality({w}) + 1
  <2>1. u \notin {w}
    OBVIOUS
  <2>2. QED
    BY <1>1, <2>1, FS_AddElement
<1>3. {w} \cup {u} = {u, w}
  OBVIOUS
<1>4. QED
  BY <1>1, <1>2, <1>3

\* A call that goes on is of the same user and the same conversation.
LEMMA GoesOn ==
    ASSUME TypeInv, NEW r \in Request, Handle(r), req[r].pc # "new"
    PROVE  \/ req'[r] = Over
           \/ /\ req[r].pc \in Suspended \ {"create"}
              /\ req'[r].user = req[r].user /\ req'[r].id = req[r].id
<1>1. req \in [Request -> Call] /\ req[r] \in Call
  BY DEF TypeInv, TypeOK
<1>2. CASE StartFind(r) \/ SendCheck(r) \/ GetCheck(r)
  BY <1>2 DEF StartFind, SendCheck, GetCheck, Admitted
<1>3. CASE StartAppend(r) \/ StartCreate(r) \/ Abort(r)
  BY <1>1, <1>3 DEF StartAppend, StartCreate, Abort, Serve
<1>4. CASE SendInsert(r)
  BY <1>1, <1>4 DEF SendInsert, Call, Suspended
<1>5. CASE SendTouch(r)
  BY <1>1, <1>5 DEF SendTouch, Serve, Over, NewCall, Call, Suspended
<1>6. CASE Broadcast(r)
  BY <1>1, <1>6 DEF Broadcast, Answer, Call, Suspended
<1>7. CASE GetPage(r)
  BY <1>1, <1>7 DEF GetPage, Serve, Call, Suspended
<1>8. CASE GetMark(r)
  BY <1>1, <1>8 DEF GetMark, Answer, Call, Suspended
<1>9. QED
  BY <1>2, <1>3, <1>4, <1>5, <1>6, <1>7, <1>8 DEF Handle, Start, Send, Get

\* A call that is admitted has its check, or looks up whom it is between.
LEMMA Admits ==
    ASSUME TypeInv, NEW r \in Request, Handle(r), req[r].pc = "new"
    PROVE  \/ req'[r].pc \in {"create", "over"} /\ req'[r].op # "get"
           \/ IsParticipant(req'[r].user, req'[r].id) /\ convs' = convs
<1>1. req \in [Request -> Call]
  BY DEF TypeInv, TypeOK
<1>2. StartFind(r) \/ SendCheck(r) \/ GetCheck(r)
  BY DEF Handle, Start, StartAppend, StartCreate, Send, SendInsert, SendTouch, Broadcast,
         Get, GetPage, GetMark, Abort, Served, Suspended
<1>3. CASE StartFind(r)
  <2>1. PICK u \in User, w \in User, s \in Subject :
           \/ Serve(r, [NewCall EXCEPT !.op = "start", !.user = u, !.other = w, !.subject = s,
                                       !.pc = "create"])
           \/ \E c \in Between(u, w, s) :
                 Serve(r, [NewCall EXCEPT !.op = "start", !.user = u, !.other = w, !.subject = s,
                                          !.pc = "append", !.id = c])
    BY <1>3 DEF StartFind, NewCall
  <2>2. CASE Serve(r, [NewCall EXCEPT !.op = "start", !.user = u, !.other = w, !.subject = s,
                                      !.pc = "create"])
    BY <1>1, <2>2 DEF Serve, NewCall
  <2>3. ASSUME NEW c \in Between(u, w, s),
               Serve(r, [NewCall EXCEPT !.op = "start", !.user = u, !.other = w, !.subject = s,
                                        !.pc = "append", !.id = c])
        PROVE  IsParticipant(req'[r].user, req'[r].id) /\ convs' = convs
    <3>1. req'[r].user = u /\ req'[r].id = c
      BY <1>1, <2>3 DEF Serve, NewCall
    <3>2. QED
      BY <1>3, <3>1, FoundIsOwn DEF StartFind
  <2>4. QED
    BY <2>1, <2>2, <2>3
<1>4. CASE SendCheck(r)
  <2>1. PICK u \in User, c \in ConvId, socket \in BOOLEAN :
          Serve(r, IF IsParticipant(u, c)
                   THEN [NewCall EXCEPT !.pc = "insert", !.op = "send", !.user = u, !.id = c,
                                        !.socket = socket]
                   ELSE Over)
    BY <1>4 DEF SendCheck
  <2>2. convs' = convs
    BY <1>4 DEF SendCheck
  <2>3. CASE IsParticipant(u, c)
    BY <1>1, <2>1, <2>2, <2>3 DEF Serve, NewCall
  <2>4. CASE ~IsParticipant(u, c)
    BY <1>1, <2>1, <2>4, ConversationsAssumption DEF Serve, Over, NewCall, Operation
  <2>5. QED
    BY <2>3, <2>4
<1>5. CASE GetCheck(r)
  <2>1. PICK u \in User, c \in ConvId : \E cursor :
          Serve(r, IF IsParticipant(u, c)
                   THEN [NewCall EXCEPT !.pc = "page", !.op = "get", !.user = u, !.id = c,
                                        !.cursor = cursor]
                   ELSE Over)
    BY <1>5 DEF GetCheck
  <2>2. convs' = convs
    BY <1>5 DEF GetCheck
  <2>3. CASE IsParticipant(u, c)
    BY <1>1, <2>1, <2>2, <2>3 DEF Serve, NewCall
  <2>4. CASE ~IsParticipant(u, c)
    BY <1>1, <2>1, <2>4, ConversationsAssumption DEF Serve, Over, NewCall, Operation
  <2>5. QED
    BY <2>3, <2>4
<1>6. QED
  BY <1>2, <1>3, <1>4, <1>5

\* A message is stored for a participant, be it of a conversation just begun.
LEMMA StoredByParty ==
    ASSUME TypeInv, PartiesInv, [Next]_vars, NEW i \in DOMAIN messages' \ DOMAIN messages
    PROVE  ByParty(i)'
<1>1. messages \in Seq(Message) /\ messages' # messages
  BY DEF TypeInv, TypeOK
<1>2. PICK r \in Request : Handle(r)
  <2>1. ~Elsewhere
    BY <1>1 DEF Elsewhere, Join, Leave, Tick, vars
  <2>2. QED
    BY <2>1 DEF Next, Elsewhere
<1>3. ASSUME NEW u, u = req[r].user, NEW c, Store(r, c), IsParticipant(u, c)'
      PROVE  ByParty(i)'
  <2> DEFINE m == [conv |-> c, sender |-> req[r].user, at |-> now]
  <2>1. messages' = Append(messages, m) /\ m.conv = c /\ m.sender = u
    BY <1>3 DEF Store
  <2> HIDE DEF m
  <2>2. messages'[i] = m
    BY <1>1, <2>1
  <2>3. QED
    BY <1>3, <2>1, <2>2 DEF ByParty, IsParticipant
<1>4. CASE StartAppend(r) \/ SendInsert(r)
  <2>1. IsParticipant(req[r].user, req[r].id) /\ Store(r, req[r].id)
    BY <1>4 DEF StartAppend, SendInsert, PartiesInv, ActsFor, Suspended
  <2>2. PICK u, c : u = req[r].user /\ c = req[r].id
    OBVIOUS
  <2>3. IsParticipant(u, c)'
    BY <2>1, <2>2, ParticipantStays
  <2>4. QED
    BY <1>3, <2>1, <2>2, <2>3
<1>5. CASE StartCreate(r)
  <2>1. PICK c \in ConvId \ Started :
          /\ convs' = [convs EXCEPT ![c] =
                [subject |-> req[r].subject, members |-> {req[r].user, req[r].other},
                 updatedAt |-> now, readAt |-> [u \in User |-> None]]]
          /\ Store(r, c)
    BY <1>1, <1>5 DEF StartCreate
  <2>2. c \in Started'
    <3>1. DOMAIN messages' # DOMAIN messages
      OBVIOUS
    <3>2. convs'[c] \in Conversation
      <4>1. /\ convs' \in [ConvId -> Conversation \cup {None}]
            /\ convs'[c].members = {req[r].user, req[r].other}
            /\ convs'[c] = [subject |-> req[r].subject, members |-> {req[r].user, req[r].other},
                            updatedAt |-> now, readAt |-> [u \in User |-> None]]
        BY <2>1, TypeStep DEF TypeInv, TypeOK
      <4>2. req[r].user # req[r].other /\ req[r].pc = "create"
        BY <1>1, <1>5 DEF StartCreate
      <4>3. /\ req[r].user \in User /\ req[r].other \in User /\ req[r].subject \in Subject
            /\ now \in Time
        BY <4>2, UnderWay DEF Served, Suspended, TypeInv, TypeOK
      <4>4. Cardinality({req[r].user, req[r].other}) = 2
        BY <4>2, TwoAreTwo
      <4>5. QED
        BY <4>1, <4>3, <4>4 DEF Conversation
    <3>3. QED
      BY <3>2, NoRowIsNone DEF Started
  <2>3. convs'[c].members = {req[r].user, req[r].other}
    BY <2>1 DEF TypeInv, TypeOK
  <2>4. PICK u : u = req[r].user
    OBVIOUS
  <2>5. IsParticipant(u, c)'
    BY <2>2, <2>3, <2>4 DEF IsParticipant
  <2>6. QED
    BY <1>3, <2>1, <2>4, <2>5
<1>6. QED
  BY <1>1, <1>2, <1>4, <1>5
     DEF Handle, Start, StartFind, Send, SendCheck, SendTouch, Broadcast, Get, GetCheck, GetPage,
         GetMark, Abort

LEMMA PartiesStep == ASSUME TypeInv, PartiesInv, [Next]_vars PROVE PartiesInv'
<1>1. ASSUME NEW i \in DOMAIN messages'
      PROVE  ByParty(i)'
  <2>1. CASE i \in DOMAIN messages
    <3>1. messages'[i] = messages[i]
      BY <2>1, TypeStep, Stays DEF TypeInv
    <3>2. ByParty(i)
      BY <2>1 DEF PartiesInv
    <3>3. PICK u, c : u = messages[i].sender /\ c = messages[i].conv
      OBVIOUS
    <3>4. IsParticipant(u, c)'
      BY <3>2, <3>3, ParticipantStays DEF ByParty
    <3>5. QED
      BY <3>1, <3>3, <3>4 DEF ByParty
  <2>2. QED
    BY <2>1, StoredByParty
<1>2. ASSUME NEW q \in Request PROVE ActsFor(req[q])'
  <2>. SUFFICES ASSUME req'[q].pc \in Suspended \ {"create"} \/ req'[q].op = "get"
                PROVE  IsParticipant(req[q].user, req[q].id)'
    BY DEF ActsFor
  <2>1. CASE /\ req[q].pc \in Suspended \ {"create"} \/ req[q].op = "get"
             /\ req'[q].user = req[q].user /\ req'[q].id = req[q].id
    <3>1. PICK u, c : u = req[q].user /\ c = req[q].id
      OBVIOUS
    <3>2. IsParticipant(u, c)
      BY <2>1, <3>1 DEF PartiesInv, ActsFor
    <3>3. IsParticipant(u, c)'
      BY <3>2, ParticipantStays
    <3>4. QED
      BY <2>1, <3>1, <3>3
  <2>2. CASE req'[q] = req[q]
    BY <2>1, <2>2
  <2>3. CASE Handle(q) /\ req[q].pc # "new"
    <3>1. req'[q] # Over
      BY NewCallIsCall, ConversationsAssumption DEF Over, NewCall, Suspended, Operation
    <3>2. QED
      BY <2>1, <2>3, <3>1, GoesOn
  <2>4. CASE Handle(q) /\ req[q].pc = "new"
    <3>1. IsParticipant(req'[q].user, req'[q].id) /\ convs' = convs
      BY <2>4, Admits DEF Suspended
    <3>2. QED
      BY <3>1 DEF IsParticipant, Started
  <2>5. Handle(q) \/ req'[q] = req[q]
    <3>1. CASE Elsewhere
      BY <3>1 DEF Elsewhere, Join, Leave, Tick, vars
    <3>2. QED
      BY <3>1, OneMoves DEF Next, Elsewhere
  <2>6. QED
    BY <2>2, <2>3, <2>4, <2>5
<1>3. QED
  BY <1>1, <1>2 DEF PartiesInv

LEMMA PartiesInit == Init => PartiesInv
<1> SUFFICES ASSUME Init PROVE PartiesInv
  OBVIOUS
<1>1. \A r \in Request : req[r].pc = "new" /\ req[r].op # "get"
  BY ConversationsAssumption DEF Init, NewCall, Operation
<1>2. CASE messages = <<>>
  BY <1>1, <1>2 DEF PartiesInv, ActsFor, Suspended
<1>3. CASE messages # <<>>
  <2>. PICK c \in ConvId, u \in User, w \in User, s \in Subject :
         /\ u # w
         /\ convs = [d \in ConvId |->
                      IF d = c THEN [subject |-> s, members |-> {u, w}, updatedAt |-> 0,
                                     readAt |-> [x \in User |-> None]]
                      ELSE None]
         /\ messages \in StoredMessages(c, {u, w})
    BY <1>3 DEF Init
  <2>1. convs[c] \in Conversation \cup {None} /\ convs[c].members = {u, w}
    BY TypeInit DEF TypeInv, TypeOK
  <2>2. convs[c] \in Conversation
    <3>1. Cardinality({u, w}) = 2
      BY TwoAreTwo
    <3>2. 0 \in Time
      BY NewCallIsCall
    <3>3. QED
      BY <3>1, <3>2 DEF Conversation
  <2>3. c \in Started
    BY <2>2, NoRowIsNone DEF Started
  <2>4. \A i \in DOMAIN messages : messages[i].conv = c /\ messages[i].sender \in {u, w}
    BY DEF StoredMessages
  <2>5. QED
    BY <1>1, <2>1, <2>3, <2>4 DEF PartiesInv, ByParty, ActsFor, Suspended, IsParticipant
<1>4. QED
  BY <1>2, <1>3

\* Messages are written and pages read by participants only: what sendMessage(),
\* getMessages() and startConversation() checked before an await holds after it.
THEOREM ParticipantsCorrect == Spec => []AmongParticipants
<1>1. TypeInv /\ PartiesInv /\ PagesInv => AmongParticipants
  <2>. SUFFICES ASSUME TypeInv, PartiesInv, PagesInv, NEW r \in Request,
                       req[r].op = "get", req[r].pc \in {"mark", "answered"}, NEW i \in req[r].page
                PROVE  i \in DOMAIN messages /\ IsParticipant(req[r].user, messages[i].conv)
    BY DEF AmongParticipants, PartiesInv
  <2>1. i \in In(req[r].id)
    BY DEF PagesInv, PageOK
  <2>2. QED
    BY <2>1 DEF In, PartiesInv, ActsFor
<1>2. TypeInv /\ PartiesInv /\ [Next]_vars => PartiesInv'
  BY PartiesStep
<1>3. QED
  BY <1>1, <1>2, PartiesInit, TypeInvariant, PagesInvariant, PTL DEF Spec
=============================================================================
