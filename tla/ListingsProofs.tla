--------------------------- MODULE ListingsProofs ---------------------------
(***************************************************************************)
(* Proofs about Listings, for every set of calls, listings, users and      *)
(* prices.                                                                 *)
(***************************************************************************)
EXTENDS Listings, TLAPS

-----------------------------------------------------------------------------
(* What a column makes of a price.                                         *)

LEMMA RoundedIsAmount == \A c \in Price : Rounded(c) \in Amount
BY DEF Amount

\* What a column holds it keeps.
LEMMA RoundedKeeps == \A a \in Amount : Rounded(a) = a
<1>1. \A k \in Nat : (k * 10 + 5) \div 10 = k
  OBVIOUS
<1>2. \A c \in Nat : (c + 5) \div 10 \in Nat
  OBVIOUS
<1>3. ASSUME NEW c \in Price PROVE Rounded(Rounded(c)) = Rounded(c)
  <2>1. (c + 5) \div 10 \in Nat
    BY <1>2, ListingsAssumption
  <2>2. QED
    BY <1>1, <2>1 DEF Rounded
<1>4. QED
  BY <1>3 DEF Amount

-----------------------------------------------------------------------------
(* Type correctness.  It needs that a request under way names a row and    *)
(* carries what its next step writes.                                      *)

Ready ==
    \A r \in Request :
       /\ req[r].pc \in Suspended => req[r].id \in Property /\ listings[req[r].id] \in Listing
       /\ req[r].pc \in {"history", "recorded"} =>
             /\ req[r].op = "update" /\ req[r].price \in Price /\ req[r].old \in Amount
             /\ req[r].price # req[r].old
       /\ req[r].pc = "write" => req[r].op = "update"
       /\ req[r].pc = "written" => req[r].op \in {"create", "update", "remove"}
       /\ req[r].pc = "remove" => req[r].op = "remove"

TypeInv == TypeOK /\ Ready

\* A request that is over is a request.
LEMMA OverIsCall ==
    ASSUME NEW pc \in {"answered", "rejected", "aborted"}
    PROVE  Over(pc) \in Call /\ Over(pc).pc = pc
BY DEF Over, NewCall, Call

\* The reads leave the tables alone and name a row or are rejected.
LEMMA Reads ==
    ASSUME TypeOK, NEW r \in Request, UpdateRead(r) \/ RemoveRead(r) \/ VerifyRead(r) \/ Refuse(r)
    PROVE  /\ UNCHANGED <<listings, history, events, opened>> /\ req[r].pc = "new"
           /\ \E c \in Call :
                 /\ req' = [req EXCEPT ![r] = c]
                 /\ c.pc \in {"history", "write", "remove", "verify", "rejected"}
                 /\ c.pc \in {"history", "write", "remove", "verify"} =>
                       c.id \in Property /\ listings[c.id] \in Listing
                 /\ c.pc = "remove" => c.op = "remove"
                 /\ c.pc = "write" => c.op = "update" /\ c.price \in {None, listings[c.id].price}
                 /\ c.pc = "history" =>
                       /\ c.op = "update" /\ c.price \in Price /\ c.old = listings[c.id].price
                       /\ c.price # c.old
<1>1. CASE UpdateRead(r)
  <2>1. PICK u \in User, p \in Property, c \in Price \cup {None}, s \in {None, "AVAILABLE"} :
          /\ Listed(p)
          /\ Serve(r, [pc |-> IF c # None /\ listings[p].price # c THEN "history" ELSE "write",
                       op |-> "update", user |-> u, id |-> p, price |-> c, status |-> s,
                       old |-> listings[p].price])
    BY <1>1 DEF UpdateRead
  <2> DEFINE call == [pc |-> IF c # None /\ listings[p].price # c THEN "history" ELSE "write",
                      op |-> "update", user |-> u, id |-> p, price |-> c, status |-> s,
                      old |-> listings[p].price]
  <2>2. listings[p] \in Listing /\ listings[p].price \in Amount
    BY <2>1 DEF TypeOK, Listed, Listing
  <2>3. call \in Call
    BY <2>2 DEF Call, Operation, Status
  <2>4. QED
    BY <1>1, <2>1, <2>2, <2>3 DEF UpdateRead, Admitted, Serve
<1>2. CASE RemoveRead(r)
  <2>1. PICK u \in User, p \in Property :
          /\ Listed(p)
          /\ Serve(r, [NewCall EXCEPT !.pc = "remove", !.op = "remove", !.user = u, !.id = p])
    BY <1>2 DEF RemoveRead
  <2>2. listings[p] \in Listing
    BY <2>1 DEF TypeOK, Listed
  <2> DEFINE call == [NewCall EXCEPT !.pc = "remove", !.op = "remove", !.user = u, !.id = p]
  <2>3. call \in Call /\ call.op = "remove" /\ call.id = p /\ call.pc = "remove"
    BY DEF NewCall, Call, Operation
  <2>4. UNCHANGED <<listings, history, events, opened>> /\ req[r].pc = "new"
        /\ req' = [req EXCEPT ![r] = call]
    BY <1>2, <2>1 DEF RemoveRead, Admitted, Serve
  <2> HIDE DEF call
  <2>5. QED
    BY <2>2, <2>3, <2>4
<1>3. CASE VerifyRead(r)
  <2>1. PICK u \in Admin, p \in Property :
          /\ Listed(p)
          /\ Serve(r, [NewCall EXCEPT !.pc = "verify", !.op = "verify", !.user = u, !.id = p])
    BY <1>3 DEF VerifyRead
  <2>2. listings[p] \in Listing
    BY <2>1 DEF TypeOK, Listed
  <2> DEFINE call == [NewCall EXCEPT !.pc = "verify", !.op = "verify", !.user = u, !.id = p]
  <2>3. call \in Call /\ call.op = "verify" /\ call.id = p /\ call.pc = "verify"
    BY DEF NewCall, Call, User, Operation
  <2>4. UNCHANGED <<listings, history, events, opened>> /\ req[r].pc = "new"
        /\ req' = [req EXCEPT ![r] = call]
    BY <1>3, <2>1 DEF VerifyRead, Admitted, Serve
  <2> HIDE DEF call
  <2>5. QED
    BY <2>2, <2>3, <2>4
<1>4. CASE Refuse(r)
  <2>1. UNCHANGED <<listings, history, events, opened>> /\ req[r].pc = "new"
        /\ req' = [req EXCEPT ![r] = Over("rejected")]
    BY <1>4 DEF Refuse, Admitted, Serve
  <2>2. QED
    BY <2>1, OverIsCall
<1>5. QED
  BY <1>1, <1>2, <1>3, <1>4

LEMMA TypeInit == ASSUME Init PROVE TypeInv
<1>1. overlapped \in BOOLEAN
  BY DEF Init
<1>2. \A row \in Stored : row \in Listing /\ row.price \in Amount
  BY DEF Stored, Listing, Status, User
<1>3. /\ listings \in [Property -> Listing \cup {None}]
      /\ opened \in [Property -> Amount \cup {None}]
  BY <1>2 DEF Init
<1>4. QED
  BY <1>1, <1>3 DEF Init, TypeInv, TypeOK, Ready, NewCall, Call, Suspended, Operation

\* An admission notes whether another request is served, nothing else does.
LEMMA Overlaps ==
    ASSUME overlapped \in BOOLEAN, NEW r \in Request, Handle(r) PROVE overlapped' \in BOOLEAN
<1>1. overlapped' = overlapped \/ overlapped' = (overlapped \/ \E q \in Request : Served(q))
  BY DEF Handle, Create, Update, UpdateRead, UpdateHistory, UpdateAnnounce, UpdateWrite, Remove,
         RemoveRead, RemoveWrite, Verify, VerifyRead, VerifyWrite, Refuse, Finish, Abort, Admitted
<1>2. QED
  BY <1>1

LEMMA Creates ==
    ASSUME TypeOK, NEW r \in Request, Create(r)
    PROVE  /\ UNCHANGED <<history, events>> /\ req[r].pc = "new"
           /\ \E p \in Property, row \in Listing, call \in Call :
                 /\ listings[p] = None /\ listings' = [listings EXCEPT ![p] = row]
                 /\ opened' = [opened EXCEPT ![p] = row.price]
                 /\ req' = [req EXCEPT ![r] = call]
                 /\ call.pc = "written" /\ call.op = "create" /\ call.id = p
<1>1. PICK u \in Owner \cup Admin, p \in Property, c \in Price :
        /\ listings[p] = None
        /\ listings' = [listings EXCEPT ![p] =
              [ownerId |-> u, price |-> Rounded(c), status |-> "AVAILABLE",
               isVerified |-> FALSE, deleted |-> FALSE]]
        /\ opened' = [opened EXCEPT ![p] = Rounded(c)]
        /\ Serve(r, [NewCall EXCEPT !.pc = "written", !.op = "create", !.user = u,
                         !.id = p, !.price = c])
  BY DEF Create
<1> DEFINE row == [ownerId |-> u, price |-> Rounded(c), status |-> "AVAILABLE",
                   isVerified |-> FALSE, deleted |-> FALSE]
           call == [NewCall EXCEPT !.pc = "written", !.op = "create", !.user = u,
                        !.id = p, !.price = c]
<1>2. row \in Listing /\ row.price = Rounded(c)
  BY RoundedIsAmount DEF Listing, Status, User
<1>3. call \in Call /\ call.pc = "written" /\ call.op = "create" /\ call.id = p
  BY DEF NewCall, Call, User, Operation
<1>4. UNCHANGED <<history, events>> /\ req[r].pc = "new" /\ req' = [req EXCEPT ![r] = call]
      /\ listings[p] = None /\ listings' = [listings EXCEPT ![p] = row]
      /\ opened' = [opened EXCEPT ![p] = row.price]
  BY <1>1, <1>2 DEF Create, Admitted, Serve
<1> HIDE DEF row, call
<1>5. QED
  BY <1>2, <1>3, <1>4

LEMMA TypeCreate == ASSUME TypeInv, NEW r \in Request, Create(r) PROVE TypeInv'
<1>1. PICK p \in Property, row \in Listing, call \in Call :
        /\ listings[p] = None /\ listings' = [listings EXCEPT ![p] = row]
        /\ opened' = [opened EXCEPT ![p] = row.price] /\ row.price \in Amount
        /\ req' = [req EXCEPT ![r] = call]
        /\ call.pc = "written" /\ call.op = "create" /\ call.id = p
  BY Creates DEF TypeInv, Listing
<1>2. UNCHANGED <<history, events>>
  BY Creates DEF TypeInv
<1>3. TypeOK'
  BY <1>1, <1>2, Overlaps DEF TypeInv, TypeOK, Handle
<1>4. Ready'
  BY <1>1 DEF TypeInv, TypeOK, Ready, Suspended
<1>5. QED
  BY <1>3, <1>4 DEF TypeInv

LEMMA TypeReads ==
    ASSUME TypeInv, NEW r \in Request, UpdateRead(r) \/ RemoveRead(r) \/ VerifyRead(r) \/ Refuse(r)
    PROVE  TypeInv'
<1>1. PICK c \in Call :
        /\ req' = [req EXCEPT ![r] = c]
        /\ c.pc \in {"history", "write", "remove", "verify", "rejected"}
        /\ c.pc \in {"history", "write", "remove", "verify"} =>
              c.id \in Property /\ listings[c.id] \in Listing
        /\ c.pc = "remove" => c.op = "remove"
        /\ c.pc = "write" => c.op = "update"
        /\ c.pc = "history" =>
              /\ c.op = "update" /\ c.price \in Price /\ c.old = listings[c.id].price
              /\ c.price # c.old
  BY Reads DEF TypeInv
<1>2. UNCHANGED <<listings, history, events, opened>>
  BY Reads DEF TypeInv
<1>3. c.pc = "history" => c.old \in Amount
  BY <1>1 DEF Listing
<1>4. TypeOK'
  BY <1>1, <1>2, Overlaps DEF TypeInv, TypeOK, Handle, Update, Remove, Verify
<1>5. Ready'
  BY <1>1, <1>2, <1>3 DEF TypeInv, TypeOK, Ready, Suspended
<1>6. QED
  BY <1>4, <1>5 DEF TypeInv

\* A later step of a request keeps what the request is about, or ends it.
LEMMA Steps ==
    ASSUME TypeInv, NEW r \in Request,
           \/ UpdateHistory(r) \/ UpdateAnnounce(r) \/ UpdateWrite(r) \/ RemoveWrite(r)
           \/ VerifyWrite(r) \/ Finish(r) \/ Abort(r)
    PROVE  /\ req[r].pc \in Suspended /\ opened' = opened
           /\ \E c \in Call :
                 /\ req' = [req EXCEPT ![r] = c]
                 /\ c.pc \in {"recorded", "write", "written", "answered", "aborted"}
                 /\ c.pc \in Suspended => /\ c.id = req[r].id /\ c.op = req[r].op
                                          /\ c.price = req[r].price /\ c.old = req[r].old
                                          /\ c.user = req[r].user
                 /\ c.pc = "recorded" => UpdateHistory(r) /\ req[r].pc = "history"
                 /\ c.pc = "write" => req[r].pc = "recorded"
                 /\ c.pc = "written" => req[r].pc \in {"write", "remove"}
<1>1. req[r] \in Call /\ req \in [Request -> Call]
  BY DEF TypeInv, TypeOK
<1>2. CASE UpdateHistory(r) \/ UpdateAnnounce(r) \/ UpdateWrite(r) \/ RemoveWrite(r)
  <2>1. PICK pc \in {"recorded", "write", "written"} :
           /\ GoTo(r, pc)
           /\ pc = "recorded" => UpdateHistory(r) /\ req[r].pc = "history"
           /\ pc = "write" => req[r].pc = "recorded"
           /\ pc = "written" => req[r].pc \in {"write", "remove"}
    BY <1>2 DEF UpdateHistory, UpdateAnnounce, UpdateWrite, RemoveWrite
  <2> DEFINE c == [req[r] EXCEPT !.pc = pc]
  <2>2. c \in Call /\ c.pc = pc /\ c.id = req[r].id /\ c.op = req[r].op
        /\ c.price = req[r].price /\ c.old = req[r].old /\ c.user = req[r].user
    BY <1>1 DEF Call
  <2>3. req' = [req EXCEPT ![r] = c]
    BY <1>1, <2>1 DEF GoTo
  <2>4. req[r].pc \in Suspended /\ opened' = opened
    BY <1>2 DEF UpdateHistory, UpdateAnnounce, UpdateWrite, RemoveWrite, Suspended
  <2> HIDE DEF c
  <2>5. QED
    BY <2>1, <2>2, <2>3, <2>4
<1>3. CASE VerifyWrite(r) \/ Finish(r) \/ Abort(r)
  <2>1. PICK pc \in {"answered", "aborted"} : Serve(r, Over(pc))
    BY <1>3 DEF VerifyWrite, Finish, Abort
  <2>2. Over(pc) \in Call /\ Over(pc).pc = pc
    BY OverIsCall
  <2>3. req[r].pc \in Suspended /\ opened' = opened
    BY <1>3 DEF VerifyWrite, Finish, Abort, Served, Suspended
  <2>4. QED
    BY <2>1, <2>2, <2>3 DEF Serve, Suspended
<1>4. QED
  BY <1>2, <1>3

\* A write changes the row of the request, and leaves it a row.
LEMMA Writes ==
    ASSUME TypeInv, NEW r \in Request, UpdateWrite(r) \/ RemoveWrite(r) \/ VerifyWrite(r)
    PROVE  \E row \in Listing :
              /\ listings' = [listings EXCEPT ![req[r].id] = row]
              /\ row.ownerId = listings[req[r].id].ownerId
              /\ row.price = listings[req[r].id].price
                 \/ (UpdateWrite(r) /\ req[r].price \in Price /\ row.price = Rounded(req[r].price))
              /\ listings[req[r].id].deleted => row.deleted
<1>1. /\ req[r] \in Call /\ req[r].id \in Property /\ listings[req[r].id] \in Listing
      /\ listings \in [Property -> Listing \cup {None}]
  BY DEF TypeInv, TypeOK, Ready, UpdateWrite, RemoveWrite, VerifyWrite, Suspended
<1> DEFINE old == listings[req[r].id]
<1>2. CASE UpdateWrite(r)
  <2> DEFINE row == [old EXCEPT !.price = IF req[r].price = None THEN @ ELSE Rounded(req[r].price),
                                !.status = IF req[r].status = None THEN @ ELSE req[r].status]
  <2>1. row \in Listing /\ row.ownerId = old.ownerId /\ row.deleted = old.deleted
        /\ (row.price = old.price \/ (req[r].price \in Price /\ row.price = Rounded(req[r].price)))
    BY <1>1, RoundedIsAmount DEF Listing, Call
  <2>2. listings' = [listings EXCEPT ![req[r].id] = row]
    BY <1>1, <1>2 DEF UpdateWrite
  <2>3. QED
    BY <1>2, <2>1, <2>2
<1>3. CASE RemoveWrite(r)
  <2> DEFINE row == [old EXCEPT !.deleted = TRUE, !.status = "INACTIVE"]
  <2>1. row \in Listing /\ row.ownerId = old.ownerId /\ row.deleted /\ row.price = old.price
    BY <1>1 DEF Listing, Status
  <2>2. listings' = [listings EXCEPT ![req[r].id] = row]
    BY <1>1, <1>3 DEF RemoveWrite
  <2>3. QED
    BY <2>1, <2>2
<1>4. CASE VerifyWrite(r)
  <2> DEFINE row == [old EXCEPT !.isVerified = TRUE]
  <2>1. row \in Listing /\ row.ownerId = old.ownerId /\ row.deleted = old.deleted /\ row.price = old.price
    BY <1>1 DEF Listing
  <2>2. listings' = [listings EXCEPT ![req[r].id] = row]
    BY <1>1, <1>4 DEF VerifyWrite
  <2>3. QED
    BY <2>1, <2>2
<1>5. QED
  BY <1>2, <1>3, <1>4

LEMMA TypeSteps ==
    ASSUME TypeInv, NEW r \in Request,
           \/ UpdateHistory(r) \/ UpdateAnnounce(r) \/ UpdateWrite(r) \/ RemoveWrite(r)
           \/ VerifyWrite(r) \/ Finish(r) \/ Abort(r)
    PROVE  TypeInv'
<1>1. PICK c \in Call :
         /\ req' = [req EXCEPT ![r] = c]
         /\ c.pc \in {"recorded", "write", "written", "answered", "aborted"}
         /\ c.pc \in Suspended => /\ c.id = req[r].id /\ c.op = req[r].op
                                  /\ c.price = req[r].price /\ c.old = req[r].old
         /\ c.pc = "recorded" => req[r].pc = "history"
         /\ c.pc = "write" => req[r].pc = "recorded"
         /\ c.pc = "written" => req[r].pc \in {"write", "remove"}
  BY Steps
<1>2. /\ req \in [Request -> Call] /\ req[r] \in Call
      /\ listings \in [Property -> Listing \cup {None}]
      /\ history \in Seq(Change) /\ events \in Seq(Event)
      /\ opened' \in [Property -> Amount \cup {None}]
  BY Steps DEF TypeInv, TypeOK
<1>3. req' \in [Request -> Call]
  BY <1>1, <1>2
<1>4. listings' \in [Property -> Listing \cup {None}]
      /\ \A p \in Property : listings[p] \in Listing => listings'[p] \in Listing
  <2>1. CASE UpdateWrite(r) \/ RemoveWrite(r) \/ VerifyWrite(r)
    BY <1>2, <2>1, Writes
  <2>2. CASE ~(UpdateWrite(r) \/ RemoveWrite(r) \/ VerifyWrite(r))
    BY <1>2, <2>2 DEF UpdateHistory, UpdateAnnounce, Finish, Abort
  <2>3. QED
    BY <2>1, <2>2
<1>5. history' \in Seq(Change)
  <2>1. CASE UpdateHistory(r)
    <3>1. [property |-> req[r].id, oldPrice |-> req[r].old, newPrice |-> Rounded(req[r].price), src |-> r]
             \in Change
      BY <2>1, RoundedIsAmount DEF UpdateHistory, TypeInv, Ready, Suspended, Change
    <3>2. QED
      BY <1>2, <2>1, <3>1 DEF UpdateHistory
  <2>2. CASE ~UpdateHistory(r)
    BY <1>2, <2>2 DEF UpdateAnnounce, UpdateWrite, RemoveWrite, VerifyWrite, Finish, Abort
  <2>3. QED
    BY <2>1, <2>2
<1>6. events' \in Seq(Event)
  <2>1. CASE UpdateAnnounce(r)
    <3>1. [name |-> "property.price_changed", property |-> req[r].id, price |-> req[r].price, src |-> r]
             \in Event
      BY <2>1 DEF UpdateAnnounce, TypeInv, Ready, Suspended, Event
    <3>2. QED
      BY <1>2, <2>1, <3>1 DEF UpdateAnnounce
  <2>2. CASE Finish(r)
    <3>1. EventOf(req[r].op) \in {"property.created", "property.updated", "property.deleted"}
          /\ req[r].id \in Property
      BY <2>2 DEF Finish, EventOf, TypeInv, Ready, Suspended
    <3>2. [name |-> EventOf(req[r].op), property |-> req[r].id, price |-> None, src |-> r] \in Event
      BY <3>1 DEF Event
    <3>3. QED
      BY <1>2, <2>2, <3>2 DEF Finish
  <2>3. CASE ~UpdateAnnounce(r) /\ ~Finish(r)
    BY <1>2, <2>3 DEF UpdateHistory, UpdateWrite, RemoveWrite, VerifyWrite, Abort
  <2>4. QED
    BY <2>1, <2>2, <2>3
<1>7. Ready'
  <2>1. req'[r] = c /\ \A q \in Request \ {r} : req'[q] = req[q]
    BY <1>1, <1>2
  <2>2. req[r].pc \in Suspended
    BY Steps
  <2>3. ASSUME NEW q \in Request, req'[q].pc \in Suspended
        PROVE  req'[q].id \in Property /\ listings'[req'[q].id] \in Listing
    BY <1>1, <1>4, <2>1, <2>2, <2>3 DEF TypeInv, Ready
  <2>4. ASSUME NEW q \in Request, q # r
        PROVE  /\ req'[q].pc \in {"history", "recorded"} =>
                     /\ req'[q].op = "update" /\ req'[q].price \in Price /\ req'[q].old \in Amount
                     /\ req'[q].price # req'[q].old
               /\ req'[q].pc = "write" => req'[q].op = "update"
               /\ req'[q].pc = "written" => req'[q].op \in {"create", "update", "remove"}
               /\ req'[q].pc = "remove" => req'[q].op = "remove"
    BY <2>1, <2>4 DEF TypeInv, Ready
  <2>5. /\ c.pc = "recorded" => /\ c.op = "update" /\ c.price \in Price /\ c.old \in Amount
                                /\ c.price # c.old
        /\ c.pc = "write" => c.op = "update"
        /\ c.pc = "written" => c.op \in {"create", "update", "remove"}
        /\ c.pc \notin {"history", "remove"}
    BY <1>1 DEF TypeInv, Ready, Suspended
  <2>6. QED
    BY <2>1, <2>3, <2>4, <2>5 DEF Ready
<1>8. overlapped' \in BOOLEAN
  BY Overlaps DEF TypeInv, TypeOK, Handle, Update, Remove, Verify
<1>9. QED
  BY <1>2, <1>3, <1>4, <1>5, <1>6, <1>7, <1>8 DEF TypeInv, TypeOK

LEMMA TypeStep == ASSUME TypeInv, [Next]_vars PROVE TypeInv'
<1>1. CASE UNCHANGED vars
  BY <1>1 DEF vars, TypeInv, TypeOK, Ready
<1>2. ASSUME NEW r \in Request, Handle(r) PROVE TypeInv'
  BY <1>2, TypeCreate, TypeReads, TypeSteps DEF Handle, Update, Remove, Verify
<1>3. QED
  BY <1>1, <1>2 DEF Next

LEMMA TypeInvariant == Spec => []TypeInv
<1>1. TypeInv /\ [Next]_vars => TypeInv'
  BY TypeStep
<1>2. QED
  BY <1>1, TypeInit, PTL DEF Spec

\* The tables, the events and the requests always have their types.
THEOREM TypeCorrect == Spec => []TypeOK
BY TypeInvariant, PTL DEF TypeInv
-----------------------------------------------------------------------------
(* Every price is recorded.                                                *)

\* The prices that are on record for a listing.
OnRecord(p) == {opened[p]} \cup {c.newPrice : c \in Changes(p)}

\* What makes EveryPriceRecorded inductive: an update that is past its insert
\* only writes a price that is on record.
Backed ==
    \A r \in Request, p \in Property :
       req[r].pc \in {"recorded", "write"} /\ req[r].id = p /\ req[r].price # None =>
          Rounded(req[r].price) \in OnRecord(p)

PriceInv == TypeInv /\ EveryPriceRecorded /\ Backed

\* The record of a listing only grows: its price at creation stays and the
\* history keeps its rows.
LEMMA RecordGrows ==
    ASSUME TypeInv, NEW p \in Property, opened'[p] = opened[p],
           history' = history \/ \E c \in Change : history' = Append(history, c)
    PROVE  OnRecord(p) \subseteq OnRecord(p)'
<1>1. \A i \in DOMAIN history : i \in DOMAIN history' /\ history'[i] = history[i]
  <2>1. history \in Seq(Change)
    BY DEF TypeInv, TypeOK
  <2>2. QED
    BY <2>1
<1>2. Changes(p) \subseteq Changes(p)'
  BY <1>1 DEF Changes
<1>3. QED
  BY <1>2 DEF OnRecord

LEMMA PriceInit == ASSUME Init PROVE PriceInv
<1>1. TypeInv
  BY TypeInit
<1>2. EveryPriceRecorded /\ Backed
  BY NoRowIsNone DEF Init, EveryPriceRecorded, Backed, NewCall
<1>3. QED
  BY <1>1, <1>2 DEF PriceInv

\* Where a step leaves the prices that are on record, or puts one there before
\* it is written.
LEMMA PriceStep == ASSUME PriceInv, NEW r \in Request, Handle(r) PROVE PriceInv'
<1>1. /\ TypeInv /\ EveryPriceRecorded /\ Backed
      /\ req \in [Request -> Call] /\ req[r] \in Call
      /\ listings \in [Property -> Listing \cup {None}]
  BY DEF PriceInv, TypeInv, TypeOK
<1>2. TypeInv'
  BY <1>1, TypeStep DEF Next
<1>3. history' = history \/ \E c \in Change : history' = Append(history, c)
  <2>1. CASE UpdateHistory(r)
    <3>1. [property |-> req[r].id, oldPrice |-> req[r].old, newPrice |-> Rounded(req[r].price), src |-> r]
             \in Change
      BY <1>1, <2>1, RoundedIsAmount DEF UpdateHistory, TypeInv, Ready, Suspended, Change
    <3>2. QED
      BY <2>1, <3>1 DEF UpdateHistory
  <2>2. CASE ~UpdateHistory(r)
    BY <2>2 DEF Handle, Create, Update, UpdateRead, UpdateAnnounce, UpdateWrite, Remove, RemoveRead,
                RemoveWrite, Verify, VerifyRead, VerifyWrite, Refuse, Finish, Abort
  <2>3. QED
    BY <2>1, <2>2
<1>4. \A p \in Property : opened'[p] = opened[p] => OnRecord(p) \subseteq OnRecord(p)'
  BY <1>1, <1>3, RecordGrows
<1>5. CASE Create(r)
  <2>1. PICK p \in Property, row \in Listing, call \in Call :
          /\ listings[p] = None /\ listings' = [listings EXCEPT ![p] = row]
          /\ opened' = [opened EXCEPT ![p] = row.price]
          /\ req' = [req EXCEPT ![r] = call] /\ call.pc = "written"
    BY <1>1, <1>5, Creates DEF TypeInv
  <2>2. opened'[p] = row.price /\ \A k \in Property \ {p} : opened'[k] = opened[k]
    BY <1>1, <2>1 DEF TypeInv, TypeOK
  <2>3. EveryPriceRecorded'
    <3> SUFFICES ASSUME NEW k \in Property, listings'[k] # None
                 PROVE  listings'[k].price \in OnRecord(k)'
      BY DEF EveryPriceRecorded, OnRecord
    <3>1. CASE k = p
      BY <1>1, <2>1, <2>2, <3>1 DEF OnRecord
    <3>2. CASE k # p
      <4>1. listings'[k] = listings[k]
        BY <1>1, <2>1, <3>2
      <4>2. listings[k].price \in OnRecord(k)
        BY <1>1, <4>1 DEF EveryPriceRecorded, OnRecord
      <4>3. QED
        BY <1>4, <2>2, <3>2, <4>1, <4>2
    <3>3. QED
      BY <3>1, <3>2
  <2>4. Backed'
    <3> SUFFICES ASSUME NEW q \in Request, NEW k \in Property, req'[q].id = k,
                        req'[q].pc \in {"recorded", "write"}, req'[q].price # None
                 PROVE  Rounded(req'[q].price) \in OnRecord(k)'
      BY DEF Backed
    <3>1. req'[q] = req[q]
      BY <1>1, <2>1
    <3>2. k # p
      BY <1>1, <2>1, <3>1, NoRowIsNone DEF TypeInv, Ready, Suspended
    <3>3. QED
      BY <1>1, <1>4, <2>2, <3>1, <3>2 DEF Backed
  <2>5. QED
    BY <1>2, <2>3, <2>4 DEF PriceInv
<1>6. CASE UpdateRead(r) \/ RemoveRead(r) \/ VerifyRead(r) \/ Refuse(r)
  <2>1. UNCHANGED <<listings, history, events, opened>>
    BY <1>1, <1>6, Reads DEF TypeInv
  <2>2. PICK c \in Call :
          /\ req' = [req EXCEPT ![r] = c]
          /\ c.pc \in {"history", "write", "remove", "verify", "rejected"}
          /\ c.pc \in {"history", "write", "remove", "verify"} =>
                c.id \in Property /\ listings[c.id] \in Listing
          /\ c.pc = "write" => c.price \in {None, listings[c.id].price}
    BY <1>1, <1>6, Reads DEF TypeInv
  <2>3. EveryPriceRecorded'
    BY <1>1, <1>4, <2>1 DEF EveryPriceRecorded, OnRecord
  <2>4. c.pc = "write" /\ c.price # None => Rounded(c.price) \in OnRecord(c.id)
    BY <1>1, <2>2, NoRowIsNone, RoundedKeeps DEF Listing, EveryPriceRecorded, OnRecord
  <2>5. Backed'
    <3> SUFFICES ASSUME NEW q \in Request, NEW k \in Property, req'[q].id = k,
                        req'[q].pc \in {"recorded", "write"}, req'[q].price # None
                 PROVE  Rounded(req'[q].price) \in OnRecord(k)'
      BY DEF Backed
    <3>1. CASE q = r
      <4>1. req'[r] = c
        BY <1>1, <2>2
      <4>2. c.id \in Property /\ Rounded(c.price) \in OnRecord(c.id)
        BY <2>2, <2>4, <3>1, <4>1
      <4>3. QED
        BY <1>4, <2>1, <3>1, <4>1, <4>2
    <3>2. CASE q # r
      <4>1. req'[q] = req[q]
        BY <1>1, <2>2, <3>2
      <4>2. QED
        BY <1>1, <1>4, <2>1, <4>1 DEF Backed
    <3>3. QED
      BY <3>1, <3>2
  <2>6. QED
    BY <1>2, <2>3, <2>5 DEF PriceInv
<1>7. CASE \/ UpdateHistory(r) \/ UpdateAnnounce(r) \/ UpdateWrite(r) \/ RemoveWrite(r)
           \/ VerifyWrite(r) \/ Finish(r) \/ Abort(r)
  <2>0. opened' = opened
    BY <1>1, <1>7, Steps
  <2>1. PICK c \in Call :
           /\ req' = [req EXCEPT ![r] = c]
           /\ c.pc \in Suspended => c.id = req[r].id /\ c.price = req[r].price
           /\ c.pc = "recorded" => UpdateHistory(r)
           /\ c.pc = "write" => req[r].pc = "recorded"
    BY <1>1, <1>7, Steps
  <2>2. EveryPriceRecorded'
    <3>1. CASE UpdateWrite(r) \/ RemoveWrite(r) \/ VerifyWrite(r)
      <4>1. PICK row \in Listing :
              /\ listings' = [listings EXCEPT ![req[r].id] = row]
              /\ row.price = listings[req[r].id].price
                 \/ (UpdateWrite(r) /\ req[r].price \in Price /\ row.price = Rounded(req[r].price))
        BY <1>1, <3>1, Writes
      <4>2. req[r].id \in Property /\ listings[req[r].id] \in Listing
        BY <1>1, <3>1 DEF UpdateWrite, RemoveWrite, VerifyWrite, TypeInv, Ready, Suspended
      <4>3. row.price \in OnRecord(req[r].id)
        <5>1. listings[req[r].id].price \in OnRecord(req[r].id)
          BY <1>1, <4>2, NoRowIsNone DEF EveryPriceRecorded, OnRecord
        <5>2. UpdateWrite(r) /\ req[r].price \in Price => Rounded(req[r].price) \in OnRecord(req[r].id)
          BY <1>1, <4>2, ListingsAssumption DEF UpdateWrite, Backed
        <5>3. QED
          BY <4>1, <5>1, <5>2
      <4>4. QED
        BY <1>1, <1>4, <2>0, <4>1, <4>2, <4>3 DEF EveryPriceRecorded, OnRecord
    <3>2. CASE ~(UpdateWrite(r) \/ RemoveWrite(r) \/ VerifyWrite(r))
      <4>1. listings' = listings
        BY <1>7, <3>2 DEF UpdateHistory, UpdateAnnounce, Finish, Abort
      <4>2. QED
        BY <1>1, <1>4, <2>0, <4>1 DEF EveryPriceRecorded, OnRecord
    <3>3. QED
      BY <3>1, <3>2
  <2>3. req'[r] = c /\ \A q \in Request \ {r} : req'[q] = req[q]
    BY <1>1, <2>1
  <2>4. ASSUME c.pc = "recorded", NEW k \in Property, c.id = k
        PROVE  Rounded(c.price) \in OnRecord(k)'
    <3>1. history \in Seq(Change)
      BY <1>1 DEF TypeInv, TypeOK
    <3> DEFINE n == Len(history) + 1
    <3>2. n \in DOMAIN history' /\ history'[n].property = k /\ history'[n].newPrice = Rounded(c.price)
      BY <2>1, <2>4, <3>1 DEF UpdateHistory, Suspended
    <3>3. QED
      BY <3>2 DEF OnRecord, Changes
  <2>5. Backed'
    <3> SUFFICES ASSUME NEW q \in Request, NEW k \in Property, req'[q].id = k,
                        req'[q].pc \in {"recorded", "write"}, req'[q].price # None
                 PROVE  Rounded(req'[q].price) \in OnRecord(k)'
      BY DEF Backed
    <3>1. CASE q = r /\ c.pc = "recorded"
      BY <2>3, <2>4, <3>1
    <3>2. CASE ~(q = r /\ c.pc = "recorded")
      <4>1. req[q].pc \in {"recorded", "write"} /\ req'[q].id = req[q].id /\ req'[q].price = req[q].price
        BY <2>1, <2>3, <3>2 DEF Suspended
      <4>2. QED
        BY <1>1, <1>4, <2>0, <4>1 DEF Backed
    <3>3. QED
      BY <3>1, <3>2
  <2>6. QED
    BY <1>2, <2>2, <2>5 DEF PriceInv
<1>8. QED
  BY <1>5, <1>6, <1>7 DEF Handle, Update, Remove, Verify

\* No listing ever takes on a price that the history does not tell, whatever the
\* interleaving of the updates and wherever they fail.
THEOREM PricesAreRecorded == Spec => []EveryPriceRecorded
<1>1. PriceInv /\ [Next]_vars => PriceInv'
  <2>1. PriceInv /\ UNCHANGED vars => PriceInv'
    BY DEF vars, PriceInv, TypeInv, TypeOK, Ready, EveryPriceRecorded, Backed, OnRecord, Changes
  <2>2. QED
    BY <2>1, PriceStep DEF Next
<1>2. QED
  BY <1>1, PriceInit, PTL DEF Spec, PriceInv

-----------------------------------------------------------------------------
(* What a step may do to a listing.                                        *)

\* A deleted listing stays deleted.
THEOREM DeletedForGood == Spec => DeletedIsFinal
<1>1. TypeInv /\ [Next]_vars =>
        [\A p \in Property : listings[p] # None /\ listings[p].deleted => listings'[p].deleted]_vars
  <2> SUFFICES ASSUME TypeInv, NEW r \in Request, Handle(r), NEW p \in Property,
                      listings[p] # None, listings[p].deleted
               PROVE  listings'[p].deleted
    BY DEF Next
  <2>0. listings \in [Property -> Listing \cup {None}]
    BY DEF TypeInv, TypeOK
  <2>1. CASE Create(r)
    BY <2>0, <2>1, Creates DEF TypeInv
  <2>2. CASE UpdateWrite(r) \/ RemoveWrite(r) \/ VerifyWrite(r)
    BY <2>0, <2>2, Writes
  <2>3. CASE ~(Create(r) \/ UpdateWrite(r) \/ RemoveWrite(r) \/ VerifyWrite(r))
    BY <2>3 DEF Handle, Update, UpdateRead, UpdateHistory, UpdateAnnounce, Remove, RemoveRead,
                Verify, VerifyRead, Refuse, Finish, Abort
  <2>4. QED
    BY <2>1, <2>2, <2>3
<1>2. QED
  BY <1>1, TypeInvariant, PTL DEF Spec, DeletedIsFinal

-----------------------------------------------------------------------------
(* Who may change a listing.                                               *)

\* A row stays a row of its owner, and stays deleted.
LEMMA RowsStay ==
    ASSUME TypeInv, [Next]_vars, NEW p \in Property, listings[p] # None
    PROVE  /\ listings'[p] \in Listing /\ listings'[p].ownerId = listings[p].ownerId
           /\ listings[p].deleted => listings'[p].deleted
<1>0. listings \in [Property -> Listing \cup {None}] /\ listings[p] \in Listing
  BY DEF TypeInv, TypeOK
<1>1. ASSUME NEW r \in Request, Create(r) PROVE listings'[p] = listings[p]
  BY <1>0, <1>1, Creates DEF TypeInv
<1>2. ASSUME NEW r \in Request, UpdateWrite(r) \/ RemoveWrite(r) \/ VerifyWrite(r)
      PROVE  /\ listings'[p] \in Listing /\ listings'[p].ownerId = listings[p].ownerId
             /\ listings[p].deleted => listings'[p].deleted
  BY <1>0, <1>2, Writes
<1>3. ASSUME NEW r \in Request, Handle(r),
             ~(Create(r) \/ UpdateWrite(r) \/ RemoveWrite(r) \/ VerifyWrite(r))
      PROVE  listings' = listings
  BY <1>3 DEF Handle, Update, UpdateRead, UpdateHistory, UpdateAnnounce, Remove, RemoveRead,
              Verify, VerifyRead, Refuse, Finish, Abort
<1>4. QED
  BY <1>0, <1>1, <1>2, <1>3 DEF Next, vars

Entitled(c) == c.user = listings[c.id].ownerId \/ c.user \in Admin

\* The check of the read holds until the write: it is about a field that no
\* code changes.
Checked ==
    \A r \in Request :
       req[r].pc \in {"history", "recorded", "write", "remove", "verify"} => Entitled(req[r])

\* The reads let through who may change a listing that is there.
LEMMA ReadsCheck ==
    ASSUME NEW r \in Request, UpdateRead(r) \/ RemoveRead(r) \/ VerifyRead(r)
    PROVE  \E c : /\ req' = [req EXCEPT ![r] = c]
                  /\ c.id \in Property /\ Listed(c.id) /\ Entitled(c)
<1>1. CASE UpdateRead(r)
  <2>1. PICK u \in User, p \in Property, c \in Price \cup {None}, s \in {None, "AVAILABLE"} :
          /\ Listed(p) /\ MayChange(u, p)
          /\ Serve(r, [pc |-> IF c # None /\ listings[p].price # c THEN "history" ELSE "write",
                       op |-> "update", user |-> u, id |-> p, price |-> c, status |-> s,
                       old |-> listings[p].price])
    BY <1>1 DEF UpdateRead
  <2> DEFINE call == [pc |-> IF c # None /\ listings[p].price # c THEN "history" ELSE "write",
                      op |-> "update", user |-> u, id |-> p, price |-> c, status |-> s,
                      old |-> listings[p].price]
  <2>2. call.id = p /\ call.user = u
    OBVIOUS
  <2>3. req' = [req EXCEPT ![r] = call]
    BY <2>1 DEF Serve
  <2> HIDE DEF call
  <2>4. QED
    BY <2>1, <2>2, <2>3 DEF MayChange, Entitled
<1>2. CASE RemoveRead(r)
  <2>1. PICK u \in User, p \in Property :
          /\ Listed(p) /\ MayChange(u, p)
          /\ Serve(r, [NewCall EXCEPT !.pc = "remove", !.op = "remove", !.user = u, !.id = p])
    BY <1>2 DEF RemoveRead
  <2> DEFINE call == [NewCall EXCEPT !.pc = "remove", !.op = "remove", !.user = u, !.id = p]
  <2>2. call.id = p /\ call.user = u
    BY DEF NewCall
  <2>3. req' = [req EXCEPT ![r] = call]
    BY <2>1 DEF Serve
  <2> HIDE DEF call
  <2>4. QED
    BY <2>1, <2>2, <2>3 DEF MayChange, Entitled
<1>3. CASE VerifyRead(r)
  <2>1. PICK u \in Admin, p \in Property :
          /\ Listed(p)
          /\ Serve(r, [NewCall EXCEPT !.pc = "verify", !.op = "verify", !.user = u, !.id = p])
    BY <1>3 DEF VerifyRead
  <2> DEFINE call == [NewCall EXCEPT !.pc = "verify", !.op = "verify", !.user = u, !.id = p]
  <2>2. call.id = p /\ call.user = u
    BY DEF NewCall
  <2>3. req' = [req EXCEPT ![r] = call]
    BY <2>1 DEF Serve
  <2> HIDE DEF call
  <2>4. QED
    BY <2>1, <2>2, <2>3 DEF Entitled
<1>4. QED
  BY <1>1, <1>2, <1>3

LEMMA CheckedStep == ASSUME TypeInv, Checked, [Next]_vars PROVE Checked'
<1>. SUFFICES ASSUME NEW q \in Request,
                     req'[q].pc \in {"history", "recorded", "write", "remove", "verify"}
              PROVE  Entitled(req[q])'
  BY DEF Checked
<1>1. req \in [Request -> Call]
  BY DEF TypeInv, TypeOK
<1>2. ASSUME req[q].pc \in {"history", "recorded", "write", "remove", "verify"},
             req'[q].id = req[q].id, req'[q].user = req[q].user
      PROVE  Entitled(req[q])'
  <2>1. req[q].id \in Property /\ listings[req[q].id] # None /\ Entitled(req[q])
    BY <1>2, NoRowIsNone DEF Checked, TypeInv, Ready, Suspended
  <2>2. listings'[req[q].id].ownerId = listings[req[q].id].ownerId
    BY <2>1, RowsStay
  <2>3. QED
    BY <1>2, <2>1, <2>2 DEF Entitled
<1>3. CASE req'[q] = req[q]
  BY <1>2, <1>3
<1>4. ASSUME NEW r \in Request, Create(r) PROVE req'[q] = req[q]
  <2>1. PICK c \in Call : req' = [req EXCEPT ![r] = c] /\ c.pc = "written"
    BY <1>4, Creates DEF TypeInv
  <2>2. QED
    BY <1>1, <2>1
<1>5. ASSUME NEW r \in Request, UpdateRead(r) \/ RemoveRead(r) \/ VerifyRead(r), r = q
      PROVE  Entitled(req[q])'
  <2>1. PICK c : req' = [req EXCEPT ![r] = c] /\ Entitled(c)
    BY <1>5, ReadsCheck
  <2>2. req'[q] = c /\ listings' = listings
    BY <1>1, <1>5, <2>1, Reads DEF TypeInv
  <2>3. QED
    BY <2>1, <2>2 DEF Entitled
<1>6. ASSUME NEW r \in Request, UpdateRead(r) \/ RemoveRead(r) \/ VerifyRead(r) \/ Refuse(r),
             r # q \/ Refuse(r)
      PROVE  req'[q] = req[q]
  <2>1. CASE r # q
    BY <1>1, <1>6, <2>1, Reads DEF TypeInv
  <2>2. CASE Refuse(r)
    <3>1. Over("rejected").pc = "rejected"
      BY OverIsCall
    <3>2. QED
      BY <1>1, <2>2, <3>1 DEF Refuse, Serve
  <2>3. QED
    BY <1>6, <2>1, <2>2
<1>7. ASSUME NEW r \in Request,
             \/ UpdateHistory(r) \/ UpdateAnnounce(r) \/ UpdateWrite(r) \/ RemoveWrite(r)
             \/ VerifyWrite(r) \/ Finish(r) \/ Abort(r)
      PROVE  \/ req'[q] = req[q]
             \/ /\ req[q].pc \in {"history", "recorded", "write", "remove", "verify"}
                /\ req'[q].id = req[q].id /\ req'[q].user = req[q].user
  <2>1. PICK c \in Call :
          /\ req' = [req EXCEPT ![r] = c]
          /\ c.pc \in {"recorded", "write", "written", "answered", "aborted"}
          /\ c.pc \in Suspended => c.id = req[r].id /\ c.user = req[r].user
          /\ c.pc = "recorded" => req[r].pc = "history"
          /\ c.pc = "write" => req[r].pc = "recorded"
    BY <1>7, Steps
  <2>2. QED
    BY <1>1, <2>1 DEF Suspended
<1>8. QED
  BY <1>2, <1>3, <1>4, <1>5, <1>6, <1>7 DEF Next, Handle, Update, Remove, Verify, vars

LEMMA CheckedInvariant == Spec => []Checked
<1>1. Init => Checked
  BY DEF Init, Checked, NewCall
<1>2. TypeInv /\ Checked /\ [Next]_vars => Checked'
  BY CheckedStep
<1>3. QED
  BY <1>1, <1>2, TypeInvariant, PTL DEF Spec

\* Only its owner or an admin ever changes a listing.
THEOREM OwnersOnly == Spec => OnlyOwnersChange
<1>1. TypeInv /\ Checked /\ [Next]_vars =>
        [\A p \in Property : listings[p] # None /\ listings'[p] # listings[p] =>
            \E r \in Request :
               /\ req[r].pc \in {"write", "remove", "verify"} /\ req'[r].pc # req[r].pc
               /\ req[r].id = p
               /\ req[r].user = listings[p].ownerId \/ req[r].user \in Admin]_vars
  <2> SUFFICES ASSUME TypeInv, Checked, NEW r \in Request, Handle(r), NEW p \in Property,
                      listings[p] # None, listings'[p] # listings[p]
               PROVE  /\ req[r].pc \in {"write", "remove", "verify"} /\ req'[r].pc # req[r].pc
                      /\ req[r].id = p
                      /\ req[r].user = listings[p].ownerId \/ req[r].user \in Admin
    BY DEF Next
  <2>0. listings \in [Property -> Listing \cup {None}] /\ req \in [Request -> Call]
    BY DEF TypeInv, TypeOK
  <2>1. CASE Create(r)
    BY <2>0, <2>1, Creates DEF TypeInv
  <2>2. CASE UpdateWrite(r) \/ RemoveWrite(r) \/ VerifyWrite(r)
    <3>1. req[r].pc \in {"write", "remove", "verify"}
      BY <2>2 DEF UpdateWrite, RemoveWrite, VerifyWrite
    <3>2. req[r].id = p
      BY <2>0, <2>2, Writes
    <3>3. req'[r].pc # req[r].pc
      <4>1. CASE UpdateWrite(r) \/ RemoveWrite(r)
        BY <2>0, <3>1, <4>1 DEF UpdateWrite, RemoveWrite, GoTo, Call
      <4>2. CASE VerifyWrite(r)
        BY <2>0, <3>1, <4>2, OverIsCall DEF VerifyWrite, Serve
      <4>3. QED
        BY <2>2, <4>1, <4>2
    <3>4. QED
      BY <3>1, <3>2, <3>3 DEF Checked, Entitled
  <2>3. CASE ~(Create(r) \/ UpdateWrite(r) \/ RemoveWrite(r) \/ VerifyWrite(r))
    BY <2>3 DEF Handle, Update, UpdateRead, UpdateHistory, UpdateAnnounce, Remove, RemoveRead,
                Verify, VerifyRead, Refuse, Finish, Abort
  <2>4. QED
    BY <2>1, <2>2, <2>3
<1>2. QED
  BY <1>1, TypeInvariant, CheckedInvariant, PTL DEF Spec, OnlyOwnersChange

-----------------------------------------------------------------------------
(* What the events tell.                                                   *)

\* An event is about the listing of its call: a new price is announced by
\* UpdateAnnounce, a deletion by a remove() that has written.
LEMMA Emits ==
    ASSUME TypeInv, NEW r \in Request, Handle(r), events' # events
    PROVE  /\ req[r].pc \in {"recorded", "written"} /\ UNCHANGED <<listings, history, overlapped>>
           /\ req'[r].pc \in {"write", "answered"}
           /\ \A q \in Request \ {r} : req'[q] = req[q]
           /\ req'[r].pc = "write" => req'[r].id = req[r].id
           /\ \E e \in Event :
                 /\ events' = Append(events, e) /\ e.property = req[r].id
                 /\ e.name = "property.price_changed" =>
                       req[r].pc = "recorded" /\ e.src = r /\ e.price = req[r].price
                 /\ e.name = "property.deleted" => req[r].pc = "written" /\ req[r].op = "remove"
<1>1. UpdateAnnounce(r) \/ Finish(r)
  BY DEF Handle, Create, Update, UpdateRead, UpdateHistory, UpdateWrite, Remove, RemoveRead,
         RemoveWrite, Verify, VerifyRead, VerifyWrite, Refuse, Abort
<1>2. req \in [Request -> Call] /\ req[r] \in Call
  BY DEF TypeInv, TypeOK
<1>3. CASE UpdateAnnounce(r)
  <2> DEFINE e == [name |-> "property.price_changed", property |-> req[r].id,
                   price |-> req[r].price, src |-> r]
  <2>1. e \in Event /\ req[r].pc = "recorded"
    BY <1>3 DEF UpdateAnnounce, TypeInv, Ready, Suspended, Event
  <2>2. events' = Append(events, e) /\ UNCHANGED <<listings, history, overlapped>>
    BY <1>3 DEF UpdateAnnounce
  <2>3. req'[r].pc = "write" /\ req'[r].id = req[r].id /\ \A q \in Request \ {r} : req'[q] = req[q]
    BY <1>2, <1>3 DEF UpdateAnnounce, GoTo, Call
  <2>4. QED
    BY <2>1, <2>2, <2>3
<1>4. CASE Finish(r)
  <2> DEFINE e == [name |-> EventOf(req[r].op), property |-> req[r].id, price |-> None, src |-> r]
  <2>1. /\ EventOf(req[r].op) \in {"property.created", "property.updated", "property.deleted"}
        /\ EventOf(req[r].op) = "property.deleted" => req[r].op = "remove"
        /\ req[r].id \in Property /\ req[r].pc = "written"
    BY <1>4 DEF Finish, EventOf, TypeInv, Ready, Suspended
  <2>2. e \in Event
    BY <2>1 DEF Event
  <2>3. events' = Append(events, e) /\ UNCHANGED <<listings, history, overlapped>>
    BY <1>4 DEF Finish
  <2>4. req'[r].pc = "answered" /\ \A q \in Request \ {r} : req'[q] = req[q]
    BY <1>2, <1>4, OverIsCall DEF Finish, Serve
  <2>5. QED
    BY <2>1, <2>2, <2>3, <2>4
<1>5. QED
  BY <1>1, <1>3, <1>4

\* The history only grows.
LEMMA ChangesStay ==
    ASSUME TypeInv, [Next]_vars, NEW p
    PROVE  Changes(p) \subseteq Changes(p)'
<1>1. history' = history \/ \E c \in Change : history' = Append(history, c)
  <2>1. ASSUME NEW r \in Request, UpdateHistory(r)
        PROVE  \E c \in Change : history' = Append(history, c)
    <3>1. [property |-> req[r].id, oldPrice |-> req[r].old, newPrice |-> Rounded(req[r].price), src |-> r]
             \in Change
      BY <2>1, RoundedIsAmount DEF UpdateHistory, TypeInv, Ready, Suspended, Change
    <3>2. QED
      BY <2>1, <3>1 DEF UpdateHistory
  <2>2. ASSUME NEW r \in Request, Handle(r), ~UpdateHistory(r) PROVE history' = history
    BY <2>2 DEF Handle, Create, Update, UpdateRead, UpdateAnnounce, UpdateWrite, Remove, RemoveRead,
                RemoveWrite, Verify, VerifyRead, VerifyWrite, Refuse, Finish, Abort
  <2>3. QED
    BY <2>1, <2>2 DEF Next, vars
<1>2. history \in Seq(Change)
  BY DEF TypeInv, TypeOK
<1>3. \A i \in DOMAIN history : i \in DOMAIN history' /\ history'[i] = history[i]
  BY <1>1, <1>2
<1>4. QED
  BY <1>3 DEF Changes

\* The row of price_history that the call r has inserted.
InHistory(p, r, price) ==
    \E c \in Changes(p) : c.src = r /\ c.newPrice = Rounded(price)

\* What makes AnnouncedIsRecorded inductive: the row is there before the call
\* comes to announce it.
Inserted == \A r \in Request : req[r].pc = "recorded" => InHistory(req[r].id, r, req[r].price)

AnnounceInv == AnnouncedIsRecorded /\ Inserted

LEMMA AnnounceStep == ASSUME TypeInv, AnnounceInv, [Next]_vars PROVE AnnounceInv'
<1>1. \A p, r, price : InHistory(p, r, price) => InHistory(p, r, price)'
  BY ChangesStay DEF InHistory
<1>2. req \in [Request -> Call] /\ events \in Seq(Event) /\ history \in Seq(Change)
  BY DEF TypeInv, TypeOK
<1>3. AnnouncedIsRecorded'
  <2> SUFFICES ASSUME NEW i \in DOMAIN events', events'[i].name = "property.price_changed"
               PROVE  InHistory(events[i].property, events[i].src, events[i].price)'
    BY DEF AnnouncedIsRecorded, InHistory
  <2>1. CASE i \in DOMAIN events /\ events'[i] = events[i]
    <3>1. InHistory(events[i].property, events[i].src, events[i].price)
      BY <2>1 DEF AnnounceInv, AnnouncedIsRecorded, InHistory
    <3>2. QED
      BY <1>1, <2>1, <3>1
  <2>2. CASE ~(i \in DOMAIN events /\ events'[i] = events[i])
    <3>1. PICK r \in Request : Handle(r) /\ events' # events
      BY <2>2 DEF Next, vars
    <3>2. PICK e \in Event :
            /\ events' = Append(events, e) /\ e.property = req[r].id
            /\ e.name = "property.price_changed" =>
                  req[r].pc = "recorded" /\ e.src = r /\ e.price = req[r].price
      BY <3>1, Emits
    <3>3. events'[i] = e
      BY <1>2, <2>2, <3>2
    <3>4. InHistory(req[r].id, r, req[r].price)
      BY <3>2, <3>3 DEF AnnounceInv, Inserted
    <3>5. QED
      BY <1>1, <3>2, <3>3, <3>4
  <2>3. QED
    BY <2>1, <2>2
<1>4. Inserted'
  <2> SUFFICES ASSUME NEW q \in Request, req'[q].pc = "recorded"
               PROVE  InHistory(req[q].id, q, req[q].price)'
    BY DEF Inserted
  <2>1. CASE req'[q] = req[q]
    BY <1>1, <2>1 DEF AnnounceInv, Inserted
  <2>2. CASE req'[q] # req[q]
    <3>1. PICK r \in Request : Handle(r)
      BY <2>2 DEF Next, vars
    <3>2. ~Create(r)
      <4>1. ASSUME Create(r) PROVE \E c \in Call : req' = [req EXCEPT ![r] = c] /\ c.pc = "written"
        BY <4>1, Creates DEF TypeInv
      <4>2. QED
        BY <1>2, <2>2, <4>1
    <3>3. ~(UpdateRead(r) \/ RemoveRead(r) \/ VerifyRead(r) \/ Refuse(r))
      <4>1. ASSUME UpdateRead(r) \/ RemoveRead(r) \/ VerifyRead(r) \/ Refuse(r)
            PROVE  \E c \in Call : req' = [req EXCEPT ![r] = c] /\ c.pc # "recorded"
        BY <4>1, Reads DEF TypeInv
      <4>2. QED
        BY <1>2, <2>2, <4>1
    <3>4. PICK c \in Call :
            /\ req' = [req EXCEPT ![r] = c]
            /\ c.pc \in Suspended => c.id = req[r].id /\ c.price = req[r].price
            /\ c.pc = "recorded" => UpdateHistory(r) /\ req[r].pc = "history"
      BY <3>1, <3>2, <3>3, Steps DEF Handle, Update, Remove, Verify
    <3>5. q = r /\ req'[r] = c
      BY <1>2, <2>2, <3>4
    <3>6. /\ UpdateHistory(r) /\ req[r].pc = "history"
          /\ req'[r].id = req[r].id /\ req'[r].price = req[r].price
      BY <3>4, <3>5 DEF Suspended
    <3> DEFINE n == Len(history) + 1
               row == [property |-> req[r].id, oldPrice |-> req[r].old,
                       newPrice |-> Rounded(req[r].price), src |-> r]
    <3>7. n \in DOMAIN history' /\ history'[n] = row
      BY <1>2, <3>6 DEF UpdateHistory
    <3>8. row \in Changes(req[r].id)'
      BY <3>6, <3>7 DEF Changes
    <3>9. row.src = r /\ row.newPrice = Rounded(req'[r].price)
      BY <3>6
    <3>10. QED
      BY <3>5, <3>6, <3>8, <3>9 DEF InHistory
  <2>3. QED
    BY <2>1, <2>2
<1>5. QED
  BY <1>3, <1>4 DEF AnnounceInv

\* No call announces a price before its row of price_history is stored.
THEOREM AnnouncementsAreOnRecord == Spec => []AnnouncedIsRecorded
<1>1. Init => AnnounceInv
  BY DEF Init, AnnounceInv, AnnouncedIsRecorded, Inserted, NewCall
<1>2. TypeInv /\ AnnounceInv /\ [Next]_vars => AnnounceInv'
  BY AnnounceStep
<1>3. QED
  BY <1>1, <1>2, TypeInvariant, PTL DEF Spec, AnnounceInv

-----------------------------------------------------------------------------
(* Nothing of a listing after its deletion.                                *)

DeletedIn(e, p) == e.name = "property.deleted" /\ e.property = p

\* Whatever the interleaving, a deletion is told when it is done.
Gone ==
    /\ \A r \in Request : req[r].pc = "written" /\ req[r].op = "remove" =>
          listings[req[r].id].deleted
    /\ \A i \in DOMAIN events, p \in Property : DeletedIn(events[i], p) =>
          listings[p] # None /\ listings[p].deleted

\* As long as no two requests overlapped, the one that is served is about a
\* listing whose deletion has not been told.
Quiet ==
    ~overlapped =>
       /\ \A q, r \in Request : Served(q) /\ Served(r) => q = r
       /\ \A r \in Request, i \in DOMAIN events : Served(r) => ~DeletedIn(events[i], req[r].id)

QuietInv == NothingAfterDeleted /\ Gone /\ Quiet

LEMMA GoneStep == ASSUME TypeInv, Gone, [Next]_vars PROVE Gone'
<1>1. /\ req \in [Request -> Call] /\ events \in Seq(Event)
      /\ listings \in [Property -> Listing \cup {None}]
  BY DEF TypeInv, TypeOK
<1>2. ASSUME NEW q \in Request, req'[q].pc = "written", req'[q].op = "remove"
      PROVE  listings'[req'[q].id].deleted
  <2>1. CASE req'[q] = req[q]
    <3>1. req[q].id \in Property /\ listings[req[q].id] # None /\ listings[req[q].id].deleted
      BY <1>2, <2>1, NoRowIsNone DEF Gone, TypeInv, Ready, Suspended
    <3>2. QED
      BY <2>1, <3>1, RowsStay
  <2>2. CASE req'[q] # req[q]
    <3>1. PICK r \in Request : Handle(r)
      BY <2>2 DEF Next, vars
    <3>2. ~Create(r)
      <4>1. ASSUME Create(r) PROVE \E c \in Call : req' = [req EXCEPT ![r] = c] /\ c.op = "create"
        BY <4>1, Creates DEF TypeInv
      <4>2. QED
        BY <1>1, <1>2, <2>2, <4>1
    <3>3. ~(UpdateRead(r) \/ RemoveRead(r) \/ VerifyRead(r) \/ Refuse(r))
      <4>1. ASSUME UpdateRead(r) \/ RemoveRead(r) \/ VerifyRead(r) \/ Refuse(r)
            PROVE  \E c \in Call : req' = [req EXCEPT ![r] = c] /\ c.pc # "written"
        BY <4>1, Reads DEF TypeInv
      <4>2. QED
        BY <1>1, <1>2, <2>2, <4>1
    <3>4. PICK c \in Call :
            /\ req' = [req EXCEPT ![r] = c]
            /\ c.pc \in Suspended => c.id = req[r].id /\ c.op = req[r].op
            /\ c.pc = "written" => req[r].pc \in {"write", "remove"}
      BY <3>1, <3>2, <3>3, Steps DEF Handle, Update, Remove, Verify
    <3>5. /\ q = r /\ req'[r].id = req[r].id
          /\ req[r].pc = "remove" /\ req[r].id \in Property /\ listings[req[r].id] \in Listing
      BY <1>1, <1>2, <2>2, <3>4 DEF Suspended, TypeInv, Ready
    <3>6. RemoveWrite(r) \/ Abort(r)
      BY <3>1, <3>5 DEF Handle, Create, Update, UpdateRead, UpdateHistory, UpdateAnnounce,
           UpdateWrite, Remove, RemoveRead, Verify, VerifyRead, VerifyWrite, Refuse, Finish, Admitted
    <3>7. ~Abort(r)
      <4>1. ASSUME Abort(r) PROVE req'[r].pc = "aborted"
        BY <1>1, <4>1, OverIsCall DEF Abort, Serve
      <4>2. QED
        BY <1>2, <3>5, <4>1
    <3>8. QED
      BY <1>1, <3>5, <3>6, <3>7 DEF RemoveWrite, Listing
  <2>3. QED
    BY <2>1, <2>2
<1>3. ASSUME NEW i \in DOMAIN events', NEW p \in Property, DeletedIn(events'[i], p)
      PROVE  listings'[p] # None /\ listings'[p].deleted
  <2>1. listings[p] # None /\ listings[p].deleted
    <3>1. CASE i \in DOMAIN events /\ events'[i] = events[i]
      BY <1>3, <3>1 DEF Gone
    <3>2. CASE ~(i \in DOMAIN events /\ events'[i] = events[i])
      <4>1. PICK r \in Request : Handle(r) /\ events' # events
        BY <3>2 DEF Next, vars
      <4>2. PICK e \in Event :
              /\ events' = Append(events, e) /\ e.property = req[r].id
              /\ e.name = "property.deleted" => req[r].pc = "written" /\ req[r].op = "remove"
        BY <4>1, Emits
      <4>3. events'[i] = e
        BY <1>1, <3>2, <4>2
      <4>4. req[r].pc = "written" /\ req[r].op = "remove" /\ req[r].id = p
        BY <1>3, <4>2, <4>3 DEF DeletedIn
      <4>5. QED
        BY <4>4, NoRowIsNone DEF Gone, TypeInv, Ready, Suspended
    <3>3. QED
      BY <3>1, <3>2
  <2>2. QED
    BY <2>1, RowsStay, NoRowIsNone
<1>4. QED
  BY <1>2, <1>3 DEF Gone

\* A request that starts while none is served is about a listing that is there.
LEMMA Starts ==
    ASSUME TypeInv, Gone, NEW r \in Request, Handle(r), ~Served(r), ~overlapped'
    PROVE  /\ ~overlapped /\ \A q \in Request : ~Served(q)
           /\ events' = events /\ \A q \in Request \ {r} : req'[q] = req[q]
           /\ Served(r)' => \A i \in DOMAIN events : ~DeletedIn(events[i], req'[r].id)
<1>1. Create(r) \/ UpdateRead(r) \/ RemoveRead(r) \/ VerifyRead(r) \/ Refuse(r)
  BY DEF Handle, Update, UpdateHistory, UpdateAnnounce, UpdateWrite, Remove, RemoveWrite,
         Verify, VerifyWrite, Finish, Abort, Served, Suspended
<1>2. Admitted(r) /\ events' = events
  BY <1>1 DEF Create, UpdateRead, RemoveRead, VerifyRead, Refuse
<1>3. ~overlapped /\ \A q \in Request : ~Served(q)
  BY <1>2 DEF Admitted
<1>4. req \in [Request -> Call]
  BY DEF TypeInv, TypeOK
<1>5. CASE Create(r)
  <2>1. PICK p \in Property, call \in Call :
          /\ listings[p] = None /\ req' = [req EXCEPT ![r] = call] /\ call.id = p
    BY <1>5, Creates DEF TypeInv
  <2>2. req'[r] = call /\ \A q \in Request \ {r} : req'[q] = req[q]
    BY <1>4, <2>1
  <2>3. QED
    BY <1>2, <1>3, <2>1, <2>2 DEF Gone
<1>6. CASE UpdateRead(r) \/ RemoveRead(r) \/ VerifyRead(r)
  <2>1. PICK c : req' = [req EXCEPT ![r] = c] /\ c.id \in Property /\ Listed(c.id)
    BY <1>6, ReadsCheck
  <2>2. req'[r] = c /\ \A q \in Request \ {r} : req'[q] = req[q]
    BY <1>4, <2>1
  <2>3. QED
    BY <1>2, <1>3, <2>1, <2>2 DEF Gone, Listed
<1>7. CASE Refuse(r)
  <2>1. req' = [req EXCEPT ![r] = Over("rejected")] /\ Over("rejected").pc = "rejected"
    BY <1>7, OverIsCall DEF Refuse, Serve
  <2>2. req'[r].pc = "rejected" /\ \A q \in Request \ {r} : req'[q] = req[q]
    BY <1>4, <2>1
  <2>3. ~Served(r)'
    BY <2>2 DEF Served, Suspended
  <2>4. QED
    BY <1>2, <1>3, <2>2, <2>3
<1>8. QED
  BY <1>1, <1>5, <1>6, <1>7

\* A request that goes on keeps its listing.
LEMMA GoesOn ==
    ASSUME TypeInv, NEW r \in Request, Handle(r), Served(r)
    PROVE  /\ overlapped' = overlapped /\ \A q \in Request \ {r} : req'[q] = req[q]
           /\ Served(r)' => req'[r].id = req[r].id
<1>1. \/ UpdateHistory(r) \/ UpdateAnnounce(r) \/ UpdateWrite(r) \/ RemoveWrite(r)
      \/ VerifyWrite(r) \/ Finish(r) \/ Abort(r)
  BY DEF Handle, Create, Update, UpdateRead, Remove, RemoveRead, Verify, VerifyRead, Refuse,
         Admitted, Served, Suspended
<1>2. PICK c \in Call : req' = [req EXCEPT ![r] = c] /\ (c.pc \in Suspended => c.id = req[r].id)
  BY <1>1, Steps
<1>3. req'[r] = c /\ \A q \in Request \ {r} : req'[q] = req[q]
  BY <1>2 DEF TypeInv, TypeOK
<1>4. overlapped' = overlapped
  BY <1>1 DEF UpdateHistory, UpdateAnnounce, UpdateWrite, RemoveWrite, VerifyWrite, Finish, Abort
<1>5. QED
  BY <1>2, <1>3, <1>4 DEF Served

LEMMA QuietStep == ASSUME TypeInv, QuietInv, [Next]_vars PROVE QuietInv'
<1>1. Gone /\ Quiet /\ NothingAfterDeleted /\ Gone' /\ events \in Seq(Event)
  BY GoneStep DEF QuietInv, TypeInv, TypeOK
<1>2. CASE UNCHANGED vars
  BY <1>1, <1>2 DEF vars, QuietInv, Quiet, NothingAfterDeleted, Served
<1>3. ASSUME NEW r \in Request, Handle(r) PROVE Quiet' /\ NothingAfterDeleted'
  <2>1. CASE overlapped'
    BY <2>1 DEF Quiet, NothingAfterDeleted
  <2>2. CASE ~overlapped' /\ ~Served(r)
    <3>1. /\ ~overlapped /\ \A q \in Request : ~Served(q)
          /\ events' = events /\ \A q \in Request \ {r} : req'[q] = req[q]
          /\ Served(r)' => \A i \in DOMAIN events : ~DeletedIn(events[i], req'[r].id)
      BY <1>1, <1>3, <2>2, Starts
    <3>2. \A q \in Request : Served(q)' => q = r
      BY <3>1 DEF Served
    <3>3. QED
      BY <1>1, <3>1, <3>2 DEF Quiet, NothingAfterDeleted
  <2>3. CASE ~overlapped' /\ Served(r)
    <3>1. /\ ~overlapped /\ \A q \in Request \ {r} : req'[q] = req[q]
          /\ Served(r)' => req'[r].id = req[r].id
      BY <1>3, <2>3, GoesOn
    <3>2. /\ \A q \in Request : Served(q) => q = r
          /\ \A i \in DOMAIN events : ~DeletedIn(events[i], req[r].id)
      BY <1>1, <2>3, <3>1 DEF Quiet
    <3>3. \A q \in Request : Served(q)' => q = r
      BY <3>1, <3>2 DEF Served
    <3>4. CASE events' = events
      BY <1>1, <3>1, <3>2, <3>3, <3>4 DEF Quiet, NothingAfterDeleted
    <3>5. CASE events' # events
      <4>1. PICK e \in Event :
              /\ events' = Append(events, e) /\ e.property = req[r].id
              /\ e.name = "property.deleted" => req[r].pc = "written"
        BY <1>3, <3>5, Emits
      <4>2. /\ req[r].pc \in {"recorded", "written"} /\ req'[r].pc \in {"write", "answered"}
        BY <1>3, <3>5, Emits
      <4>3. \A i \in DOMAIN events' : \/ i \in DOMAIN events /\ events'[i] = events[i]
                                      \/ i = Len(events) + 1 /\ events'[i] = e
        BY <1>1, <4>1
      <4>4. NothingAfterDeleted'
        <5> SUFFICES ASSUME NEW i \in DOMAIN events', events'[i].name = "property.deleted",
                            NEW j \in DOMAIN events', j > i
                     PROVE  events'[j].property # events'[i].property
          BY DEF NothingAfterDeleted
        <5>1. i \in DOMAIN events /\ events'[i] = events[i]
          BY <1>1, <4>1, <4>3
        <5>2. CASE j \in DOMAIN events /\ events'[j] = events[j]
          BY <1>1, <3>1, <5>1, <5>2 DEF NothingAfterDeleted
        <5>3. CASE events'[j] = e
          BY <3>2, <4>1, <5>1, <5>3 DEF DeletedIn
        <5>4. QED
          BY <4>3, <5>2, <5>3
      <4>5. Quiet'
        <5>1. ASSUME Served(r)' PROVE e.name # "property.deleted"
          <6>1. UpdateAnnounce(r) \/ Finish(r)
            BY <1>3, <3>5 DEF Handle, Create, Update, UpdateRead, UpdateHistory, UpdateWrite,
                 Remove, RemoveRead, RemoveWrite, Verify, VerifyRead, VerifyWrite, Refuse, Abort
          <6>2. ~Finish(r)
            <7>1. ASSUME Finish(r) PROVE req'[r].pc = "answered"
              BY <7>1, OverIsCall DEF Finish, Serve, TypeInv, TypeOK
            <7>2. QED
              BY <5>1, <7>1 DEF Served, Suspended
          <6>3. req[r].pc = "recorded"
            BY <6>1, <6>2 DEF UpdateAnnounce
          <6>4. QED
            BY <4>1, <6>3
        <5>2. ASSUME Served(r)', NEW i \in DOMAIN events' PROVE ~DeletedIn(events'[i], req'[r].id)
          BY <3>1, <3>2, <4>3, <5>1, <5>2 DEF DeletedIn
        <5>3. QED
          BY <3>3, <5>2 DEF Quiet
      <4>6. QED
        BY <4>4, <4>5
    <3>6. QED
      BY <3>4, <3>5
  <2>4. QED
    BY <2>1, <2>2, <2>3
<1>4. QED
  BY <1>1, <1>2, <1>3 DEF Next, QuietInv

LEMMA QuietInvariant == Spec => []QuietInv
<1>1. Init => QuietInv
  BY DEF Init, QuietInv, NothingAfterDeleted, Gone, Quiet, Served, Suspended, NewCall
<1>2. TypeInv /\ QuietInv /\ [Next]_vars => QuietInv'
  BY QuietStep
<1>3. QED
  BY <1>1, <1>2, TypeInvariant, PTL DEF Spec

\* A subscriber hears nothing of a listing after its deletion, as long as no
\* two requests overlapped.
THEOREM DeletionIsTheLastWord == Spec => []NothingAfterDeleted
BY QuietInvariant, PTL DEF QuietInv

-----------------------------------------------------------------------------
(* The history of a listing is a chain, of calls that neither overlapped   *)
(* nor failed.                                                             *)

\* The price the history leads to, or the listing was created with, is c.
Told(p, c) ==
    /\ Rows(p) = {} => c = opened[p]
    /\ \A i \in DOMAIN history : Last(i, Rows(p)) => history[i].newPrice = c

Linked(p) ==
    \A i \in DOMAIN history :
       /\ \A j \in DOMAIN history : NextTo(i, j, Rows(p)) => history[i].newPrice = history[j].oldPrice
       /\ First(i, Rows(p)) => history[i].oldPrice = opened[p]

\* An update whose price the history has and the listing may not.
ToWrite(r) == req[r].pc \in {"recorded", "write"} /\ req[r].price # None

OfListings == \A i \in DOMAIN history : listings[history[i].property] # None

\* The history leads to the price of the listing, except between the insert
\* of an update and its write, when it leads to the price to be written.
InStep ==
    /\ \A p \in Property : listings[p] # None =>
          /\ Linked(p)
          /\ (\A r \in Request : ToWrite(r) => req[r].id # p) => Told(p, listings[p].price)
    /\ \A r \in Request : ToWrite(r) => Told(req[r].id, Rounded(req[r].price))
    /\ \A r \in Request : req[r].pc = "history" => req[r].old = listings[req[r].id].price

ChainInv == OfListings /\ (Undisturbed => InStep)

LEMMA HistoryStays ==
    ASSUME NEW p \in Property, history' = history, opened'[p] = opened[p]
    PROVE  /\ Linked(p) => Linked(p)'
           /\ \A c : Told(p, c) => Told(p, c)'
BY DEF Linked, Told, Rows, First, Last, NextTo

\* A row of the history of p that starts where the history led to makes it
\* lead to its new price; a row of another listing makes no difference.
LEMMA HistoryGrows ==
    ASSUME TypeInv, NEW p \in Property, NEW row \in Change,
           history' = Append(history, row), opened' = opened, Linked(p)
    PROVE  /\ row.property # p => Linked(p)' /\ \A c : Told(p, c) => Told(p, c)'
           /\ row.property = p /\ Told(p, row.oldPrice) => Linked(p)' /\ Told(p, row.newPrice)'
<1> DEFINE n == Len(history) + 1
<1>1. /\ DOMAIN history' = DOMAIN history \cup {n} /\ history'[n] = row
      /\ \A i \in DOMAIN history : i \in Nat /\ i < n /\ history'[i] = history[i]
      /\ n \in Nat
  BY DEF TypeInv, TypeOK
<1>2. Rows(p) \subseteq DOMAIN history
  BY DEF Rows
<1> HIDE DEF n
<1>3. ASSUME row.property # p PROVE Linked(p)' /\ \A c : Told(p, c) => Told(p, c)'
  <2>1. Rows(p)' = Rows(p)
    BY <1>1, <1>3 DEF Rows
  <2>2. Linked(p)'
    BY <1>1, <1>2, <2>1 DEF Linked, NextTo, First
  <2>3. \A c : Told(p, c) => Told(p, c)'
    BY <1>1, <1>2, <2>1 DEF Told, Last
  <2>4. QED
    BY <2>2, <2>3
<1>4. ASSUME row.property = p, Told(p, row.oldPrice) PROVE Linked(p)' /\ Told(p, row.newPrice)'
  <2>1. Rows(p)' = Rows(p) \cup {n}
    BY <1>1, <1>4 DEF Rows
  <2>2. Told(p, row.newPrice)'
    <3>1. ASSUME NEW i \in DOMAIN history', Last(i, Rows(p)') PROVE i = n
      BY <1>1, <2>1, <3>1 DEF Last
    <3>2. QED
      BY <1>1, <2>1, <3>1 DEF Told
  <2>3. ASSUME NEW i \in DOMAIN history', NEW j \in DOMAIN history', NextTo(i, j, Rows(p)')
        PROVE  history'[i].newPrice = history'[j].oldPrice
    <3>1. i \in DOMAIN history /\ i < j
      BY <1>1, <2>3 DEF NextTo
    <3>2. CASE j = n
      <4>1. Last(i, Rows(p))
        BY <1>1, <1>2, <2>1, <2>3, <3>1, <3>2 DEF Last, NextTo
      <4>2. QED
        BY <1>1, <1>4, <3>1, <3>2, <4>1 DEF Told
    <3>3. CASE j # n
      <4>1. j \in DOMAIN history /\ NextTo(i, j, Rows(p))
        BY <1>1, <2>1, <2>3, <3>1, <3>3 DEF NextTo
      <4>2. QED
        BY <1>1, <3>1, <4>1 DEF Linked
    <3>4. QED
      BY <3>2, <3>3
  <2>4. ASSUME NEW i \in DOMAIN history', First(i, Rows(p)')
        PROVE  history'[i].oldPrice = opened'[p]
    <3>1. CASE i = n
      <4>1. Rows(p) = {}
        BY <1>1, <1>2, <2>1, <2>4, <3>1 DEF First
      <4>2. QED
        BY <1>1, <1>4, <3>1, <4>1 DEF Told
    <3>2. CASE i # n
      BY <1>1, <2>1, <2>4, <3>2 DEF First, Linked
    <3>3. QED
      BY <3>1, <3>2
  <2>5. QED
    BY <2>2, <2>3, <2>4 DEF Linked
<1>5. QED
  BY <1>3, <1>4

LEMMA OfListingsStep == ASSUME TypeInv, OfListings, [Next]_vars PROVE OfListings'
<1>1. history \in Seq(Change) /\ history' \in Seq(Change)
  BY TypeStep DEF TypeInv, TypeOK
<1>2. history' = history \/ \E r \in Request :
        /\ UpdateHistory(r)
        /\ history' = Append(history, [property |-> req[r].id, oldPrice |-> req[r].old,
                                       newPrice |-> Rounded(req[r].price), src |-> r])
  BY DEF Next, vars, Handle, Create, Update, UpdateRead, UpdateHistory, UpdateAnnounce, UpdateWrite,
         Remove, RemoveRead, RemoveWrite, Verify, VerifyRead, VerifyWrite, Refuse, Finish, Abort
<1> SUFFICES ASSUME NEW i \in DOMAIN history' PROVE listings'[history'[i].property] # None
  BY DEF OfListings
<1>3. history'[i].property \in Property
  <2>1. history'[i] \in Change
    BY <1>1
  <2>2. QED
    BY <2>1 DEF Change
<1>4. listings[history'[i].property] # None
  <2>1. CASE history' = history
    BY <2>1 DEF OfListings
  <2>2. CASE history' # history
    <3>1. PICK r \in Request :
            /\ UpdateHistory(r)
            /\ history' = Append(history, [property |-> req[r].id, oldPrice |-> req[r].old,
                                           newPrice |-> Rounded(req[r].price), src |-> r])
      BY <1>2, <2>2
    <3>2. req[r].id \in Property /\ listings[req[r].id] # None
      BY <3>1, NoRowIsNone DEF UpdateHistory, TypeInv, Ready, Suspended
    <3>3. \/ i \in DOMAIN history /\ history'[i] = history[i]
          \/ history'[i].property = req[r].id
      BY <1>1, <3>1
    <3>4. QED
      BY <3>2, <3>3 DEF OfListings
  <2>3. QED
    BY <2>1, <2>2
<1>5. QED
  BY <1>3, <1>4, RowsStay, NoRowIsNone

\* A request is admitted by one of its reads, or an insert, and goes on with the others.
LEMMA Phases ==
    ASSUME NEW r \in Request, Handle(r)
    PROVE  IF Served(r)
           THEN \/ UpdateHistory(r) \/ UpdateAnnounce(r) \/ UpdateWrite(r) \/ RemoveWrite(r)
                \/ VerifyWrite(r) \/ Finish(r) \/ Abort(r)
           ELSE /\ Admitted(r)
                /\ Create(r) \/ UpdateRead(r) \/ RemoveRead(r) \/ VerifyRead(r) \/ Refuse(r)
<1>1. CASE Create(r) \/ UpdateRead(r) \/ RemoveRead(r) \/ VerifyRead(r) \/ Refuse(r)
  <2>1. Admitted(r)
    BY <1>1 DEF Create, UpdateRead, RemoveRead, VerifyRead, Refuse
  <2>2. ~Served(r)
    BY <2>1 DEF Admitted, Served, Suspended
  <2>3. QED
    BY <1>1, <2>1, <2>2
<1>2. CASE \/ UpdateHistory(r) \/ UpdateAnnounce(r) \/ UpdateWrite(r) \/ RemoveWrite(r)
           \/ VerifyWrite(r) \/ Finish(r) \/ Abort(r)
  <2>1. Served(r)
    BY <1>2 DEF UpdateHistory, UpdateAnnounce, UpdateWrite, RemoveWrite, VerifyWrite, Finish, Abort,
                Served, Suspended
  <2>2. QED
    BY <1>2, <2>1
<1>3. QED
  BY <1>1, <1>2 DEF Handle, Update, Remove, Verify

\* An aborted request stays so: what is undisturbed was so before.
LEMMA Undisturbs ==
    ASSUME TypeInv, Gone, NEW r \in Request, Handle(r), Undisturbed'
    PROVE  Undisturbed /\ ~Abort(r)
<1>1. req \in [Request -> Call] /\ ~overlapped'
  BY DEF TypeInv, TypeOK, Undisturbed
<1>2. ~overlapped /\ req[r].pc # "aborted" /\ \A q \in Request \ {r} : req'[q] = req[q]
  <2>1. CASE Served(r)
    BY <1>1, <2>1, GoesOn DEF Served, Suspended
  <2>2. CASE ~Served(r)
    <3>1. req[r].pc = "new"
      BY <2>2, Phases DEF Admitted
    <3>2. QED
      BY <1>1, <2>2, <3>1, Starts
  <2>3. QED
    BY <2>1, <2>2
<1>3. ~Abort(r)
  <2>1. ASSUME Abort(r) PROVE req'[r].pc = "aborted"
    BY <1>1, <2>1, OverIsCall DEF Abort, Serve
  <2>2. QED
    BY <2>1 DEF Undisturbed
<1>4. QED
  BY <1>2, <1>3 DEF Undisturbed

\* A request that starts, while no other is served.
LEMMA InStepStarts ==
    ASSUME TypeInv, OfListings, InStep, NEW r \in Request, \A q \in Request : ~Served(q),
           Create(r) \/ UpdateRead(r) \/ RemoveRead(r) \/ VerifyRead(r) \/ Refuse(r)
    PROVE  InStep'
<1>1. /\ req \in [Request -> Call] /\ listings \in [Property -> Listing \cup {None}]
      /\ opened \in [Property -> Amount \cup {None}] /\ history \in Seq(Change)
  BY DEF TypeInv, TypeOK
<1>2. \A q \in Request : ~ToWrite(q) /\ req[q].pc # "history"
  BY DEF Served, Suspended, ToWrite
<1>3. \A p \in Property : listings[p] # None => Linked(p) /\ Told(p, listings[p].price)
  BY <1>2 DEF InStep
<1>4. CASE Create(r)
  <2>1. PICK p \in Property, row \in Listing, call \in Call :
          /\ listings[p] = None /\ listings' = [listings EXCEPT ![p] = row]
          /\ opened' = [opened EXCEPT ![p] = row.price]
          /\ req' = [req EXCEPT ![r] = call]
          /\ call.pc = "written"
    BY <1>4, Creates DEF TypeInv
  <2>2. history' = history
    BY <1>4, Creates DEF TypeInv
  <2>3. \A q \in Request : ~ToWrite(q)' /\ req'[q].pc # "history"
    BY <1>1, <1>2, <2>1 DEF ToWrite
  <2>4. /\ listings'[p] = row /\ opened'[p] = row.price
        /\ \A q \in Property \ {p} : listings'[q] = listings[q] /\ opened'[q] = opened[q]
    BY <1>1, <2>1
  <2>5. Rows(p)' = {}
    BY <2>1, <2>2 DEF OfListings, Rows
  <2>6. Linked(p)' /\ Told(p, listings[p].price)'
    BY <2>4, <2>5 DEF Linked, Told, NextTo, First, Last
  <2>7. ASSUME NEW q \in Property \ {p}, listings'[q] # None
        PROVE  Linked(q)' /\ Told(q, listings[q].price)'
    BY <1>3, <2>2, <2>4, <2>7, HistoryStays
  <2>8. QED
    BY <2>3, <2>6, <2>7 DEF InStep
<1>5. CASE ~Create(r)
  <2>1. PICK c \in Call :
          /\ req' = [req EXCEPT ![r] = c]
          /\ c.pc \in {"history", "write", "remove", "verify", "rejected"}
          /\ c.pc \in {"history", "write", "remove", "verify"} =>
                c.id \in Property /\ listings[c.id] \in Listing
          /\ c.pc = "write" => c.price \in {None, listings[c.id].price}
          /\ c.pc = "history" => c.old = listings[c.id].price
    BY <1>5, Reads DEF TypeInv
  <2>2. UNCHANGED <<listings, history, opened>>
    BY <1>5, Reads DEF TypeInv
  <2>3. /\ \A q \in Request \ {r} : req'[q].pc # "history" /\ ~ToWrite(q)'
        /\ req'[r] = c
    BY <1>1, <1>2, <2>1 DEF ToWrite
  <2>4. \A p \in Property : listings[p] # None => Linked(p)' /\ Told(p, listings[p].price)'
    BY <1>3, <2>2, HistoryStays
  <2>5. ASSUME ToWrite(r)' PROVE Told(req[r].id, Rounded(req[r].price))'
    <3>1. c.pc = "write" /\ c.price = listings[c.id].price /\ c.id \in Property /\ listings[c.id] # None
      BY <2>1, <2>3, <2>5, NoRowIsNone DEF ToWrite
    <3>2. QED
      <4>1. Rounded(c.price) = c.price
        BY <2>1, <2>3, <2>5, <3>1, RoundedKeeps DEF ToWrite, Listing
      <4>2. QED
        BY <2>2, <2>3, <2>4, <3>1, <4>1
  <2>6. QED
    BY <2>1, <2>2, <2>3, <2>4, <2>5 DEF InStep
<1>6. QED
  BY <1>4, <1>5

\* A request that goes on, the only one that is served.
LEMMA InStepGoesOn ==
    ASSUME TypeInv, InStep, NEW r \in Request, \A q \in Request \ {r} : ~Served(q),
           \/ UpdateHistory(r) \/ UpdateAnnounce(r) \/ UpdateWrite(r) \/ RemoveWrite(r)
           \/ VerifyWrite(r) \/ Finish(r)
    PROVE  InStep'
<1>1. /\ req \in [Request -> Call] /\ req[r] \in Call
      /\ listings \in [Property -> Listing \cup {None}]
      /\ req[r].id \in Property /\ listings[req[r].id] \in Listing /\ opened' = opened
  BY Steps DEF TypeInv, TypeOK, Ready
<1>2. \A q \in Request \ {r} : ~ToWrite(q) /\ req[q].pc # "history"
  BY DEF Served, Suspended, ToWrite
<1>3. \A q \in Request \ {r} : req'[q] = req[q]
  BY <1>1, Steps
<1>4. \A q \in Request \ {r} : ~ToWrite(q)' /\ req'[q].pc # "history"
  BY <1>2, <1>3 DEF ToWrite
<1> PICK p \in Property : p = req[r].id
  BY <1>1
<1>5. \A q \in Property : listings[q] # None => Linked(q)
  BY DEF InStep
<1>6. \A q \in Property \ {p} : listings[q] # None => Told(q, listings[q].price)
  BY <1>2 DEF InStep
<1>7. listings[p] # None
  BY <1>1, NoRowIsNone
<1>8. CASE UpdateHistory(r)
  <2>1. /\ listings' = listings
        /\ req[r].pc = "history" /\ req' = [req EXCEPT ![r].pc = "recorded"]
    BY <1>8 DEF UpdateHistory, GoTo
  <2>2. req[r].price \in Price /\ req[r].old \in Amount
    BY <2>1 DEF TypeInv, Ready
  <2>3. PICK row \in Change :
          /\ history' = Append(history, row)
          /\ row.property = p /\ row.oldPrice = req[r].old /\ row.newPrice = Rounded(req[r].price)
    <3> DEFINE change == [property |-> req[r].id, oldPrice |-> req[r].old,
                          newPrice |-> Rounded(req[r].price), src |-> r]
    <3>1. change \in Change
      BY <1>1, <2>2, RoundedIsAmount DEF Change
    <3>2. QED
      BY <1>8, <3>1 DEF UpdateHistory
  <2>4. Told(p, req[r].old)
    BY <1>2, <1>7, <1>1, <2>1 DEF InStep, ToWrite
  <2>5. Linked(p)' /\ Told(p, row.newPrice)'
    BY <1>1, <1>5, <1>7, <2>1, <2>3, <2>4, HistoryGrows
  <2>6. ASSUME NEW q \in Property \ {p}, listings[q] # None
        PROVE  Linked(q)' /\ Told(q, listings[q].price)'
    <3>1. Linked(q)' /\ \A c : Told(q, c) => Told(q, c)'
      BY <1>1, <1>5, <2>3, <2>6, HistoryGrows
    <3>2. QED
      BY <1>6, <2>1, <2>6, <3>1
  <2>7. req'[r].pc = "recorded" /\ req'[r].id = p /\ req'[r].price = req[r].price /\ ToWrite(r)'
    <3>1. req'[r].pc = "recorded" /\ req'[r].id = p /\ req'[r].price = req[r].price
      BY <1>1, <2>1 DEF Call
    <3>2. QED
      BY <2>2, <3>1, ListingsAssumption DEF ToWrite
  <2>8. QED
    <3>1. Told(req[r].id, Rounded(req[r].price))'
      BY <2>3, <2>5, <2>7
    <3>2. ASSUME NEW q \in Property, listings'[q] # None
          PROVE  /\ Linked(q)'
                 /\ q # p => Told(q, listings[q].price)'
      BY <2>1, <2>5, <2>6, <3>2
    <3>3. QED
      BY <1>4, <2>7, <3>1, <3>2 DEF InStep
<1>9. CASE ~UpdateHistory(r)
  <2>1. history' = history
    BY <1>9 DEF UpdateAnnounce, UpdateWrite, RemoveWrite, VerifyWrite, Finish
  <2>2. \A q \in Property : /\ Linked(q) => Linked(q)'
                            /\ \A c : Told(q, c) => Told(q, c)'
    BY <1>1, <2>1, HistoryStays
  <2>3. req'[r].pc # "history" /\ req[r].pc # "history"
    <3>1. req[r].pc # "history"
      BY <1>9 DEF UpdateAnnounce, UpdateWrite, RemoveWrite, VerifyWrite, Finish
    <3>2. PICK c \in Call : req' = [req EXCEPT ![r] = c] /\ c.pc # "history"
      BY Steps
    <3>3. QED
      BY <1>1, <3>1, <3>2
  <2>4. CASE UpdateAnnounce(r)
    <3>1. /\ listings' = listings /\ req[r].pc = "recorded" /\ req'[r].pc = "write"
          /\ req'[r].id = p /\ req'[r].price = req[r].price
      BY <1>1, <2>4 DEF UpdateAnnounce, GoTo, Call
    <3>2. ToWrite(r)' /\ ToWrite(r)
      BY <3>1, ListingsAssumption DEF ToWrite, TypeInv, Ready
    <3>3. Told(p, Rounded(req[r].price))'
      BY <1>1, <2>2, <3>1, <3>2 DEF InStep
    <3>4. QED
      BY <1>4, <1>5, <1>6, <2>2, <2>3, <3>1, <3>2, <3>3 DEF InStep
  <2>5. CASE ~UpdateAnnounce(r)
    <3>1. ~ToWrite(r)'
      <4>1. PICK c \in Call :
              /\ req' = [req EXCEPT ![r] = c]
              /\ c.pc \in {"recorded", "write", "written", "answered", "aborted"}
              /\ c.pc = "recorded" => UpdateHistory(r)
              /\ c.pc = "write" => req[r].pc = "recorded"
        BY Steps
      <4>2. req[r].pc # "recorded"
        BY <1>9, <2>5 DEF UpdateWrite, RemoveWrite, VerifyWrite, Finish
      <4>3. QED
        BY <1>1, <1>9, <4>1, <4>2 DEF ToWrite
    <3>2. \A q \in Property \ {p} : listings'[q] = listings[q]
      BY <1>1, <1>9, <2>5 DEF UpdateWrite, RemoveWrite, VerifyWrite, Finish
    <3>3. Told(p, listings'[p].price)
      <4>1. CASE UpdateWrite(r)
        <5>1. req[r].pc = "write" /\ listings'[p].price = IF req[r].price = None THEN listings[p].price
                                                           ELSE Rounded(req[r].price)
          BY <1>1, <4>1 DEF UpdateWrite, Listing
        <5>2. CASE req[r].price = None
          BY <1>1, <1>2, <1>7, <5>1, <5>2 DEF InStep, ToWrite
        <5>3. CASE req[r].price # None
          BY <5>1, <5>3 DEF InStep, ToWrite
        <5>4. QED
          BY <5>2, <5>3
      <4>2. CASE ~UpdateWrite(r)
        <5>1. listings'[p].price = listings[p].price
          BY <1>1, <1>9, <2>5, <4>2 DEF RemoveWrite, VerifyWrite, Finish, Listing
        <5>2. ~ToWrite(r)
          BY <1>9, <2>5, <4>2 DEF RemoveWrite, VerifyWrite, Finish, ToWrite
        <5>3. QED
          BY <1>1, <1>2, <1>7, <5>1, <5>2 DEF InStep
      <4>3. QED
        BY <4>1, <4>2
    <3>4. Told(p, listings[p].price)'
      BY <2>2, <3>3
    <3>5. ASSUME NEW q \in Property, listings'[q] # None PROVE Linked(q)' /\ Told(q, listings[q].price)'
      BY <1>5, <1>6, <1>7, <2>2, <3>2, <3>4, <3>5
    <3>6. QED
      BY <1>4, <2>3, <3>1, <3>5 DEF InStep
  <2>6. QED
    BY <2>4, <2>5
<1>10. QED
  BY <1>8, <1>9

LEMMA ChainStep == ASSUME TypeInv, QuietInv, ChainInv, [Next]_vars PROVE ChainInv'
<1>1. OfListings'
  BY OfListingsStep DEF ChainInv
<1>2. CASE UNCHANGED vars
  BY <1>2 DEF vars, ChainInv, OfListings, Undisturbed, InStep, ToWrite, Linked, Told, Rows, First,
              Last, NextTo
<1>3. ASSUME NEW r \in Request, Handle(r), Undisturbed' PROVE InStep'
  <2>1. Undisturbed /\ ~Abort(r) /\ InStep /\ ~overlapped /\ ~overlapped'
    BY <1>3, Undisturbs DEF ChainInv, Undisturbed, QuietInv
  <2>2. CASE ~Served(r)
    <3>1. Create(r) \/ UpdateRead(r) \/ RemoveRead(r) \/ VerifyRead(r) \/ Refuse(r)
      BY <1>3, <2>2, Phases
    <3>2. \A q \in Request : ~Served(q)
      BY <1>3, <2>1, <2>2, Starts DEF QuietInv
    <3>3. QED
      BY <2>1, <3>1, <3>2, InStepStarts DEF ChainInv
  <2>3. CASE Served(r)
    <3>1. \/ UpdateHistory(r) \/ UpdateAnnounce(r) \/ UpdateWrite(r) \/ RemoveWrite(r)
          \/ VerifyWrite(r) \/ Finish(r)
      BY <1>3, <2>1, <2>3, Phases
    <3>2. \A q \in Request \ {r} : ~Served(q)
      BY <2>1, <2>3 DEF QuietInv, Quiet
    <3>3. QED
      BY <2>1, <3>1, <3>2, InStepGoesOn
  <2>4. QED
    BY <2>2, <2>3
<1>4. QED
  BY <1>1, <1>2, <1>3 DEF Next, ChainInv

\* Calls that neither overlap nor fail leave a history in which each change
\* starts where the one before led to, and the last leads to the price.
THEOREM HistoryAddsUp == Spec => []HistoryIsChain
<1>1. Init => ChainInv
  <2> SUFFICES ASSUME Init PROVE ChainInv
    OBVIOUS
  <2>1. DOMAIN history = {} /\ \A r \in Request : req[r].pc = "new"
    BY DEF Init, NewCall
  <2>2. \A p \in Property : listings[p] # None => opened[p] = listings[p].price
    BY DEF Init
  <2>3. QED
    BY <2>1, <2>2 DEF ChainInv, OfListings, InStep, Linked, Told, ToWrite, Rows, Last
<1>2. TypeInv /\ QuietInv /\ ChainInv /\ [Next]_vars => ChainInv'
  BY ChainStep
<1>3. ChainInv => HistoryIsChain
  <2> SUFFICES ASSUME ChainInv, Undisturbed, NEW p \in Property, listings[p] # None
               PROVE  Linked(p) /\ (Settled => Told(p, listings[p].price))
    BY DEF HistoryIsChain, Linked, Told
  <2>1. Settled => \A r \in Request : ~ToWrite(r)
    BY DEF Settled, Served, Suspended, ToWrite
  <2>2. QED
    BY <2>1 DEF ChainInv, InStep
<1>4. QED
  BY <1>1, <1>2, <1>3, TypeInvariant, QuietInvariant, PTL DEF Spec
=============================================================================
