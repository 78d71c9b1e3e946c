--------------------------- MODULE SavedSearches ---------------------------
(***************************************************************************)
(* SavedSearchService (src/modules/shortlist/saved-search.service.ts): the *)
(* searches a user keeps, and the switch of their alerts.  toggleAlert()   *)
(* reads the switch and writes its negation in a second statement.         *)
(***************************************************************************)
CONSTANTS
    Ask,      \* the calls of a behaviour, each served once
    SavedId,  \* uuids the database hands out to rows of "saved_searches"
    Seeker,   \* users
    Nothing   \* null, undefined

ASSUME SavedAssumption == Nothing \notin SavedId \cup Seeker \cup BOOLEAN

VARIABLES
    saved,    \* table "saved_searches": a row, or Nothing for an id not handed out or deleted
    used,     \* the ids ever handed out
    ask,      \* what each call is about and where it is suspended
    wanted,   \* history: the switch as the answered calls left it, in their order
    crossed   \* history: the rows of which one toggle read while another was to write

savedVars == <<saved, used, ask, wanted, crossed>>

SavedSearch == [userId: Seeker, alertEnabled: BOOLEAN]

ASSUME NoSavedIsNothing == Nothing \notin SavedSearch

AskPending == {"toggle", "remove"}

AskCall == [pc: {"new", "answered", "refused", "failed"} \cup AskPending,
            id: SavedId \cup {Nothing}, flag: BOOLEAN]

NewAsk == [pc |-> "new", id |-> Nothing, flag |-> FALSE]

AskOver(pc) == [NewAsk EXCEPT !.pc = pc]

AskServe(k, c) == ask' = [ask EXCEPT ![k] = c]

AskDone(k, pc) == AskServe(k, AskOver(pc))

Kept == {i \in SavedId : saved[i] # Nothing}

-----------------------------------------------------------------------------

\* create(): one insert; alertEnabled ?? true.
Create(k) ==
    /\ ask[k].pc = "new"
    /\ \E i \in SavedId \ used, u \in Seeker, flag \in BOOLEAN :
          /\ saved' = [saved EXCEPT ![i] = [userId |-> u, alertEnabled |-> flag]]
          /\ used' = used \cup {i}
          /\ wanted' = [wanted EXCEPT ![i] = flag]
    /\ AskDone(k, "answered")
    /\ UNCHANGED crossed

\* 404 when it is not there, 403 when it is somebody else's.
IsOwn(i, u) == i \in Kept /\ saved[i].userId = u

\* toggleAlert(): the switch as it is.
ToggleFind(k) ==
    /\ ask[k].pc = "new"
    /\ \E i \in SavedId, u \in Seeker :
          \/ /\ IsOwn(i, u)
             /\ AskServe(k, [pc |-> "toggle", id |-> i, flag |-> saved[i].alertEnabled])
             /\ crossed' = IF \E j \in Ask : ask[j].pc = "toggle" /\ ask[j].id = i
                           THEN crossed \cup {i} ELSE crossed
          \/ /\ ~IsOwn(i, u)
             /\ AskDone(k, "refused")
             /\ UNCHANGED crossed
    /\ UNCHANGED <<saved, used, wanted>>

ToggleWriteOff(k) ==
    /\ ask[k].pc = "toggle"
    /\ \/ /\ ask[k].id \in Kept
          /\ saved' = [saved EXCEPT ![ask[k].id].alertEnabled = FALSE]
          /\ wanted' = [wanted EXCEPT ![ask[k].id] = ~@]
          /\ AskDone(k, "answered")
       \/ /\ ask[k].id \notin Kept
          /\ AskDone(k, "refused")
          /\ UNCHANGED <<saved, wanted>>
    /\ UNCHANGED <<used, crossed>>

\* toggleAlert(): the negation of what was read; P2025, answered 404, when the
\* row went away meanwhile.
ToggleWrite(k) ==
    /\ ask[k].pc = "toggle"
    /\ \/ /\ ask[k].id \in Kept
          /\ saved' = [saved EXCEPT ![ask[k].id].alertEnabled = ~ask[k].flag]
          /\ wanted' = [wanted EXCEPT ![ask[k].id] = ~@]
          /\ AskDone(k, "answered")
       \/ /\ ask[k].id \notin Kept
          /\ AskDone(k, "refused")
          /\ UNCHANGED <<saved, wanted>>
    /\ UNCHANGED <<used, crossed>>

\* remove(): the checks.
RemoveFind(k) ==
    /\ ask[k].pc = "new"
    /\ \E i \in SavedId, u \in Seeker :
          IF IsOwn(i, u) THEN AskServe(k, [pc |-> "remove", id |-> i, flag |-> FALSE])
                         ELSE AskDone(k, "refused")
    /\ UNCHANGED <<saved, used, wanted, crossed>>

\* remove(): the row, unless another call deleted it.
RemoveDelete(k) ==
    /\ ask[k].pc = "remove"
    /\ saved' = [saved EXCEPT ![ask[k].id] = Nothing]
    /\ AskDone(k, IF ask[k].id \in Kept THEN "answered" ELSE "refused")
    /\ UNCHANGED <<used, wanted, crossed>>

\* The awaited call fails, or the process stops.
AskAbort(k) ==
    /\ ask[k].pc \in AskPending
    /\ AskDone(k, "failed")
    /\ UNCHANGED <<saved, used, wanted, crossed>>

-----------------------------------------------------------------------------

\* Ids not handed out, or a search already saved.
SavedInit ==
    /\ saved \in [SavedId -> {Nothing} \cup SavedSearch]
    /\ used = Kept
    /\ ask = [k \in Ask |-> NewAsk]
    /\ wanted = [i \in SavedId |-> IF i \in Kept THEN saved[i].alertEnabled ELSE Nothing]
    /\ crossed = {}

Toggle(k) == ToggleFind(k) \/ ToggleWrite(k)

Remove(k) == RemoveFind(k) \/ RemoveDelete(k)

SavedNext == \E k \in Ask : Create(k) \/ Toggle(k) \/ Remove(k) \/ AskAbort(k)

SavedSpec == SavedInit /\ [][SavedNext]_savedVars

-----------------------------------------------------------------------------

\* Rows and calls have their types; a call under way names an id in use.
SavedTypeOK ==
    /\ saved \in [SavedId -> SavedSearch \cup {Nothing}]
    /\ used \subseteq SavedId /\ Kept \subseteq used
    /\ ask \in [Ask -> AskCall]
    /\ \A k \in Ask : ask[k].pc \in AskPending => ask[k].id \in used
    /\ wanted \in [SavedId -> BOOLEAN \cup {Nothing}]
    /\ crossed \subseteq SavedId

\* Every toggle that was answered counts: the switch of a search is the one it
\* was saved with, flipped once by each, whatever else crossed it.  Only two
\* toggles of the same search that crossed may count as one.
TogglesCount ==
    \A i \in Kept \ crossed : saved[i].alertEnabled = wanted[i]
=============================================================================
