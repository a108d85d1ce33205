---------------------------- MODULE IncidentsView ----------------------------
(***************************************************************************)
(* The incidents page of turbomactop (tui/screens/incidents.py): a table   *)
(* of incidents, and below it the detail of one of them, fetched by a      *)
(* worker thread per selection (tui/app.py, call_backend).  The answers of *)
(* two workers come back in either order.  An incident is its id; the      *)
(* daemon adds to them only while it starts.                               *)
(***************************************************************************)
EXTENDS Naturals, FiniteSets

CONSTANTS Ids,             \* recorded incidents, which stay the same while the page runs
          NoIncident, Error,
          MaxDetailCalls,  \* detail requests in flight
          MaxLists         \* times the page is opened

ASSUME IncidentsViewAssumption ==
    /\ NoIncident \notin Ids \cup {Error} /\ Error \notin Ids
    /\ MaxDetailCalls \in Nat \ {0} /\ MaxLists \in Nat \ {0}

VARIABLES
    listing,      \* lists the page awaits
    lists,        \* times it was asked for
    cursor,       \* the highlighted row
    loaded,       \* loaded_id
    detailCalls,  \* per id: detail requests in flight
    detail,       \* the incident whose samples and journal are on the screen
    title         \* above them: its id, or that one could not be loaded

incVars == <<listing, lists, cursor, loaded, detailCalls, detail, title>>

InFlight == {call \in Ids \X (1..MaxDetailCalls) : call[2] <= detailCalls[call[1]]}

IncidentsViewTypeOK ==
    /\ listing \in 0..MaxLists /\ lists \in 0..MaxLists
    /\ cursor \in Ids \cup {NoIncident} /\ loaded \in Ids \cup {NoIncident}
    /\ detail \in Ids \cup {NoIncident} /\ title \in Ids \cup {NoIncident, Error}
    /\ detailCalls \in [Ids -> 0..MaxDetailCalls]
    /\ Cardinality(InFlight) <= MaxDetailCalls

IncidentsViewInit ==
    /\ listing = 0 /\ lists = 0 /\ cursor = NoIncident /\ loaded = NoIncident
    /\ detail = NoIncident
    /\ title = NoIncident /\ detailCalls = [i \in Ids |-> 0]

\* load: loaded_id at once, the detail from a worker
Load(i) ==
    /\ Cardinality(InFlight) < MaxDetailCalls
    /\ loaded' = i /\ detailCalls' = [detailCalls EXCEPT ![i] = @ + 1]

\* activate
Activate ==
    /\ lists < MaxLists
    /\ listing' = listing + 1 /\ lists' = lists + 1
    /\ UNCHANGED <<cursor, loaded, detailCalls, detail, title>>

\* listed, with an error: the page keeps what it has.
ListFails ==
    /\ listing > 0 /\ listing' = listing - 1
    /\ UNCHANGED <<lists, cursor, loaded, detailCalls, detail, title>>

\* listed: the cursor stays on the loaded incident, else goes to the first.
Listed ==
    /\ listing > 0 /\ listing' = listing - 1
    /\ IF Ids = {} THEN UNCHANGED <<cursor, loaded, detailCalls>>
       ELSE LET i == IF loaded \in Ids THEN loaded ELSE CHOOSE x \in Ids : TRUE IN
            cursor' = i /\ Load(i)
    /\ UNCHANGED <<lists, detail, title>>

\* Mutant of Highlight: only the first incident is asked for.
HighlightOnce(i) ==
    /\ cursor \notin {NoIncident, i}
    /\ cursor' = i
    /\ IF loaded = NoIncident THEN Load(i) ELSE UNCHANGED <<loaded, detailCalls>>
    /\ UNCHANGED <<listing, lists, detail, title>>

\* on_data_table_row_highlighted
Highlight(i) ==
    /\ cursor \notin {NoIncident, i}
    /\ cursor' = i
    /\ IF loaded # i THEN Load(i) ELSE UNCHANGED <<loaded, detailCalls>>
    /\ UNCHANGED <<listing, lists, detail, title>>

\* render_incident
Render(i) ==
    /\ detailCalls[i] > 0
    /\ detailCalls' = [detailCalls EXCEPT ![i] = @ - 1] /\ detail' = i /\ title' = i
    /\ UNCHANGED <<listing, lists, cursor, loaded>>

\* render_incident, with an error: the title says so, the rest stays.
RenderFails(i) ==
    /\ detailCalls[i] > 0
    /\ detailCalls' = [detailCalls EXCEPT ![i] = @ - 1] /\ title' = Error
    /\ UNCHANGED <<listing, lists, cursor, loaded, detail>>

IncidentsViewNext == Activate \/ Listed \/ ListFails
        \/ \E i \in Ids : Highlight(i) \/ Render(i) \/ RenderFails(i)

\* Worker threads end, their calls answered or failed.
IncidentsViewFairness ==
    \A i \in Ids : WF_incVars((Render(i) \/ RenderFails(i)))
IncidentsViewSpec ==
    IncidentsViewInit /\ [][IncidentsViewNext]_incVars /\ IncidentsViewFairness

-----------------------------------------------------------------------------
(* The incident asked for last is the highlighted one, through moves of    *)
(* the cursor, lists that come while a detail is under way, and lists that *)
(* fail (incidents.py, listed and on_data_table_row_highlighted).          *)
AskedIsSelected == loaded = cursor

(* Whoever selects an incident gets a detail or an error (incidents.py,    *)
(* load and render_incident).                                              *)
DetailArrives == cursor # NoIncident ~> title # NoIncident

(* The page asks for what is highlighted (incidents.py).                   *)
IncidentsViewSafe == IncidentsViewTypeOK /\ AskedIsSelected
=============================================================================
