------------------------------- MODULE LogView -------------------------------
(***************************************************************************)
(* The log page of turbomactop (tui/screens/log.py) over the daemon's      *)
(* in-memory event list (daemon/logger.py, EventLog).  The page polls the  *)
(* newest events, and adds to its text only those after the last it had;   *)
(* filters change, the list overflows and the daemon restarts between a    *)
(* poll and its answer.                                                    *)
(*                                                                         *)
(* An event is <<n, t>>: the n-th the daemons emitted, of type t; its time *)
(* stamp makes it unique.  The filter is a set of types that pass.         *)
(***************************************************************************)
EXTENDS Naturals, Sequences, SequencesExt, ListFilter

CONSTANTS Types,      \* event types
          MaxEvents,  \* events emitted
          Ring,       \* maxlen of EventLog.events
          Fetch,      \* events a poll asks for
          MaxFails    \* polls that fail

ASSUME LogViewAssumption ==
    /\ {Ring, Fetch} \subseteq Nat \ {0} /\ {MaxEvents, MaxFails} \subseteq Nat

VARIABLES
    emitted,  \* events emitted so far
    ring,     \* EventLog.events
    busy,     \* "no", "asked", "answered", or "failed"
    answer,   \* what the poll answered
    events,   \* events of the page
    filter,   \* the types that pass the page's filters
    text,     \* the lines of the RichLog
    count,    \* the number the page reports as matching
    fails     \* polls that have failed

logViewVars == <<emitted, ring, busy, answer, events, filter, text, count, fails>>

Events == (1..MaxEvents) \X Types

LogViewTypeOK ==
    /\ emitted \in 0..MaxEvents /\ busy \in {"no", "asked", "answered", "failed"}
    /\ fails \in 0..MaxFails
    /\ ring \in BoundedSeq(Events, Ring) /\ answer \in BoundedSeq(Events, Fetch)
    /\ events \in BoundedSeq(Events, Fetch) /\ filter \subseteq Types
    /\ text \in BoundedSeq(Events, MaxEvents) /\ count \in 0..Fetch

LogViewInit ==
    /\ emitted = 0 /\ ring = <<>> /\ busy = "no" /\ answer = <<>> /\ events = <<>>
    /\ filter = Types /\ text = <<>> /\ count = 0 /\ fails = 0

-----------------------------------------------------------------------------
Newest(s, n) == IF Len(s) <= n THEN s ELSE SubSeq(s, Len(s) - n + 1, Len(s))

\* EventLog.emit
Emit(t) ==
    /\ emitted < MaxEvents
    /\ emitted' = emitted + 1
    /\ ring' = Newest(Append(ring, <<emitted + 1, t>>), Ring)
    /\ UNCHANGED <<busy, answer, events, filter, text, count, fails>>

\* The daemon restarts: its list is new.
Restart ==
    /\ ring # <<>>
    /\ ring' = <<>>
    /\ UNCHANGED <<emitted, busy, answer, events, filter, text, count, fails>>

\* poll, on the 2 s timer and when the page is opened: one at a time
Poll ==
    /\ busy = "no"
    /\ busy' = "asked"
    /\ UNCHANGED <<emitted, ring, answer, events, filter, text, count, fails>>

\* EventLog.recent
Recent ==
    /\ busy = "asked"
    /\ busy' = "answered" /\ answer' = Newest(ring, Fetch)
    /\ UNCHANGED <<emitted, ring, events, filter, text, count, fails>>

RecentFails ==
    /\ busy = "asked" /\ fails < MaxFails
    /\ busy' = "failed" /\ fails' = fails + 1
    /\ UNCHANGED <<emitted, ring, answer, events, filter, text, count>>

\* matches, for the filters f
Matching(s, f) == Within(s, {e \in Events : e[2] \in f})

\* Mutant of After: one event too few.
AfterNextToLast(s) ==
    IF events # <<>> /\ Contains(s, Last(events))
    THEN text \o Matching(SubSeq(s, SelectInSeq(s, LAMBDA e : e = Last(events)) + 2,
                                 Len(s)), filter)
    ELSE Matching(s, filter)

\* The text after an answer: the events after the last one the page had are
\* appended, or, when that one is not in the answer, all are written anew.
After(s) ==
    IF events # <<>> /\ Contains(s, Last(events))
    THEN text \o Matching(SubSeq(s, SelectInSeq(s, LAMBDA e : e = Last(events)) + 1,
                                 Len(s)), filter)
    ELSE Matching(s, filter)

Got ==
    /\ busy = "answered"
    /\ busy' = "no" /\ events' = answer
    /\ text' = After(answer)
    /\ count' = Len(Matching(answer, filter))
    /\ UNCHANGED <<emitted, ring, answer, filter, fails>>

\* Mutant of GotError: the page counts as polling for ever.
GotErrorBusy ==
    /\ busy = "failed"
    /\ UNCHANGED logViewVars

\* got, with an error: the page says so and keeps what it has.
GotError ==
    /\ busy = "failed"
    /\ busy' = "no"
    /\ UNCHANGED <<emitted, ring, answer, events, filter, text, count, fails>>

\* on_input_changed, on_select_changed: rerender
Rerender(f) ==
    /\ f # filter
    /\ filter' = f
    /\ text' = Matching(events, f) /\ count' = Len(Matching(events, f))
    /\ UNCHANGED <<emitted, ring, busy, answer, events, fails>>

LogViewNext == \/ \E t \in Types : Emit(t)
               \/ Restart \/ Poll \/ Recent \/ RecentFails \/ Got \/ GotError
               \/ \E f \in SUBSET Types : Rerender(f)

\* The 2 s timer polls, the daemon answers, the UI thread handles the answer.
LogViewFairness ==
    /\ WF_logViewVars(Poll) /\ WF_logViewVars(Recent)
    /\ WF_logViewVars(Got) /\ WF_logViewVars(GotError)
LogViewSpec == LogViewInit /\ [][LogViewNext]_logViewVars /\ LogViewFairness

-----------------------------------------------------------------------------
(* The text lists events in the order they happened, each once, and every  *)
(* one passes the filters as they are now, although the filters change     *)
(* while a poll is under way (log.py, got and rerender).                   *)
TextInOrder ==
    /\ \A i, j \in 1..Len(text) : i < j => text[i][1] < text[j][1]
    /\ \A i \in 1..Len(text) : text[i][2] \in filter

(* Nothing the page holds is missing from the text: the matching events of *)
(* the last answer are the end of the text (log.py, got).                  *)
TextIsComplete ==
    /\ IsSuffix(Matching(events, filter), text)
    /\ count = Len(Matching(events, filter))

(* Every event that stays in the daemon's list gets to the page (log.py,   *)
(* poll and got).                                                          *)
EventsArrive == <>[](ring # <<>> => events # <<>> /\ Last(ring) = Last(events))

(* The text is the matching events, in order and complete (log.py, got).   *)
LogViewSafe == LogViewTypeOK /\ TextInOrder /\ TextIsComplete
=============================================================================
