-------------------------------- MODULE Trend --------------------------------
(***************************************************************************)
(* What turbomactop keeps of the statuses it is sent (tui/app.py): the 60 s *)
(* view, seeded from the daemon's 1 Hz history while it is short, the       *)
(* 10 min view, the session peaks, and what the active tab shows.  Statuses *)
(* come one at a time from the subscription thread (from_thread waits until *)
(* the page has taken one); histories come from worker threads and may be   *)
(* late, lost, or overtake each other.                                      *)
(*                                                                         *)
(* One of the four series stands for all.  The daemon takes one sample per  *)
(* unit of time; its wall clock may be set back.                            *)
(***************************************************************************)
EXTENDS Integers, FiniteSets, SequencesExt, ListFilter

CONSTANTS Span,          \* FAST_SPAN_S
          Seed,          \* below this many points the history seeds the view (8)
          HistoryLen,    \* rows of the daemon's history that a call returns
          TrendValues,   \* the values of the series
          MaxTime,       \* bound: the clock
          MaxJumps,      \* how often the clock may be set back
          MaxRestarts,   \* how often the daemon may be restarted
          MaxKeys,       \* bound: keys the user presses
          MaxTrendCalls  \* bound: calls under way before a refresh adds one

ASSUME TrendAssumption ==
  /\ {Span, Seed, HistoryLen, MaxTime} \subseteq Nat \ {0} /\ TrendValues \subseteq Nat
  /\ Span <= HistoryLen   \* 60 s of the 600 that are asked for
  /\ {MaxJumps, MaxRestarts, MaxKeys, MaxTrendCalls} \subseteq Nat

VARIABLES
  clock, rows,           \* the daemon: its wall clock and its history
  up, fresh,             \* it can be reached; its status has not been sent yet
  link, trendConnected,  \* the subscription's stream is open; what the page was told last
  status,                \* TurboMacTop.status: [ts, v], ts 0 when there is none
  fast, slow,            \* the 60 s and the 10 min view
  peak,                  \* peaks of the series, ts 0 when there is none
  trendKnown,            \* smc_keys and os_name have been read
  trendCalls,            \* workers: [id, first, got, rows], first for load_initial
  paused, trendShown,    \* what the active tab shows
  jumps, restarts, keys,
  \* History variables.
  sinceReset,            \* the values taken since the peaks were reset
  taken                  \* the times of the statuses taken

trendDaemon == <<clock, rows, up, fresh>>
trend  == <<fast, slow, peak, sinceReset, taken>>
screen == <<paused, trendShown>>
trendVars   == <<trendDaemon, link, trendConnected, status, trend, trendKnown, trendCalls, screen, jumps,
            restarts, keys>>

NoPoint == [ts |-> 0, v |-> 0]
Points  == [ts : 1..MaxTime, v : TrendValues]

\* The calls under way with one more.
Asked(first, s) ==
  LET id == CHOOSE n \in 1..(Cardinality(s) + 1) : \A c \in s : c.id # n
  IN s \cup {[id |-> id, first |-> first, got |-> FALSE, rows |-> <<>>]}

\* on_mount, with a daemon that has taken a sample: load_initial is called,
\* and the subscription has not been told yet whether it is connected.
TrendInit ==
  /\ clock = 1 /\ rows \in {<<[ts |-> 1, v |-> v]>> : v \in TrendValues}
  /\ up = TRUE /\ fresh = TRUE
  /\ link = FALSE /\ trendConnected = FALSE /\ status = NoPoint /\ fast = <<>>
  /\ slow = <<>> /\ peak = NoPoint
  /\ trendKnown = FALSE /\ trendCalls = Asked(TRUE, {}) /\ paused = FALSE
  /\ trendShown = NoPoint
  /\ jumps = 0 /\ restarts = 0 /\ keys = 0 /\ sinceReset = {} /\ taken = {}

-----------------------------------------------------------------------------
(* The daemon *)

Recorded(row) ==
  LET all == Append(rows, row) IN IF Len(all) > HistoryLen THEN Tail(all) ELSE all

\* A sample, its row in the history, and a status that carries both.
Sample(v) ==
  /\ up /\ clock < MaxTime
  /\ clock' = clock + 1
  /\ rows' = Recorded([ts |-> clock + 1, v |-> v])
  /\ fresh' = TRUE
  /\ UNCHANGED <<up, link, trendConnected, status, trend, trendKnown,
                 trendCalls, screen, jumps, restarts, keys>>

ClockBack(t) ==
  /\ jumps < MaxJumps /\ t \in 1..(clock - 2) /\ clock' = t /\ jumps' = jumps + 1
  /\ UNCHANGED <<rows, up, fresh, link, trendConnected, status, trend,
                 trendKnown, trendCalls, screen, restarts, keys>>

\* The daemon goes away; the one that comes back has an empty history and
\* fills it with its first sample.
Down ==
  /\ up /\ restarts < MaxRestarts /\ restarts' = restarts + 1
  /\ up' = FALSE /\ fresh' = FALSE /\ link' = FALSE
  /\ UNCHANGED <<clock, rows, trendConnected, status, trend, trendKnown,
                 trendCalls, screen, jumps, keys>>

Up(v) ==
  /\ ~up /\ clock < MaxTime /\ up' = TRUE /\ fresh' = TRUE
  /\ clock' = clock + 1 /\ rows' = <<[ts |-> clock + 1, v |-> v]>>
  /\ UNCHANGED <<link, trendConnected, status, trend, trendKnown, trendCalls,
                 screen, jumps, restarts, keys>>

-----------------------------------------------------------------------------
(* Statuses *)

\* The 60 s view after a point: emptied when the clock went back, and what
\* is older than Span goes from its old end.
\* Mutant of Trim: what is too old stays.
TrimNothing(buf, ts) == buf

TooOld(buf, ts) == {n \in 0..Len(buf) : \A i \in 1..n : buf[i].ts < ts - Span}
Trim(buf, ts) ==
  SubSeq(buf, Max(TooOld(buf, ts)) + 1, Len(buf))

Cleared(buf, ts) == IF buf # <<>> /\ ts < Last(buf).ts - 1 THEN <<>> ELSE buf

Higher(p) == IF peak.ts = 0 \/ p.v > peak.v THEN p ELSE peak

\* on_status: into the 60 s view buf, the peaks, and the tab.
TakeStatus(buf, p) ==
  /\ status' = p
  /\ fast' = Trim(Append(Cleared(buf, p.ts), p), p.ts)
  /\ peak' = Higher(p) /\ sinceReset' = sinceReset \cup {p.v}
  /\ taken' = taken \cup {p.ts}
  /\ trendShown' = IF paused THEN trendShown ELSE p

\* from_thread, with the status the subscription has received.
OnStatus ==
  /\ link /\ fresh /\ trendConnected
  /\ TakeStatus(fast, Last(rows)) /\ fresh' = FALSE
  /\ UNCHANGED <<clock, rows, up, link, trendConnected, slow, trendKnown,
                 trendCalls, paused, jumps, restarts, keys>>

Loads == ~trendKnown

\* conn_changed: a stream that broke is reported, also when the daemon is back
\* already; a new one loads what is missing.
ConnChanged ==
  /\ \/ /\ trendConnected /\ ~link /\ trendConnected' = FALSE
        /\ UNCHANGED <<link, trendCalls>>
     \/ /\ ~trendConnected /\ up /\ trendConnected' = TRUE /\ link' = TRUE
        /\ trendCalls' = Asked(Loads, trendCalls)
  /\ UNCHANGED <<trendDaemon, status, trend, trendKnown, screen, jumps, restarts, keys>>

-----------------------------------------------------------------------------
(* Histories *)

\* refresh_history, every 5 s.
Refresh ==
  /\ Cardinality(trendCalls) < MaxTrendCalls /\ trendCalls' = Asked(FALSE, trendCalls)
  /\ UNCHANGED <<trendDaemon, link, trendConnected, status, trend, trendKnown,
                 screen, jumps, restarts, keys>>

\* call_backend: the worker's call is answered, or fails with the daemon down.
TrendFetch(c) ==
  /\ ~c.got
  /\ trendCalls' = (trendCalls \ {c}) \cup (IF up THEN {[c EXCEPT !.got = TRUE, !.rows = rows]} ELSE {})
  /\ UNCHANGED <<trendDaemon, link, trendConnected, status, trend, trendKnown,
                 screen, jumps, restarts, keys>>

\* A short 60 s view is made of the history and of what is newer.
Seeded(buf, hist) ==
  LET end == Last(hist).ts
  IN Within(hist, {p \in Points : p.ts > end - Span}) \o Within(buf, {p \in Points : p.ts > end})

SetHistory(buf, hist) == IF Len(buf) < Seed THEN Seeded(buf, hist) ELSE buf

\* set_history, of a refresh.
GotHistory(c) ==
  /\ c.got /\ ~c.first /\ trendCalls' = trendCalls \ {c}
  /\ slow' = c.rows /\ fast' = SetHistory(fast, c.rows)
  /\ UNCHANGED <<trendDaemon, link, trendConnected, status, peak, sinceReset,
                 taken, trendKnown, screen, jumps, restarts, keys>>

\* got_initial: the history, and the status if none has come yet.
GotInitial(c) ==
  LET buf == SetHistory(fast, c.rows)
      p == Last(c.rows) IN
  /\ c.got /\ c.first /\ trendCalls' = trendCalls \ {c} /\ trendKnown' = TRUE
  /\ slow' = c.rows
  /\ IF status = NoPoint
     THEN TakeStatus(buf, p)
     ELSE fast' = buf /\ UNCHANGED <<status, peak, sinceReset, taken, trendShown>>
  /\ UNCHANGED <<trendDaemon, link, trendConnected, paused, jumps, restarts, keys>>

-----------------------------------------------------------------------------
(* Keys *)

Key == keys < MaxKeys /\ keys' = keys + 1

\* action_pause.
Pause ==
  /\ Key /\ paused' = ~paused /\ trendShown' = IF paused THEN status ELSE trendShown
  /\ UNCHANGED <<trendDaemon, link, trendConnected, status, trend, trendKnown,
                 trendCalls, jumps, restarts>>

\* action_reset_peaks; the tab is updated, paused or not.
ResetPeaks ==
  /\ Key /\ peak' = NoPoint /\ sinceReset' = {} /\ trendShown' = status
  /\ UNCHANGED <<trendDaemon, link, trendConnected, status, fast, slow, taken,
                 trendKnown, trendCalls, paused, jumps, restarts>>

\* Another tab comes up with what is known now, paused or not.
Tab ==
  /\ Key /\ trendShown' = status
  /\ UNCHANGED <<trendDaemon, link, trendConnected, status, trend, trendKnown,
                 trendCalls, paused, jumps, restarts>>

-----------------------------------------------------------------------------
TrendNext ==
  \/ \E v \in TrendValues : Sample(v) \/ Up(v)
  \/ \E t \in 1..MaxTime : ClockBack(t)
  \/ Down \/ OnStatus \/ ConnChanged \/ Refresh
  \/ \E c \in trendCalls : TrendFetch(c) \/ GotHistory(c) \/ GotInitial(c)
  \/ Pause \/ ResetPeaks \/ Tab

\* systemd brings the daemon back, the subscription reconnects (module
\* Subscription), and calls end: answered, or failed by their timeout.
TrendFairness ==
  /\ WF_trendVars(\E v \in TrendValues : Up(v)) /\ WF_trendVars(ConnChanged)
  /\ WF_trendVars(\E c \in trendCalls : TrendFetch(c))
  /\ WF_trendVars(\E c \in trendCalls : GotHistory(c) \/ GotInitial(c))
TrendSpec == TrendInit /\ [][TrendNext]_trendVars /\ TrendFairness

-----------------------------------------------------------------------------
TrendTypeOK ==
  /\ clock \in 1..MaxTime /\ Len(rows) \in 1..HistoryLen /\ Len(slow) <= HistoryLen
  /\ \A i \in 1..Len(fast) : fast[i] \in Points
  /\ {up, fresh, link, trendConnected, trendKnown, paused} \subseteq BOOLEAN
  /\ {status, peak, trendShown} \subseteq Points \cup {NoPoint}
  /\ taken \subseteq 1..MaxTime /\ sinceReset \subseteq TrendValues

\* README, Dashboard: the 60 s view.  When a status has been taken, the
\* points run forward in time and none is further than Span from it, but for the
\* second that on_status tolerates, however late the histories that seeded
\* the view were.
TrendIsRecent ==
  [][taken' # taken \/ status' # status =>
       /\ \A i, j \in 1..Len(fast') : i < j => fast'[i].ts <= fast'[j].ts + 1
       /\ \A i \in 1..Len(fast') : fast'[i].ts \in (status'.ts - Span - 1)..(status'.ts + 1)]_trendVars

\* No status of the last Span is missing in the view: seeding from a history
\* that is older than the statuses taken meanwhile loses none.
TrendComplete ==
  \A t \in taken : t > Last(fast).ts - Span => \E i \in 1..Len(fast) : fast[i].ts = t

\* The session peak is the highest value since it was reset, whichever way
\* its status came.
PeaksExact == /\ peak.ts = 0 <=> sinceReset = {}
              /\ sinceReset # {} => peak.v = Max(sinceReset)

\* Unless it is paused, the active tab shows the last status.
ShownIsLatest == ~paused => trendShown = status

\* What load_initial reads is known in the end, if the daemon stays up and
\* the page has been told so.
InitialLoaded == <>[](link /\ trendConnected) => <>trendKnown

\* The 60 s view, the peaks and the tab are what the statuses said (app.py,
\* on_status and set_history).
TrendSafe ==
  /\ [](TrendTypeOK /\ TrendComplete /\ PeaksExact /\ ShownIsLatest)
  /\ TrendIsRecent
=============================================================================
