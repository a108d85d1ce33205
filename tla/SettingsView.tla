---------------------------- MODULE SettingsView ----------------------------
(***************************************************************************)
(* The settings page of turbomactop (tui/screens/settings.py) against a    *)
(* daemon whose configuration others change too.  The page keeps a copy of *)
(* the configuration, one editor per key, and a verdict per key; it reads  *)
(* and writes through worker threads (tui/app.py, call_backend), so that   *)
(* answers, statuses and the events of its own editors interleave.         *)
(*                                                                         *)
(* A value is a model value, a digest is the configuration it digests, and *)
(* validation is a free choice of the daemon.  The toolkit hands the page  *)
(* the events of its editors before the user's next key and before a later *)
(* round trip to the daemon ends (external: Textual); the user has one    *)
(* change in progress at a time.                                           *)
(***************************************************************************)
EXTENDS Naturals, FiniteSets, SequencesExt

CONSTANTS Inputs,                   \* keys edited as text
          Selects,                  \* keys edited with a drop-down, Gpu among them
          Gpu,                      \* gpu.mode: written with gpu.set
          SettingsValues, Default,  \* values of a key, and the default one
          SettingsOff,              \* the gpu.mode that asks for confirmation
          MaxSettingsElsewhere,     \* changes by turbomacctl or SIGHUP
          MaxWrites,                \* changes the user asks for
          MaxSettingsLost           \* calls that fail or time out

Keys    == Inputs \cup Selects
Nothing == "nothing"    \* no key, no call
All     == "all"        \* config.reset: every key
Configs == [Keys -> SettingsValues]
Verdicts == {"asked", "accepted", "rejected", "failed"}

ASSUME SettingsViewAssumption ==
    /\ Gpu \in Selects /\ Inputs \cap Selects = {} /\ IsFiniteSet(Selects)
    /\ Nothing \notin Keys
    /\ Default \in SettingsValues /\ SettingsOff \in SettingsValues
    /\ {MaxSettingsElsewhere, MaxWrites, MaxSettingsLost} \subseteq Nat

VARIABLES
    cfg,               \* the daemon's configuration
    settingsSnapshot,  \* the configuration whose digest the last status carries
    settingsKnown,     \* a load has succeeded: digest and cfg of the page are set
    settingsShown,     \* cfg of the page
    loading,           \* "no", "asked" (of the daemon), or "answered"
    fetched,           \* the configuration config.get answered, if it did
    failed,            \* the answer is an error
    editor,            \* what each editor holds
    keep,              \* rejected keys, whose text stays
    focus,             \* the key whose editor has the focus, or Nothing
    changes,           \* Select.Changed events not yet handled, oldest first
    settingsDialog,    \* the question "type OFF" is on the screen
    write,             \* the change in progress: [key, value, verdict], key Nothing when none
    late,              \* changes given up by the client that the daemon still handles
    label,             \* the inline verdict per key
    note,              \* persist_note of the badge
    lastLoad,          \* how the last load ended
    byUser,            \* history: the last change sent was the user's choice
    settingsElsewhere, writes, settingsLost

settingsDaemon == <<cfg, settingsSnapshot>>
page   == <<settingsKnown, settingsShown, editor, keep, label, note, lastLoad>>
settingsCalls  == <<loading, fetched, failed, write, late>>
ui     == <<focus, changes, settingsDialog>>
bounds == <<settingsElsewhere, writes, settingsLost>>
pageVars   == <<settingsDaemon, page, settingsCalls, ui, byUser, bounds>>

NoWrite == [key |-> Nothing, value |-> Default, verdict |-> "asked"]

SettingsViewTypeOK ==
    /\ cfg \in Configs /\ settingsSnapshot \in Configs
    /\ settingsShown \in Configs /\ fetched \in Configs
    /\ editor \in Configs /\ settingsKnown \in BOOLEAN /\ failed \in BOOLEAN
    /\ loading \in {"no", "asked", "answered"} /\ keep \subseteq Keys
    /\ focus \in Keys \cup {Nothing} /\ settingsDialog \in BOOLEAN
    /\ Len(changes) <= Cardinality(Selects)
    /\ \A i \in 1..Len(changes) :
         changes[i] \in [key : Selects, value : SettingsValues, user : BOOLEAN]
    /\ write \in [key : Keys \cup {All, Nothing}, value : SettingsValues, verdict : Verdicts]
    /\ late \subseteq [key : Keys \cup {All}, value : SettingsValues, verdict : {"failed"}]
    /\ label \in [Keys -> {"none", "applying", "applied", "rejected", "cancelled"}]
    /\ note \in {"none", "persisted", "unreadable"}
    /\ lastLoad \in {"none", "ok", "failed"}
    /\ byUser \in BOOLEAN
    /\ settingsElsewhere \in 0..MaxSettingsElsewhere /\ writes \in 0..MaxWrites
    /\ settingsLost \in 0..MaxSettingsLost

\* The page is opened for the first time: activate() reloads.
SettingsViewInit ==
    /\ cfg = [k \in Keys |-> Default] /\ settingsSnapshot = cfg
    /\ settingsKnown = FALSE /\ settingsShown = cfg /\ editor = cfg /\ keep = {}
    /\ label = [k \in Keys |-> "none"] /\ note = "none" /\ lastLoad = "none"
    /\ loading = "asked" /\ fetched = cfg /\ failed = FALSE /\ write = NoWrite
    /\ late = {}
    /\ focus = Nothing /\ changes = <<>> /\ settingsDialog = FALSE
    /\ byUser = TRUE /\ settingsElsewhere = 0 /\ writes = 0 /\ settingsLost = 0

-----------------------------------------------------------------------------
(* The daemon. *)

Stored(k, v) == IF k = All THEN [x \in Keys |-> Default] ELSE [cfg EXCEPT ![k] = v]
Named(k)     == IF k = All THEN Keys ELSE {k}

\* turbomacctl or SIGHUP
SettingsElsewhere(k, v) ==
    /\ settingsElsewhere < MaxSettingsElsewhere /\ cfg[k] # v
    /\ cfg' = [cfg EXCEPT ![k] = v] /\ settingsElsewhere' = settingsElsewhere + 1
    /\ UNCHANGED <<settingsSnapshot, page, settingsCalls, ui, byUser, writes,
                   settingsLost>>

\* Daemon.build_status: config_digest
SettingsSnapshot ==
    /\ settingsSnapshot # cfg
    /\ settingsSnapshot' = cfg
    /\ UNCHANGED <<cfg, page, settingsCalls, ui, byUser, bounds>>

\* config.get and events, in one worker call
Answer ==
    /\ loading = "asked"
    /\ loading' = "answered" /\ fetched' = cfg /\ failed' = FALSE
    /\ UNCHANGED <<settingsDaemon, page, write, late, ui, byUser, bounds>>

AnswerFails ==
    /\ loading = "asked" /\ settingsLost < MaxSettingsLost
    /\ loading' = "answered" /\ failed' = TRUE /\ settingsLost' = settingsLost + 1
    /\ UNCHANGED <<settingsDaemon, page, fetched, write, late, ui, byUser,
                   settingsElsewhere, writes>>

\* config.set, config.reset and gpu.set: refused, or carried out
SettingsRefuse ==
    /\ write.key \in Keys /\ write.verdict = "asked"
    /\ write' = [write EXCEPT !.verdict = "rejected"]
    /\ UNCHANGED <<settingsDaemon, page, loading, fetched, failed, late, ui,
                   byUser, bounds>>

CarryOut ==
    /\ write.key # Nothing /\ write.verdict = "asked"
    /\ cfg' = Stored(write.key, write.value)
    /\ write' = [write EXCEPT !.verdict = "accepted"]
    /\ UNCHANGED <<settingsSnapshot, page, loading, fetched, failed, late, ui,
                   byUser, bounds>>

\* The client's timeout or a lost connection, before or after the daemon has
\* handled the request; a request it has received is still handled.
CallFails ==
    /\ write.key # Nothing /\ write.verdict \in {"asked", "accepted"}
    /\ settingsLost < MaxSettingsLost
    /\ write' = [write EXCEPT !.verdict = "failed"] /\ settingsLost' = settingsLost + 1
    /\ late' = IF write.verdict = "asked"
               THEN late \cup {[write EXCEPT !.verdict = "failed"]} ELSE late
    /\ UNCHANGED <<settingsDaemon, page, loading, fetched, failed, ui, byUser,
                   settingsElsewhere, writes>>

CarryOutLate(w) ==
    /\ late' = late \ {w}
    /\ cfg' = Stored(w.key, w.value) \/ UNCHANGED cfg
    /\ UNCHANGED <<settingsSnapshot, page, loading, fetched, failed, write, ui,
                   byUser, bounds>>

-----------------------------------------------------------------------------
(* Reading: reload, loaded and show. *)

\* SettingsView.reload: nothing while a load is running
Reload ==
    /\ loading' = IF loading = "no" THEN "asked" ELSE loading
    /\ UNCHANGED <<fetched, failed>>

\* Mutant of Syncs: a load sets every editor.
SyncsAll(k) == k \in Keys

\* The editors a load sets: not the rejected keys, not a text being edited.
Syncs(k) == k \notin keep /\ ~(k \in Inputs /\ focus = k)

Synced == {k \in Selects : Syncs(k) /\ editor[k] # fetched[k]}

\* Setting a drop-down posts a Changed event, one per key that changes.
Posted == LET ks == SetToSeq(Synced) IN
          [i \in DOMAIN ks |-> [key |-> ks[i], value |-> fetched[ks[i]], user |-> FALSE]]

Loaded ==
    /\ loading = "answered" /\ ~failed /\ changes = <<>>
    /\ loading' = "no" /\ settingsKnown' = TRUE /\ settingsShown' = fetched
    /\ lastLoad' = "ok"
    /\ editor' = [k \in Keys |-> IF Syncs(k) THEN fetched[k] ELSE editor[k]]
    /\ changes' = Posted
    /\ UNCHANGED <<settingsDaemon, keep, label, note, fetched, failed, write,
                   late, focus, settingsDialog, byUser, bounds>>

LoadFails ==
    /\ loading = "answered" /\ failed
    /\ loading' = "no" /\ lastLoad' = "failed" /\ note' = "unreadable"
    /\ UNCHANGED <<settingsDaemon, settingsKnown, settingsShown, editor, keep,
                   label, fetched, failed, write, late, ui, byUser, bounds>>

\* A status reaches the page: a digest other than its own reloads.
Differs == settingsKnown /\ settingsSnapshot # settingsShown
SettingsShow ==
    /\ Differs /\ loading = "no"
    /\ Reload
    /\ UNCHANGED <<settingsDaemon, page, write, late, ui, byUser, bounds>>

-----------------------------------------------------------------------------
(* Writing: the user, the editors' events, and the answers. *)

Sent(k, v) ==
    /\ write' = [key |-> k, value |-> v, verdict |-> "asked"]
    /\ label' = [x \in Keys |-> IF x = k THEN "applying" ELSE label[x]]

UserMay == changes = <<>> /\ ~settingsDialog /\ writes < MaxWrites /\ write.key = Nothing

Focus(k) ==
    /\ changes = <<>> /\ ~settingsDialog /\ focus # k
    /\ focus' = k
    /\ UNCHANGED <<settingsDaemon, page, settingsCalls, changes, settingsDialog,
                   byUser, bounds>>

\* on_input_submitted: the text is parsed and applied, whatever it is.
Submit(k, v) ==
    /\ UserMay /\ focus = k /\ k \in Inputs
    /\ editor' = [editor EXCEPT ![k] = v]
    /\ Sent(k, v) /\ byUser' = TRUE /\ writes' = writes + 1
    /\ UNCHANGED <<settingsDaemon, settingsKnown, settingsShown, keep, note,
                   lastLoad, loading, fetched, failed, late, ui,
                   settingsElsewhere, settingsLost>>

\* The user chooses in a drop-down, which posts its event.
Choose(k, v) ==
    /\ UserMay /\ focus = k /\ k \in Selects /\ editor[k] # v
    /\ editor' = [editor EXCEPT ![k] = v]
    /\ changes' = <<[key |-> k, value |-> v, user |-> TRUE]>> /\ writes' = writes + 1
    /\ UNCHANGED <<settingsDaemon, settingsKnown, settingsShown, keep, label,
                   note, lastLoad, settingsCalls, focus, settingsDialog, byUser,
                   settingsElsewhere, settingsLost>>

\* on_select_changed: only with a configuration, the focus, and a new value
Applies(e) == settingsKnown /\ focus = e.key /\ e.value # settingsShown[e.key]

Handle ==
    /\ changes # <<>> /\ (~Applies(Head(changes)) \/ (~settingsDialog /\ write.key = Nothing))
    /\ LET e == Head(changes) IN
       /\ changes' = Tail(changes)
       /\ IF ~Applies(e) THEN UNCHANGED <<settingsDialog, write, label, byUser>>
          ELSE IF e.key = Gpu /\ e.value = SettingsOff
          THEN settingsDialog' = TRUE /\ byUser' = e.user /\ UNCHANGED <<write, label>>
          ELSE Sent(e.key, e.value) /\ byUser' = e.user /\ UNCHANGED settingsDialog
    /\ UNCHANGED <<settingsDaemon, settingsKnown, settingsShown, editor, keep,
                   note, lastLoad, loading, fetched, failed, late, focus,
                   bounds>>

\* gpu_mode's dialog: the word OFF applies, anything else restores the editor.
SettingsConfirm ==
    /\ settingsDialog /\ write.key = Nothing
    /\ settingsDialog' = FALSE /\ Sent(Gpu, SettingsOff)
    /\ UNCHANGED <<settingsDaemon, settingsKnown, settingsShown, editor, keep, note,
                   lastLoad, loading, fetched, failed, late, focus, changes, byUser, bounds>>

SettingsCancel ==
    /\ settingsDialog /\ changes = <<>>
    /\ settingsDialog' = FALSE /\ label' = [label EXCEPT ![Gpu] = "cancelled"]
    /\ editor' = [editor EXCEPT ![Gpu] = settingsShown[Gpu]]
    /\ changes' = IF editor[Gpu] = settingsShown[Gpu] THEN <<>>
                 ELSE <<[key |-> Gpu, value |-> settingsShown[Gpu], user |-> FALSE]>>
    /\ UNCHANGED <<settingsDaemon, settingsKnown, settingsShown, keep, note,
                   lastLoad, settingsCalls, focus, byUser, bounds>>

\* action_reset_defaults, confirmed
Reset ==
    /\ UserMay
    /\ keep' = {} /\ write' = [key |-> All, value |-> Default, verdict |-> "asked"]
    /\ byUser' = TRUE /\ writes' = writes + 1
    /\ UNCHANGED <<settingsDaemon, settingsKnown, settingsShown, editor, label,
                   note, lastLoad, loading, fetched, failed, late, ui,
                   settingsElsewhere, settingsLost>>

\* applied, and done of gpu_apply: an error reads as a rejection of the keys
\* written, a rejected key keeps its text (gpu.set's does not); then reload.
Verdict ==
    LET yes == IF write.verdict = "accepted" THEN Named(write.key) ELSE {}
        no  == IF write.verdict \in {"rejected", "failed"} /\ write.key # All
               THEN {write.key} ELSE {} IN
    /\ label' = [k \in Keys |-> IF k \in yes THEN "applied"
                               ELSE IF k \in no THEN "rejected" ELSE label[k]]
    /\ keep' = IF write.key = Gpu THEN keep ELSE (keep \ yes) \cup no
    /\ note' = IF yes # {} /\ write.key # Gpu THEN "persisted" ELSE note

Applied ==
    /\ write.key # Nothing /\ write.verdict # "asked"
    /\ Verdict
    /\ write' = NoWrite
    /\ Reload
    /\ UNCHANGED <<settingsDaemon, settingsKnown, settingsShown, editor,
                   lastLoad, late, ui, byUser, bounds>>

-----------------------------------------------------------------------------
SettingsViewNext ==
    \/ \E k \in Keys, v \in SettingsValues : SettingsElsewhere(k, v) \/ Submit(k, v) \/ Choose(k, v)
    \/ SettingsSnapshot \/ Answer \/ AnswerFails \/ SettingsRefuse \/ CarryOut \/ CallFails
    \/ \E w \in late : CarryOutLate(w)
    \/ Loaded \/ LoadFails \/ SettingsShow \/ \E k \in Keys : Focus(k)
    \/ Handle \/ SettingsConfirm \/ SettingsCancel \/ Reset \/ Applied

\* The daemon answers and builds statuses, the worker threads return, and the
\* UI thread handles what is posted to it; the user need do nothing.
SettingsViewFairness ==
    /\ WF_pageVars(SettingsSnapshot) /\ WF_pageVars(Answer)
    /\ WF_pageVars(CarryOut) /\ WF_pageVars(Loaded)
    /\ WF_pageVars(LoadFails) /\ WF_pageVars(SettingsShow)
    /\ WF_pageVars(Handle) /\ WF_pageVars(Applied)
SettingsViewSpec ==
    SettingsViewInit /\ [][SettingsViewNext]_pageVars /\ SettingsViewFairness

-----------------------------------------------------------------------------
Quiet == loading = "no" /\ changes = <<>> /\ ~settingsDialog /\ write.key = Nothing

(* With nothing in progress and the last load a success, every drop-down   *)
(* that is not kept for a rejected value shows the page's configuration,   *)
(* also after a cancelled off and after changes elsewhere (settings.py,    *)
(* loaded and gpu_mode).                                                   *)
SelectsAgree == Quiet /\ lastLoad = "ok" => \A k \in Selects \ keep : editor[k] = settingsShown[k]

(* Reading the configuration never overwrites a text the user is editing   *)
(* or one that was rejected (settings.py, loaded).                         *)
TextIsKept ==
    [][\A k \in Inputs : editor'[k] # editor[k] /\ (focus = k \/ k \in keep)
                         => writes' > writes]_pageVars

(* Once it has read the configuration, the page comes to show what is in   *)
(* force, although a reload asked for during a load is dropped, a load may *)
(* answer with what a later change replaced, and statuses lag; only an     *)
(* unanswered dialog may hold it up (settings.py, reload and show).        *)
ShownFollows == [](settingsKnown => <>(settingsShown = cfg \/ settingsDialog))

(* Every verdict that reads "applying" gives way to an answer (settings.py, *)
(* apply and gpu_apply).                                                   *)
VerdictArrives == \A k \in Keys : label[k] = "applying" ~> label[k] # "applying"

(* Nothing but a choice of the user is ever written: setting the editors   *)
(* from a load, or back after a cancelled off, writes nothing, also in the *)
(* editor that has the focus (settings.py, on_select_changed).             *)
OnlyUserApplies == byUser

(* The editors show what was read, keep what was typed, and write only     *)
(* what the user chose (settings.py).                                      *)
SettingsViewSafe ==
    [](SettingsViewTypeOK /\ SelectsAgree /\ OnlyUserApplies) /\ TextIsKept
=============================================================================
