------------------------------- MODULE GpuView -------------------------------
(***************************************************************************)
(* The GPU page of turbomactop (tui/screens/gpu.py): one radio button per  *)
(* mode, a change that runs on a worker thread, and statuses that were     *)
(* built before the change ended and must not move the buttons back.       *)
(*                                                                         *)
(* The daemon (Settings.tla has its side) is a mode, changed by requests   *)
(* and, MaxElsewhere times, by others; a status is the mode it reports.    *)
(***************************************************************************)
EXTENDS Naturals

CONSTANTS Modes, Off, None, MaxPicks, MaxElsewhere, MaxLost

ASSUME GpuViewAssumption ==
    /\ Off \in Modes /\ None \notin Modes
    /\ {MaxPicks, MaxElsewhere, MaxLost} \subseteq Nat

VARIABLES
    mode,      \* the daemon's config["gpu"]["mode"]
    snapshot,  \* the mode in status_snapshot
    flight,    \* the mode in a status sent and not yet shown, or None
    current,   \* config_mode of the last status shown
    radio,     \* the pressed button
    pending,   \* a change is running
    expect,    \* the mode our last change reached, until a status confirms it
    dialog,    \* the question "type OFF" is on the screen
    reply,     \* the answer to the change: None, a mode, or "error"
    picks, elsewhere, lost

gpuViewVars == <<mode, snapshot, flight, current, radio, pending, expect, dialog, reply,
          picks, elsewhere, lost>>

Maybe == Modes \cup {None}
GpuError == "error"

GpuViewTypeOK ==
    /\ mode \in Modes /\ snapshot \in Modes /\ flight \in Maybe /\ current \in Maybe
    /\ radio \in Maybe /\ pending \in Maybe /\ expect \in Maybe /\ dialog \in BOOLEAN
    /\ reply \in Maybe \cup {GpuError}
    /\ picks \in 0..MaxPicks /\ elsewhere \in 0..MaxElsewhere /\ lost \in 0..MaxLost

GpuViewInit ==
    /\ mode \in Modes /\ snapshot = mode /\ flight = None /\ current = None
    /\ radio = None
    /\ pending = None /\ expect = None /\ dialog = FALSE /\ reply = None
    /\ picks = 0 /\ elsewhere = 0 /\ lost = 0

-----------------------------------------------------------------------------
(* The daemon. *)

Elsewhere(m) ==
    /\ elsewhere < MaxElsewhere /\ m # mode
    /\ mode' = m /\ elsewhere' = elsewhere + 1
    /\ UNCHANGED <<snapshot, flight, current, radio, pending, expect, dialog,
                   reply, picks, lost>>

\* Daemon.build_status, and the subscription that sends it
Snapshot ==
    /\ snapshot # mode
    /\ snapshot' = mode
    /\ UNCHANGED <<mode, flight, current, radio, pending, expect, dialog, reply,
                   picks, elsewhere, lost>>

Send ==
    /\ flight = None /\ (current # snapshot \/ expect # None \/ radio # snapshot)
    /\ flight' = snapshot
    /\ UNCHANGED <<mode, snapshot, current, radio, pending, expect, dialog,
                   reply, picks, elsewhere, lost>>

\* gpu.set: the mode it reached, which need not be the one asked for
Reach(m) ==
    /\ pending # None /\ reply = None
    /\ mode' = m /\ reply' = m
    /\ UNCHANGED <<snapshot, flight, current, radio, pending, expect, dialog,
                   picks, elsewhere, lost>>

\* Refused, or the call failed
Refuse ==
    /\ pending # None /\ reply = None /\ lost < MaxLost
    /\ reply' = GpuError /\ lost' = lost + 1
    /\ UNCHANGED <<mode, snapshot, flight, current, radio, pending, expect,
                   dialog, picks, elsewhere>>

-----------------------------------------------------------------------------
(* The page. *)

Effective(e, c) == IF e # None THEN e ELSE c
Pressed(m) == radio' = IF m \in Modes THEN m ELSE radio

\* Mutant of Show: the buttons follow every status.
ShowAlways ==
    /\ flight # None
    /\ flight' = None /\ current' = flight
    /\ expect' = IF expect = flight THEN None ELSE expect
    /\ Pressed(flight)
    /\ UNCHANGED <<mode, snapshot, pending, dialog, reply, picks, elsewhere, lost>>

\* show: a status that confirms the change ends the wait for it.
Show ==
    /\ flight # None
    /\ flight' = None /\ current' = flight
    /\ expect' = IF expect = flight THEN None ELSE expect
    /\ IF pending = None /\ expect' = None THEN Pressed(flight) ELSE UNCHANGED radio
    /\ UNCHANGED <<mode, snapshot, pending, dialog, reply, picks, elsewhere, lost>>

Apply(m) == pending' = m /\ reply' = None

\* on_radio_set_changed
Pick(m) ==
    /\ pending = None /\ ~dialog /\ picks < MaxPicks /\ m # radio
    /\ radio' = m /\ picks' = picks + 1
    /\ IF m = Effective(expect, current) THEN UNCHANGED <<pending, reply, dialog>>
       ELSE IF m = Off THEN dialog' = TRUE /\ UNCHANGED <<pending, reply>>
       ELSE Apply(m) /\ UNCHANGED dialog
    /\ UNCHANGED <<mode, snapshot, flight, current, expect, elsewhere, lost>>

\* off_answer
Confirm ==
    /\ dialog
    /\ dialog' = FALSE /\ Apply(Off)
    /\ UNCHANGED <<mode, snapshot, flight, current, radio, expect, picks,
                   elsewhere, lost>>

Cancel ==
    /\ dialog
    /\ dialog' = FALSE /\ Pressed(Effective(expect, current))
    /\ UNCHANGED <<mode, snapshot, flight, current, pending, expect, reply,
                   picks, elsewhere, lost>>

\* done
Expected == IF reply = GpuError THEN None ELSE reply

Done ==
    /\ reply # None
    /\ pending' = None /\ expect' = Expected /\ reply' = None
    /\ Pressed(Effective(Expected, current))
    /\ UNCHANGED <<mode, snapshot, flight, current, dialog, picks, elsewhere, lost>>

-----------------------------------------------------------------------------
GpuViewNext == \/ \E m \in Modes : Elsewhere(m) \/ Reach(m) \/ Pick(m)
               \/ Snapshot \/ Send \/ Refuse \/ Show \/ Confirm \/ Cancel \/ Done

GpuViewFairness ==
    /\ WF_gpuViewVars(Snapshot) /\ WF_gpuViewVars(Send)
    /\ WF_gpuViewVars(Show) /\ WF_gpuViewVars(Done)
    /\ WF_gpuViewVars(\E m \in Modes : Reach(m))
GpuViewSpec == GpuViewInit /\ [][GpuViewNext]_gpuViewVars /\ GpuViewFairness

-----------------------------------------------------------------------------
(* Statuses built before a change ended do not move the buttons: they stay *)
(* on the mode asked for while it is being applied, then on the mode the   *)
(* daemon said it reached, until a status agrees.  Only a confirmed off    *)
(* may start from buttons that moved behind its dialog (gpu.py, show).     *)
ButtonsHold ==
    /\ pending \notin {None, Off} => radio = pending
    /\ pending = None /\ expect # None /\ ~dialog => radio = expect

(* The buttons end up on the mode in force, after refusals, cancelled      *)
(* dialogs and changes that reached another mode than the one asked for    *)
(* (gpu.py, show, off_answer and done).                                    *)
RadioSettles == current # None ~> radio = mode \/ dialog

(* The buttons hold against statuses of before the change (gpu.py, show).  *)
GpuViewSafe == GpuViewTypeOK /\ ButtonsHold
=============================================================================
