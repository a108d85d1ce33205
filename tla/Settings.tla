------------------------------ MODULE Settings ------------------------------
(***************************************************************************)
(* The daemon's configuration and GPU mode, and the threads that change    *)
(* them (linux/turbomac/daemon/main.py): one thread per socket client runs *)
(* set_config and set_gpu, background threads run _apply_gpu_from_config   *)
(* (startup, retries, a changed gpu.cap_w), and the control loop reloads   *)
(* the file on SIGHUP and schedules the retries.  Gpu.apply_mode is one    *)
(* step here, taken under Gpu.lock; module Gpu has its inside.             *)
(* config.load and config.save are read and write of disk; ordinary        *)
(* settings are one value, and a config.set names a new one.               *)
(***************************************************************************)
EXTENDS Integers

CONSTANTS
  Clients,         \* socket connections
  Background,      \* slots for background GPU threads
  Values,          \* values of the ordinary settings; validated ones
  Retries,         \* GPU_RETRIES
  MaxSettingsOps,  \* how many requests, signals, edits and restarts in a run
  Signals,         \* whether SIGHUP may come
  Edits            \* whether the file may be edited by hand

ConfigModes   == {"auto", "low", "off"}
SettingsConfigs == [gpu : ConfigModes, val : Values]
Threads == Clients \cup Background
NoOne   == "nobody"
NoMode    == "none"

ASSUME SettingsAssumption ==
  /\ Retries \in Nat \ {0} /\ MaxSettingsOps \in Nat
  /\ {Signals, Edits} \subseteq BOOLEAN
  /\ Clients \cap Background = {} /\ NoOne \notin Threads /\ Values # {}

VARIABLES
  config, disk,                    \* Daemon.config; the file
  gpu_mode,                        \* Gpu.mode, or None
  lock,                            \* who holds Gpu.lock: busy is lock # NoOne
  th,                              \* per thread: where it is (at), the mode to apply or the
                                   \* mode reached (mode), a background thread's outcome (out;
                                   \* a client only answers with it), and a flag: of a
                                   \* client, gpu.cap_w was accepted; of a background thread,
                                   \* this is attempt 0 (startup or gpu.cap_w)
  gpu_thread,                      \* Daemon.gpu_thread
  gpu_retry_left, gpu_retry_next,  \* next: a time has been set
  loaded,                          \* reload_config: what it has read, if it has: a set
  settingsOps,
  \* History variables.
  live,                            \* the ordinary settings last accepted; a failed save does
                                   \* not bind the next load
  unsaved,                         \* a save failed since the last good one
  stale,                           \* memory was loaded from an older file, or the file was
                                   \* edited since
  last_change,                     \* what ran the last GPU change under this configuration: a
                                   \* background thread, a request, or one that overlaps a
                                   \* request which has still to store its mode
  superseded                       \* a set_gpu has been let in since the last attempt 0

cfgVars  == <<config, disk>>
gpuStateVars  == <<gpu_mode, lock, gpu_thread, gpu_retry_left, gpu_retry_next>>
histVars == <<live, unsaved, stale, last_change, superseded>>
settingsVars     == <<cfgVars, gpuStateVars, th, loaded, settingsOps, histVars>>

Outcomes == {"ok", "retryable", "failed"}
Idle     == [at |-> "idle", mode |-> NoMode, out |-> "ok", flag |-> FALSE]
Started(first) == [Idle EXCEPT !.at = "read", !.flag = first]

SettingsOp == settingsOps < MaxSettingsOps /\ settingsOps' = settingsOps + 1

\* Daemon.__init__ and setup: load, then the startup GPU thread.
SettingsInit ==
  /\ disk \in SettingsConfigs /\ config = disk
  /\ gpu_mode = NoMode /\ lock = NoOne
  /\ \E b \in Background :
       /\ th = [t \in Threads |-> IF t = b THEN Started(TRUE) ELSE Idle]
       /\ gpu_thread = b
  /\ gpu_retry_left = 0 /\ gpu_retry_next = FALSE
  /\ loaded = {} /\ settingsOps = 0
  /\ live = config.val /\ unsaved = FALSE /\ stale = FALSE
  /\ last_change = NoMode /\ superseded = FALSE

-----------------------------------------------------------------------------
(* Requests *)

\* config.save of a configuration that becomes the current one: memory
\* follows even if the save fails (persisted: False).
Store(new, saved) ==
  /\ config' = new
  /\ disk' = IF saved THEN new ELSE disk
  /\ unsaved' = ~saved
  /\ stale' = (stale /\ ~saved)

\* set_config under cfg_lock: validate, save, replace; then its side
\* effects, then the GPU mode that came with it (m).
SetConfig(c, v, withCap, m, saved) ==
  /\ SettingsOp /\ th[c] = Idle
  /\ th' = [th EXCEPT ![c] = [Idle EXCEPT !.at = "side", !.mode = m, !.flag = withCap]]
  /\ Store([config EXCEPT !.val = v], saved)
  /\ live' = v
  /\ UNCHANGED <<gpuStateVars, loaded, last_change, superseded>>

\* _side_effects: a new gpu.cap_w is applied by a thread of its own, in mode
\* auto and while no change is under way.
SideEffects(c) ==
  /\ th[c].at = "side"
  /\ IF th[c].flag /\ config.gpu = "auto" /\ lock = NoOne
     THEN \E b \in Background :
            /\ th[b] = Idle
            /\ th' = [th EXCEPT ![c].at = "mode", ![c].flag = FALSE,
                                ![b] = Started(TRUE)]
            /\ gpu_thread' = b /\ superseded' = FALSE
     ELSE /\ th' = [th EXCEPT ![c].at = "mode", ![c].flag = FALSE]
          /\ UNCHANGED <<gpu_thread, superseded>>
  /\ UNCHANGED <<cfgVars, gpu_mode, lock, gpu_retry_left, gpu_retry_next,
                 loaded, settingsOps, live, unsaved, stale, last_change>>

\* The rest of set_config: a mode the configuration has already is accepted
\* as it is; another one goes to set_gpu.
CompareMode(c) ==
  /\ th[c].at = "mode"
  /\ th' = [th EXCEPT ![c] = IF th[c].mode \in {NoMode, config.gpu} THEN Idle
                             ELSE [Idle EXCEPT !.at = "gate", !.mode = th[c].mode]]
  /\ UNCHANGED <<cfgVars, gpuStateVars, loaded, settingsOps, histVars>>

\* dispatch gpu.set.
GpuSet(c, m) ==
  /\ SettingsOp /\ th[c] = Idle
  /\ th' = [th EXCEPT ![c] = [Idle EXCEPT !.at = "gate", !.mode = m]]
  /\ UNCHANGED <<cfgVars, gpuStateVars, loaded, histVars>>

\* set_gpu: busy is tested before the lock is taken.
SetGpuGate(c) ==
  /\ th[c].at = "gate"
  /\ IF lock # NoOne
     THEN /\ th' = [th EXCEPT ![c] = Idle]        \* already running
          /\ UNCHANGED <<gpu_retry_left, superseded>>
     ELSE /\ th' = [th EXCEPT ![c].at = "lock"]
          /\ gpu_retry_left' = 0 /\ superseded' = TRUE
  /\ UNCHANGED <<cfgVars, gpu_mode, lock, gpu_thread, gpu_retry_next, loaded,
                 settingsOps, live, unsaved, stale, last_change>>

\* Mutant of Persist: the mode goes into the configuration on disk.
PersistIntoFile(c, saved) ==
  /\ th[c].at = "applied"
  /\ th' = [th EXCEPT ![c] = Idle]
  /\ Store([disk EXCEPT !.gpu = th[c].mode], saved)
  /\ UNCHANGED <<gpuStateVars, loaded, settingsOps, live, last_change, superseded>>

\* The end of set_gpu: the mode reached goes into the configuration that is
\* current now, under cfg_lock.
Persist(c, saved) ==
  /\ th[c].at = "applied"
  /\ th' = [th EXCEPT ![c] = Idle]
  /\ Store([config EXCEPT !.gpu = th[c].mode], saved)
  /\ UNCHANGED <<gpuStateVars, loaded, settingsOps, live, last_change, superseded>>

-----------------------------------------------------------------------------
(* Gpu.apply_mode and the background threads *)

Acquire(t) ==
  /\ th[t].at = "lock" /\ lock = NoOne
  /\ lock' = t /\ th' = [th EXCEPT ![t].at = "apply"]
  /\ UNCHANGED <<cfgVars, gpu_mode, gpu_thread, gpu_retry_left, gpu_retry_next,
                 loaded, settingsOps, histVars>>

\* Mutant of ApplyMode: a failure leaves the lock taken.
ApplyKeepsLock(t, out) ==
  /\ th[t].at = "apply"
  /\ gpu_mode' = th[t].mode /\ lock' = IF out = "ok" THEN NoOne ELSE lock
  /\ th' = [th EXCEPT ![t].at = "applied", ![t].out = out]
  /\ UNCHANGED <<cfgVars, gpu_thread, gpu_retry_left, gpu_retry_next, loaded,
                 settingsOps, histVars>>

\* A failed off ends in low; auto and low count as the mode in any case.
ApplyMode(t, out) ==
  LET reached == IF th[t].mode = "off" /\ out # "ok" THEN "low" ELSE th[t].mode IN
  /\ th[t].at = "apply"
  /\ gpu_mode' = reached /\ lock' = NoOne
  /\ th' = [th EXCEPT ![t].at = "applied", ![t].mode = reached,
                       ![t].out = IF t \in Background THEN out ELSE @]
  /\ last_change' = IF t \notin Clients THEN "background"
                    ELSE IF \E c \in Clients : th[c].at = "applied" THEN "overlap"
                    ELSE "request"
  /\ UNCHANGED <<cfgVars, gpu_thread, gpu_retry_left, gpu_retry_next, loaded,
                 settingsOps, live, unsaved, stale, superseded>>

\* _apply_gpu_from_config takes the mode from the configuration before it
\* waits for the lock.
ReadMode(b) ==
  /\ th[b].at = "read"
  /\ th' = [th EXCEPT ![b].at = "lock", ![b].mode = config.gpu]
  /\ UNCHANGED <<cfgVars, gpuStateVars, loaded, settingsOps, histVars>>

\* The end of _apply_gpu_from_config: attempt 0 arms the retries, the others
\* end them on success or when none is left.
AfterApply(b) ==
  LET retryable == th[b].out = "retryable" IN
  /\ th[b].at = "applied"
  /\ th' = [th EXCEPT ![b] = Idle]
  /\ IF th[b].flag
     THEN /\ gpu_retry_left' = IF retryable THEN Retries ELSE gpu_retry_left
          /\ gpu_retry_next' = (gpu_retry_next /\ ~retryable)
     ELSE /\ gpu_retry_left' = IF retryable THEN gpu_retry_left ELSE 0
          /\ UNCHANGED gpu_retry_next
  /\ UNCHANGED <<cfgVars, gpu_mode, lock, gpu_thread, loaded, settingsOps, histVars>>

RetryLeft == gpu_retry_left - 1

RetryPending == gpu_retry_left > 0

\* _maybe_retry_gpu, in the control loop: first a time is set, and when it
\* has come a thread is started.
MaybeRetryGpu ==
  /\ loaded = {}
  /\ RetryPending /\ lock = NoOne /\ th[gpu_thread] = Idle
  /\ gpu_retry_next' = TRUE
  /\ IF gpu_retry_next
     THEN /\ gpu_retry_left' = RetryLeft
          /\ \E b \in Background :
               /\ th[b] = Idle
               /\ th' = [th EXCEPT ![b] = Started(FALSE)] /\ gpu_thread' = b
     ELSE UNCHANGED <<th, gpu_thread, gpu_retry_left>>
  /\ UNCHANGED <<cfgVars, gpu_mode, lock, loaded, settingsOps, histVars>>

-----------------------------------------------------------------------------
(* SIGHUP, hand edits and restarts *)

\* reload_config reads the file without cfg_lock ...
ReloadLoad ==
  /\ Signals /\ SettingsOp /\ loaded = {} /\ loaded' = {disk}
  /\ UNCHANGED <<cfgVars, gpuStateVars, th, histVars>>

\* ... and replaces the configuration under it.  Nothing is applied.
ReloadSet ==
  \E cfg \in loaded :
    /\ config' = cfg /\ loaded' = {}
    /\ live' = IF unsaved \/ stale \/ cfg # disk THEN cfg.val ELSE live
    /\ unsaved' = (unsaved /\ cfg # disk)
    /\ stale' = (cfg # disk)
    /\ last_change' = NoMode
    /\ UNCHANGED <<disk, gpuStateVars, th, settingsOps, superseded>>

HandEdit(new) ==
  /\ Edits /\ SettingsOp /\ disk' = new /\ stale' = TRUE
  /\ UNCHANGED <<config, gpuStateVars, th, loaded, live, unsaved, last_change,
                 superseded>>

\* The daemon dies or stops and is started again.
SettingsRestart ==
  /\ SettingsOp /\ config' = disk /\ UNCHANGED disk
  /\ gpu_mode' \in {NoMode, IF gpu_mode = "off" THEN "off" ELSE NoMode}
  /\ lock' = NoOne
  /\ \E b \in Background :
       /\ th' = [t \in Threads |-> IF t = b THEN Started(TRUE) ELSE Idle]
       /\ gpu_thread' = b
  /\ gpu_retry_left' = 0 /\ gpu_retry_next' = FALSE /\ loaded' = {}
  /\ live' = IF unsaved \/ stale THEN disk.val ELSE live
  /\ unsaved' = FALSE /\ stale' = FALSE /\ last_change' = NoMode
  /\ superseded' = FALSE

-----------------------------------------------------------------------------
ThreadStep(t) == Acquire(t) \/ \E out \in Outcomes : ApplyMode(t, out)
BackgroundStep(b) == ThreadStep(b) \/ ReadMode(b) \/ AfterApply(b)
ClientStep(c) ==
  \/ ThreadStep(c) \/ SideEffects(c) \/ CompareMode(c) \/ SetGpuGate(c)
  \/ \E saved \in BOOLEAN : Persist(c, saved)

SettingsNext ==
  \/ \E c \in Clients, v \in Values, withCap, saved \in BOOLEAN,
        m \in ConfigModes \cup {NoMode} : SetConfig(c, v, withCap, m, saved)
  \/ \E c \in Clients, m \in ConfigModes : GpuSet(c, m)
  \/ \E c \in Clients : ClientStep(c)
  \/ \E b \in Background : BackgroundStep(b)
  \/ MaybeRetryGpu \/ ReloadLoad \/ ReloadSet \/ SettingsRestart
  \/ \E new \in SettingsConfigs : HandEdit(new)

\* Threads that have begun run on, and the control loop keeps ticking (the
\* watchdog restarts a daemon whose loop does not).
SettingsFairness ==
  /\ \A b \in Background : WF_settingsVars(BackgroundStep(b))
  /\ \A c \in Clients : WF_settingsVars(ClientStep(c))
  /\ WF_settingsVars(MaybeRetryGpu) /\ WF_settingsVars(ReloadSet)
SettingsSpec == SettingsInit /\ [][SettingsNext]_settingsVars /\ SettingsFairness

-----------------------------------------------------------------------------
SettingsTypeOK ==
  /\ config \in SettingsConfigs /\ disk \in SettingsConfigs
  /\ gpu_mode \in ConfigModes \cup {NoMode} /\ lock \in Threads \cup {NoOne}
  /\ th \in [Threads -> [at : {"idle", "side", "mode", "gate", "read", "lock",
                               "apply", "applied"},
                         mode : ConfigModes \cup {NoMode}, out : Outcomes, flag : BOOLEAN]]
  /\ gpu_thread \in Background
  /\ gpu_retry_left \in 0..Retries /\ gpu_retry_next \in BOOLEAN
  /\ loaded \subseteq SettingsConfigs /\ settingsOps \in 0..MaxSettingsOps

Quiet == loaded = {} /\ \A t \in Threads : th[t] = Idle

\* The file and the memory are apart only while a save that failed has not
\* been made good, after a hand edit that has not been read, or after a
\* reload that lost a race with a save.
DiskIsMemory == ~unsaved /\ ~stale => disk = config

\* README: a change that was accepted is live.  No GPU change, failed save,
\* restart or reload takes it back, but for a reload that has read the file
\* before a save and replaces the configuration after it (live follows it).
AcceptedIsLive == config.val = live

\* set_gpu "persists the mode actually reached": once everything has come to
\* rest after a GPU request, the configuration has the mode of the hardware,
\* unless two requests overlapped (the first may store its mode last).
ReachedIsStored == Quiet /\ last_change = "request" => config.gpu = gpu_mode

\* set_gpu: an explicit request supersedes the startup retries.
RetrySuperseded ==
  [][gpu_retry_left' = gpu_retry_left - 1 /\ gpu_retry_next /\ settingsOps' = settingsOps
       => ~superseded]_settingsVars

\* The startup retries come to an end, whatever requests, reloads and
\* restarts come in between.
RetriesEnd == gpu_retry_left > 0 ~> gpu_retry_left = 0

\* Every request is answered: nobody waits for Gpu.lock for ever.
RequestsAnswered == \A c \in Clients : th[c] # Idle ~> th[c] = Idle

\* Memory, file and hardware agree on the configuration in force (main.py,
\* set_config, set_gpu and reload_config).
SettingsSafe == SettingsTypeOK /\ DiskIsMemory /\ AcceptedIsLive /\ ReachedIsStored

\* Retries and requests come to an end (main.py, _gpu_startup and set_gpu).
RequestsSettle == RetriesEnd /\ RequestsAnswered
=============================================================================
