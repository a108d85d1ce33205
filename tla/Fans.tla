-------------------------------- MODULE Fans --------------------------------
(***************************************************************************)
(* The fan floor (linux/turbomac/daemon/fans.py): decide, the controller's *)
(* writes, retries and restores, and what survives a crash: the fan minima *)
(* in the SMC and fan-defaults.json.  FanController.tick runs once a       *)
(* second with a configuration the control loop read before it took the    *)
(* controller's lock (main.py); on_config runs on a socket thread, also    *)
(* with a configuration it read before.  Times are ages in ticks.          *)
(***************************************************************************)
EXTENDS Integers, Sequences, FiniteSetsExt

CONSTANTS
  Fans,
  HwMin, KnownMin, FanMax,  \* per fan: its own minimum, KNOWN_HW_MIN, fan_max
  Slack,                    \* CAPTURE_SLACK_RPM
  FanConfigs,               \* "fan" sections that config.validate lets through
  PowerHyst, RetryAfter,    \* POWER_HYST_W, RETRY_S
  Temps, Powers,            \* what a tick may be told; None is among them
  MaxFanOps,                \* configuration changes, stops and crashes in a run
  MaxFailures               \* ticks or restores with a write that fails

NoReading == -1

ASSUME FansAssumption ==
  /\ {HwMin, KnownMin, FanMax} \subseteq [Fans -> Nat] /\ {Slack, PowerHyst, RetryAfter} \subseteq Nat
  /\ Temps \cup Powers \subseteq Nat \cup {NoReading}
  /\ \A n \in Fans : HwMin[n] > 0 /\ HwMin[n] <= FanMax[n] /\ HwMin[n] <= KnownMin[n]
  /\ \A c \in FanConfigs : /\ c.mode \in {"auto", "floor"}
                           /\ {c.t, c.rpm} \subseteq [1..3 -> Nat]
                           /\ {c.hysteresis, c.interval, c.power_floor_w} \subseteq Nat
                           /\ {c.power_floor_rpm, c.max_rpm} \subseteq Nat \ {0}
                           /\ c.t[1] < c.t[2] /\ c.t[2] < c.t[3]
                           /\ c.rpm[1] <= c.rpm[2] /\ c.rpm[2] <= c.rpm[3]

VARIABLES
  fanConfig,        \* Daemon.config["fan"]
  seenConfig,       \* what the control loop has read for this tick: a set
  pending,          \* modes that on_config calls under way have been given
  fanMode, st,      \* FanController.mode and FanState
  written, failed,  \* per fan: what fan_min holds as far as known, or None;
                    \* [rpm, age] of the last write that failed, rpm 0 if none
  defaults, file,   \* the minima to restore; fan-defaults.json, <<>> if none
  hw,               \* fan_min in the SMC
  fanOps, failures,
  \* History variables.
  temp,             \* the temperature of the last tick in mode floor
  cool              \* per step: for how many ticks the temperature has been
                    \* known and below its release threshold; 0 is this tick

fansCtlVars == <<fanMode, st, written, failed, hw>>
fansVars    == <<fanConfig, seenConfig, pending, fansCtlVars, defaults, file, fanOps, failures,
             temp, cool>>

FanState0 == [power_on |-> FALSE, power_age |-> NoReading, level |-> 0, temp_age |-> NoReading]
NoFailure == [rpm |-> 0, age |-> 0]
Older(age) == IF age = NoReading THEN 0 ELSE age + 1

-----------------------------------------------------------------------------
(* decide *)

PowerRule(w, c) ==
  IF w = NoReading THEN [on |-> FALSE, age |-> NoReading]
  ELSE IF w >= c.power_floor_w THEN [on |-> TRUE, age |-> NoReading]
  ELSE IF w < c.power_floor_w - PowerHyst /\ st.power_on
  THEN IF Older(st.power_age) >= c.interval
       THEN [on |-> FALSE, age |-> NoReading]
       ELSE [on |-> TRUE, age |-> Older(st.power_age)]
  ELSE [on |-> st.power_on, age |-> NoReading]

Met(t, c) == Max({0} \cup {i \in 1..3 : t >= c.t[i]})

StepDown(c) ==
  IF Older(st.temp_age) >= c.interval
  THEN [level |-> st.level - 1, age |-> IF st.level = 1 THEN NoReading ELSE 0]
  ELSE [level |-> st.level, age |-> Older(st.temp_age)]

\* Mutant of Ladder: the time below the threshold is not started afresh when
\* the temperature comes back up.
LadderKeepsAge(t, c) ==
  IF t = NoReading THEN [level |-> 0, age |-> NoReading]
  ELSE IF Met(t, c) >= st.level THEN [level |-> Met(t, c), age |-> NoReading]
  ELSE StepDown(c)

\* The ladder goes up at once and down one step per interval.
Ladder(t, c) ==
  IF t = NoReading THEN [level |-> 0, age |-> NoReading]
  ELSE IF Met(t, c) >= st.level THEN [level |-> Met(t, c), age |-> NoReading]
  ELSE IF t < c.t[st.level] - c.hysteresis THEN StepDown(c)
  ELSE [level |-> st.level, age |-> NoReading]

Decide(t, w, c) ==
  LET p == PowerRule(w, c)
      l == Ladder(t, c)
  IN [power_on |-> p.on, power_age |-> p.age, level |-> l.level, temp_age |-> l.age]

Target(s, c) ==
  Min({c.max_rpm, Max({0} \cup (IF s.level > 0 THEN {c.rpm[s.level]} ELSE {})
                          \cup (IF s.power_on THEN {c.power_floor_rpm} ELSE {}))})

-----------------------------------------------------------------------------
(* Writes.  ok: the fans whose write reads back within 50 rpm.  Of the     *)
(* others some may have taken the value although the readback failed.      *)

FansClamp(n, target, max_rpm) ==
  IF target <= 0 THEN defaults[n]
  ELSE Min({Max({target, defaults[n]}), Max({defaults[n], Min({max_rpm, FanMax[n]})})})

\* Mutant of Due: a value that failed is never tried again.
DueOnce(n, want) == want # written[n] /\ failed[n].rpm # want

\* apply skips what is written already and what failed less than RETRY_S ago.
Due(n, want) ==
  want # written[n] /\ ~(failed[n].rpm = want /\ failed[n].age + 1 < RetryAfter)

FansAged(f) == IF f.rpm # 0 /\ f.age < RetryAfter THEN [f EXCEPT !.age = @ + 1] ELSE f

FansApply(target, max_rpm, ok) ==
  LET want(n) == FansClamp(n, target, max_rpm) IN
  /\ \E landed \in SUBSET Fans :
       /\ ok \subseteq landed
       /\ hw' = [n \in Fans |-> IF Due(n, want(n)) /\ n \in landed THEN want(n) ELSE hw[n]]
  /\ written' = [n \in Fans |-> IF ~Due(n, want(n)) THEN written[n]
                                ELSE IF n \in ok THEN want(n) ELSE NoReading]
  /\ failed' = [n \in Fans |-> IF ~Due(n, want(n)) THEN FansAged(failed[n])
                               ELSE IF n \in ok THEN NoFailure
                               ELSE [rpm |-> want(n), age |-> 0]]

\* restore, of the minima d; a write that fails here is not remembered.
Restore(d, ok) ==
  LET same(n) == hw[n] = d[n] IN
  /\ st' = FanState0
  /\ \E landed \in SUBSET Fans :
       ok \subseteq landed /\ hw' = [n \in Fans |-> IF n \in landed THEN d[n] ELSE hw[n]]
  /\ written' = [n \in Fans |-> IF same(n) \/ n \in ok THEN d[n] ELSE NoReading]
  /\ failed' = [n \in Fans |-> IF ~same(n) /\ n \in ok THEN NoFailure ELSE failed[n]]

\* Writes fail at most MaxFailures times.
Failing(ok) == /\ failures + (IF ok = Fans THEN 0 ELSE 1) <= MaxFailures
               /\ failures' = failures + (IF ok = Fans THEN 0 ELSE 1)

-----------------------------------------------------------------------------
(* The control loop and the socket threads *)

FansOp == fanOps < MaxFanOps /\ fanOps' = fanOps + 1

\* _fan_step reads the configuration.
TickRead ==
  /\ seenConfig = {} /\ seenConfig' = {fanConfig}
  /\ UNCHANGED <<fanConfig, pending, fansCtlVars, defaults, file, fanOps,
                 failures, temp, cool>>

\* FanController.tick: the mode it is told.
Follows(c) == c.mode

Cooler(t, c) ==
  [i \in 1..3 |-> IF t # NoReading /\ t < c.t[i] - c.hysteresis
                  THEN Min({cool[i] + 1, c.interval}) ELSE NoReading]

\* tick in mode floor, after a change to it if the mode is new.
TickFloor(c, t, w, ok) ==
  LET s == IF fanMode = "floor" THEN Decide(t, w, c)
           ELSE [power_on |-> w # NoReading /\ w >= c.power_floor_w, power_age |-> NoReading,
                 level |-> IF t = NoReading THEN 0 ELSE Met(t, c), temp_age |-> NoReading]
  IN /\ st' = s
     /\ FansApply(Target(s, c), c.max_rpm, ok)
     /\ temp' = t /\ cool' = Cooler(t, c)

FansTick(t, w, ok) ==
  \E c \in seenConfig :
    /\ seenConfig' = {} /\ fanMode' = Follows(c)
    /\ Failing(ok)
    /\ IF fanMode' = "floor" THEN TickFloor(c, t, w, ok)
       ELSE /\ UNCHANGED <<temp, cool>>
            /\ IF fanMode # "auto" THEN Restore(defaults, ok)
               ELSE UNCHANGED <<st, written, failed, hw>>
    /\ UNCHANGED <<fanConfig, pending, defaults, file, fanOps>>

\* set_config replaces the configuration and reads it for on_config ...
FansSetConfig(c) ==
  /\ FansOp /\ c # fanConfig /\ fanConfig' = c
  /\ pending' = pending \cup {c.mode}
  /\ UNCHANGED <<seenConfig, fansCtlVars, defaults, file, failures, temp, cool>>

\* ... which restores at once if that is a change to auto.
OnConfig(m, ok) ==
  /\ m \in pending /\ pending' = pending \ {m}
  /\ IF m = "auto" /\ fanMode # "auto"
     THEN fanMode' = "auto" /\ Restore(defaults, ok) /\ Failing(ok)
     ELSE ok = Fans /\ UNCHANGED <<fansCtlVars, failures>>
  /\ UNCHANGED <<fanConfig, seenConfig, defaults, file, fanOps, temp, cool>>

-----------------------------------------------------------------------------
(* Stop, crash and start *)

\* _plausible.
Plausible(n, v) == v > 0 /\ v <= FanMax[n] /\ v <= KnownMin[n] + Slack

\* fan-defaults.json holds a plausible minimum for every fan.
ValidFile == DOMAIN file = Fans /\ \A n \in Fans : Plausible(n, file[n])

\* _load_or_capture: the saved minima, else the live ones, with the known
\* ones in the place of those that look like a floor.
LoadOrCapture(live) ==
  IF ValidFile THEN file
  ELSE [n \in Fans |-> IF Plausible(n, live[n]) THEN live[n] ELSE KnownMin[n]]

\* Plausible live minima are saved if none are.
Saved(live, saves) ==
  IF ~ValidFile /\ saves /\ \A n \in Fans : Plausible(n, live[n]) THEN live ELSE file

\* FanController() and start of a new daemon, which finds the minima live.
\* In mode auto it clears a floor that was left behind.
StartWith(live, d, ok) ==
  /\ fanMode' = fanConfig.mode /\ st' = FanState0
  /\ LET clear == fanConfig.mode = "auto" IN
     /\ hw' = [n \in Fans |-> IF clear /\ n \in ok THEN d[n] ELSE live[n]]
     /\ written' = [n \in Fans |-> IF ~clear \/ live[n] = d[n] THEN live[n]
                                   ELSE IF n \in ok THEN d[n] ELSE NoReading]
  /\ failed' = [n \in Fans |-> NoFailure]
  /\ defaults' = d

\* A crash leaves the floor in place; a clean stop writes the minima back.
FansRestart(clean, stopped, ok, saves) ==
  LET live == [n \in Fans |-> IF clean /\ n \in stopped THEN defaults[n] ELSE hw[n]] IN
  /\ FansOp /\ (clean \/ stopped = Fans)
  /\ Failing(ok \cap stopped)
  /\ StartWith(live, LoadOrCapture(live), ok)
  /\ file' = Saved(live, saves)
  /\ seenConfig' = {} /\ pending' = {}
  /\ temp' = NoReading /\ cool' = [i \in 1..3 |-> NoReading]
  /\ UNCHANGED fanConfig

\* The first start, after a boot that left the fans' own minima; saving them may fail.
FansInit ==
  /\ fanConfig \in FanConfigs /\ fanMode = fanConfig.mode /\ st = FanState0
  /\ hw = HwMin /\ defaults = HwMin /\ written = HwMin
  /\ file \in {HwMin, <<>>}
  /\ failed = [n \in Fans |-> NoFailure]
  /\ seenConfig = {} /\ pending = {} /\ fanOps = 0 /\ failures = 0
  /\ temp = NoReading /\ cool = [i \in 1..3 |-> NoReading]

AnyTick == \E t \in Temps, w \in Powers, ok \in SUBSET Fans : FansTick(t, w, ok)
AnyOnConfig == \E m \in {"auto", "floor"}, ok \in SUBSET Fans : OnConfig(m, ok)

FansNext ==
  \/ TickRead \/ AnyTick \/ AnyOnConfig
  \/ \E c \in FanConfigs : FansSetConfig(c)
  \/ \E clean, saves \in BOOLEAN, stopped, ok \in SUBSET Fans :
       FansRestart(clean, stopped, ok, saves)

\* The 1 Hz tick keeps coming, and a socket thread finishes its call: what these
\* steps (or a restart) do to the state that makes them possible.
TickBegins == seenConfig = {} /\ seenConfig' = {fanConfig}
TickEnds   == seenConfig # {} /\ seenConfig' = {}
CallEnds   == \E m \in pending : pending' = pending \ {m}
FansFairness == WF_seenConfig(TickBegins) /\ WF_seenConfig(TickEnds) /\ WF_pending(CallEnds)
FansSpec == FansInit /\ [][FansNext]_fansVars /\ FansFairness

-----------------------------------------------------------------------------
FansTypeOK ==
  /\ fanConfig \in FanConfigs /\ seenConfig \subseteq FanConfigs
  /\ pending \subseteq {"auto", "floor"}
  /\ fanMode \in {"auto", "floor"} /\ st.level \in 0..3 /\ st.power_on \in BOOLEAN
  /\ \A n \in Fans : /\ written[n] \in Nat \cup {NoReading}
                     /\ failed[n].age \in 0..RetryAfter

\* No fan is ever told a floor below its own minimum or above its maximum,
\* through floors, restores, failed writes, crashes and captures.
FloorWithinFan == \A n \in Fans : hw[n] >= HwMin[n] /\ hw[n] <= FanMax[n]

\* README: the minima are captured before the first floor is written.  Once they
\* are saved, what the controller restores is the fan's own minimum after any
\* crash, whatever floor it finds.
DefaultsAreHardware == file = HwMin => defaults = HwMin

\* After a tick at or above a step's temperature the fans turn at that step
\* at least, or the write has failed and waits for its retry.  (For one
\* configuration: a tick works with the thresholds it has read.)
HeatIsAnswered ==
  fanMode = "floor" /\ temp # NoReading =>
    \A n \in Fans, i \in 1..3 :
      temp >= fanConfig.t[i] =>
        \/ hw[n] >= Min({fanConfig.rpm[i], fanConfig.max_rpm, FanMax[n]})
        \/ failed[n].rpm # 0

\* A step of the ladder that is given up, but for a missing sample, a change
\* of mode or a start of the daemon, is the topmost one, and only when the
\* temperature has been below its release threshold for so many ticks.
ReleasedAfter(ticks) ==
  st'.level < st.level /\ fanMode = "floor" /\ fanMode' = "floor" /\ fanOps' = fanOps =>
    \/ temp' = NoReading
    \/ st'.level = st.level - 1 /\ cool'[st.level] >= ticks

\* The fans slow down one step at a time, each after all but one tick of
\* step_down_interval_s, whatever the temperature did in between.
SlowRelease == [][ReleasedAfter(fanConfig.interval - 1)]_fansVars

\* In mode floor a fan whose minimum is not known, because a write failed, is
\* written again.  (In mode auto a restore that failed is not.)
FailedIsRetried ==
  \A n \in Fans : written[n] = NoReading ~> written[n] # NoReading \/ fanMode = "auto"

\* Whatever order ticks and on_config calls come in with what they had read,
\* the controller ends up in the configured mode.
ModeFollowsConfig == <>[](fanMode = fanConfig.mode)

\* The floor stays within the fan, answers heat at once and gives way slowly,
\* and the minima it gives way to are the fan's own (fans.py).
FansSafe ==
  /\ [](FansTypeOK /\ FloorWithinFan /\ DefaultsAreHardware /\ HeatIsAnswered)
  /\ SlowRelease

\* Failed floors are written again, and the mode follows (fans.py, tick).
FansSettle == FailedIsRetried /\ ModeFollowsConfig
=============================================================================
