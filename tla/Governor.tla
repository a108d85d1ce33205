------------------------------ MODULE Governor ------------------------------
(***************************************************************************)
(* The Linux power governor: governor.step (linux/turbomac/daemon/         *)
(* governor.py), called once per 250 ms tick by Daemon.tick (main.py),     *)
(* together with Daemon.apply and rapl.apply_and_verify, which carry out   *)
(* the write the step asked for and hand its readback to the next step.    *)
(*                                                                         *)
(* The code keeps absolute monotonic times; the model keeps ages (how long *)
(* ago) and, for retry_at, the time left.  An age stops growing at the     *)
(* value the code compares it with, since nothing tells larger ones apart. *)
(* A sample is abstracted to the band the thresholds put it in.            *)
(***************************************************************************)
EXTENDS Integers

CONSTANTS
  Configs,          \* the governor sections config.validate lets through
  HardMax,          \* HARD_MAX_W
  FwPL1, FwPL2,     \* fw_pl1_w, fw_pl2_w; at least HardMax when none is valid
  Unit,             \* the RAPL power unit, in the unit of the other watts
  Burst, CutStep, RecoverStep, ThermalStep,            \* *_w settings
  RecoverInterval, StaleTimeout, ThermalInterval,      \* *_s settings
  CutMinInterval, EmergencyHold, ReassertAfter,        \* *_S of governor.py
  BackoffFirst, BackoffMax,
  Gaps,             \* how much time may pass between two ticks
  Temps,            \* what the package temperature may say
  Outcomes          \* what may become of a write to powercap

Modes     == {"off", "static", "dynamic"}
DynStates == {"NORMAL", "TRIM", "EMERGENCY"}
States    == DynStates \cup {"FALLBACK", "STATIC", "OFF"}
\* The band a sample falls in: no valid PDTR and ACPW; PDTR >= emergency_w;
\* else the 1 s mean >= shed_w; >= recover_w; below recover_w.
Inputs    == {"invalid", "emergency", "shed", "middle", "low"}
\* Package temperature: not fresh; >= thermal_trim_c; between; below recover.
AllTemps  == {"none", "hot", "warm", "cool"}
None      == -1

ASSUME GovernorAssumption ==
  /\ HardMax \in Nat \ {0} /\ FwPL1 \in Nat \ {0} /\ FwPL2 \in Nat \ {0}
  /\ Unit \in Nat \ {0}
  /\ Configs # {}
  /\ Configs \subseteq [mode : Modes, static_cap_w : 1..HardMax,
                        ceiling_w : 1..HardMax, floor_w : 1..HardMax,
                        thermal : BOOLEAN]   \* thermal_trim_c is not null
  /\ \A c \in Configs : c.static_cap_w <= c.ceiling_w
  /\ Burst \in Nat /\ CutStep \in Nat \ {0}
  /\ RecoverStep \in Nat \ {0} /\ ThermalStep \in Nat \ {0}
  /\ RecoverInterval \in Nat \ {0} /\ StaleTimeout \in Nat \ {0}
  /\ ThermalInterval \in Nat \ {0} /\ CutMinInterval \in Nat \ {0}
  /\ EmergencyHold \in Nat \ {0} /\ ReassertAfter \in Nat \ {0}
  /\ BackoffFirst \in Nat \ {0} /\ BackoffMax \in Nat
  /\ BackoffFirst <= BackoffMax
  /\ Gaps \subseteq Nat \ {0} /\ Gaps # {}
  \* A tick (250 ms) is never late by REASSERT_S - BACKOFF_MAX_S (2 s).
  /\ \A g \in Gaps : BackoffMax + g < ReassertAfter
  /\ Temps \subseteq AllTemps
  /\ Outcomes \subseteq [pl1 : BOOLEAN, pl2 : BOOLEAN, verified : BOOLEAN]

VARIABLES
  cfg,               \* Daemon.config["governor"]
  state,             \* GovState.state
  pl1_w, pl2_w,      \* the last commanded limits, or None
  since_write,       \* now - last_write
  since_cut,         \* now - last_cut
  since_valid,       \* now - (last_valid, or started)
  below_shed,        \* now - below_shed_since, or None
  below_recover,     \* now - below_recover_since, or None
  retry_in,          \* retry_at - now, or None
  backoff_s,
  thermal_cap_w,     \* or None
  since_thermal,     \* now - last_thermal
  readback,          \* Daemon.readback: what the next step will be told
  hw_pl1, hw_pl2,    \* the limits in force in the powercap zone
  \* History variables: they watch the run and steer nothing.
  cfg_seen,          \* the configuration the last step ran with
  emergency_run,     \* consecutive dynamic steps on an emergency sample
                     \* under one configuration, counted to 3
  calm,              \* age of the current run of steps whose valid samples
                     \* were all low, as dynamic mode saw it, or None
  calm_any           \* the same, as every mode saw it

govVars  == <<state, pl1_w, pl2_w, since_write, since_cut, since_valid,
              below_shed, below_recover, retry_in, backoff_s,
              thermal_cap_w, since_thermal>>
hwVars   == <<readback, hw_pl1, hw_pl2>>
histVars == <<cfg_seen, emergency_run, calm, calm_any>>
vars     == <<cfg, govVars, hwVars, histVars>>

-----------------------------------------------------------------------------
(* Arithmetic *)

Min2(a, b) == IF a <= b THEN a ELSE b
Max2(a, b) == IF a >= b THEN a ELSE b

\* An age, gap later; it stops at the limit the code compares it with.
Aged(age, gap, limit) == Min2(age + gap, limit)
AgedOpt(age, gap, limit) == IF age = None THEN None ELSE Aged(age, gap, limit)

\* _Step.cap1 and its PL2 counterpart in write.
Cap1(w) == Min2(w, Min2(HardMax, FwPL1))
Cap2(w) == Min2(w, Min2(HardMax, FwPL2))

\* rapl.floor_eighth: powercap takes whole units, rounded down.
FloorUnit(w) == (w \div Unit) * Unit

\* floor and top of step; fallback_w: never above what is already commanded.
Floor == Min2(cfg.floor_w, cfg.static_cap_w)
Top   == Cap1(Max2(cfg.ceiling_w, cfg.static_cap_w))
FallbackW ==
  IF pl1_w # None THEN Min2(cfg.static_cap_w, pl1_w) ELSE cfg.static_cap_w

-----------------------------------------------------------------------------
(* Writing the limits *)

\* Rapl.write_limits: each of the two files takes its value or reports an
\* error.
WriteLimits(w1, w2, out) ==
  /\ hw_pl1' = IF out.pl1 THEN FloorUnit(w1) ELSE hw_pl1
  /\ hw_pl2' = IF out.pl2 THEN FloorUnit(w2) ELSE hw_pl2

\* compare_limits: both files took their value, and enabled = 1 and MSR 0x610
\* agree (verified).
CompareLimits(out) == out.pl1 /\ out.pl2 /\ out.verified

\* Daemon.apply, with apply_and_verify.
ApplyAndVerify(w1, w2, out) ==
  /\ WriteLimits(w1, w2, out)
  /\ readback' = IF CompareLimits(out) THEN "ok" ELSE "failed"

\* Mutant of Write: the limits are never asserted again.
WriteNeverDue(w1, w2, force, gap, out) ==
  IF force \/ Cap1(w1) # pl1_w \/ Cap2(w2) # pl2_w
  THEN /\ pl1_w' = Cap1(w1)
       /\ pl2_w' = Cap2(w2)
       /\ since_write' = 0
       /\ ApplyAndVerify(Cap1(w1), Cap2(w2), out)
  ELSE /\ since_write' = Aged(since_write, gap, ReassertAfter)
       /\ readback' = "none"
       /\ UNCHANGED <<pl1_w, pl2_w, hw_pl1, hw_pl2>>

\* _Step.write: clamp, and skip a write that changes nothing unless it is
\* forced or the limits are due to be asserted again.
Write(w1, w2, force, gap, out) ==
  IF force \/ since_write + gap >= ReassertAfter
           \/ Cap1(w1) # pl1_w \/ Cap2(w2) # pl2_w
  THEN /\ pl1_w' = Cap1(w1)
       /\ pl2_w' = Cap2(w2)
       /\ since_write' = 0
       /\ ApplyAndVerify(Cap1(w1), Cap2(w2), out)
  ELSE /\ since_write' = Aged(since_write, gap, ReassertAfter)
       /\ readback' = "none"
       /\ UNCHANGED <<pl1_w, pl2_w, hw_pl1, hw_pl2>>

NoWrite(gap) ==
  /\ since_write' = Aged(since_write, gap, ReassertAfter)
  /\ readback' = "none"
  /\ UNCHANGED <<pl1_w, pl2_w, hw_pl1, hw_pl2>>

-----------------------------------------------------------------------------
(* Parts shared by the branches of step *)

\* last_valid, set before any branch is taken.
SinceValid(gap, in) ==
  IF in = "invalid" THEN Aged(since_valid, gap, StaleTimeout) ELSE 0

\* Rule 7: no valid sample for stale_timeout_s.
Stale(gap, in) == in = "invalid" /\ since_valid + gap >= StaleTimeout

\* The timers a branch leaves alone only grow older.
AgeCut(gap)     == since_cut' = Aged(since_cut, gap, CutMinInterval)
AgeThermal(gap) == since_thermal' = Aged(since_thermal, gap, ThermalInterval)
AgeBelow(gap)   ==
  /\ below_shed' = AgedOpt(below_shed, gap, EmergencyHold)
  /\ below_recover' = AgedOpt(below_recover, gap, RecoverInterval)
\* Mutant of ClearBelow: the recover timer survives.
ClearShedOnly   == below_shed' = None /\ below_recover' = below_recover
ClearBelow      == below_shed' = None /\ below_recover' = None

\* In FALLBACK with retry_at set: now < retry_at, or the retry is due.
Waiting(gap) == state = "FALLBACK" /\ retry_in # None /\ retry_in > gap
Retried      == state = "FALLBACK" /\ retry_in # None
\* No retry is ever pending outside FALLBACK (RetryWithinBackoff), so the
\* retry_at = None of rule 7 has nothing more to clear.
RetryTaken   == retry_in' = IF Retried THEN None ELSE retry_in

\* A verified readback ends the backoff, but not while still in FALLBACK.
BackoffAfterReadback ==
  backoff_s' = IF readback = "ok" /\ state # "FALLBACK" THEN 0 ELSE backoff_s

\* A failed one starts it at 1 s or doubles it, up to BACKOFF_MAX_S.
NextBackoff ==
  IF backoff_s <= 0 THEN BackoffFirst ELSE Min2(BackoffMax, backoff_s * 2)

\* The branches that follow the readback check and the wait for a retry.
PastReadback(gap) ==
  /\ cfg.mode # "off"
  /\ readback # "failed"
  /\ ~Waiting(gap)
  /\ RetryTaken
  /\ BackoffAfterReadback

-----------------------------------------------------------------------------
(* The branches of step, in the order the code takes them *)

\* mode off: put the static cap back once; the readback is not looked at.
StepOff(gap, in, temp, out) ==
  /\ cfg.mode = "off"
  /\ retry_in' = None
  /\ thermal_cap_w' = None
  /\ IF state # "OFF"
     THEN Write(cfg.static_cap_w, cfg.static_cap_w, TRUE, gap, out)
     ELSE NoWrite(gap)
  /\ state' = "OFF"
  /\ AgeCut(gap) /\ AgeThermal(gap) /\ AgeBelow(gap)
  /\ UNCHANGED backoff_s

\* Rule 6: the last write did not verify.  Nothing else is looked at.
StepReadbackFailed(gap, in, temp, out) ==
  /\ cfg.mode # "off"
  /\ readback = "failed"
  /\ backoff_s' = NextBackoff
  /\ retry_in' = backoff_s'
  /\ \/ /\ state # "FALLBACK"
        /\ ClearBelow
        /\ Write(FallbackW, FallbackW, TRUE, gap, out)
     \/ /\ state = "FALLBACK"
        /\ AgeBelow(gap)
        /\ NoWrite(gap)
  /\ state' = "FALLBACK"
  /\ AgeCut(gap) /\ AgeThermal(gap)
  /\ UNCHANGED thermal_cap_w

\* Mutants of StepWaiting: no emergency rule; the wait starts over every step.
WaitingBlind(gap, in, temp, out) ==
  /\ cfg.mode # "off" /\ readback # "failed" /\ Waiting(gap)
  /\ retry_in' = retry_in - gap
  /\ NoWrite(gap)
  /\ AgeCut(gap) /\ AgeThermal(gap) /\ AgeBelow(gap)
  /\ UNCHANGED <<state, backoff_s, thermal_cap_w>>
WaitingRearmed(gap, in, temp, out) ==
  /\ cfg.mode # "off" /\ readback # "failed" /\ Waiting(gap)
  /\ NoWrite(gap)
  /\ AgeCut(gap) /\ AgeThermal(gap) /\ AgeBelow(gap)
  /\ UNCHANGED <<state, backoff_s, thermal_cap_w, retry_in>>

\* Waiting to retry: only the emergency rule still works.
StepWaiting(gap, in, temp, out) ==
  /\ cfg.mode # "off"
  /\ readback # "failed"
  /\ Waiting(gap)
  /\ retry_in' = retry_in - gap
  /\ IF cfg.mode = "dynamic" /\ in = "emergency"
        /\ (pl1_w = None \/ pl1_w > Floor)
     THEN Write(Floor, Floor, TRUE, gap, out)
     ELSE NoWrite(gap)
  /\ AgeCut(gap) /\ AgeThermal(gap) /\ AgeBelow(gap)
  /\ UNCHANGED <<state, backoff_s, thermal_cap_w>>

\* mode static.
StepStatic(gap, in, temp, out) ==
  /\ cfg.mode = "static"
  /\ PastReadback(gap)
  /\ thermal_cap_w' = None
  /\ Write(cfg.static_cap_w, cfg.static_cap_w, state # "STATIC", gap, out)
  /\ state' = "STATIC"
  /\ AgeCut(gap) /\ AgeThermal(gap) /\ AgeBelow(gap)

\* mode dynamic, rule 7.
StepStale(gap, in, temp, out) ==
  /\ cfg.mode = "dynamic"
  /\ PastReadback(gap)
  /\ Stale(gap, in)
  /\ IF state # "FALLBACK"
     THEN ClearBelow /\ Write(FallbackW, FallbackW, TRUE, gap, out)
     ELSE AgeBelow(gap) /\ Write(FallbackW, FallbackW, Retried, gap, out)
  /\ state' = "FALLBACK"
  /\ AgeCut(gap) /\ AgeThermal(gap)
  /\ UNCHANGED thermal_cap_w

-----------------------------------------------------------------------------
(* Dynamic mode proper *)

\* Rule 8, _Step.thermal.
Held == IF thermal_cap_w = None \/ ~cfg.thermal THEN Top
        ELSE Min2(Max2(thermal_cap_w, Floor), Top)
TrimFrom == IF pl1_w # None THEN Min2(Held, pl1_w) ELSE Held
ThermalDue(gap) == cfg.thermal /\ since_thermal + gap >= ThermalInterval
Trims(gap, temp)    == temp = "hot" /\ ThermalDue(gap) /\ TrimFrom > Floor
Recovers(gap, temp) == temp = "cool" /\ ThermalDue(gap) /\ Held < Top
Ceiling(gap, temp) ==
  IF Trims(gap, temp) THEN Max2(Floor, TrimFrom - ThermalStep)
  ELSE IF Recovers(gap, temp) THEN Min2(Top, Held + ThermalStep)
  ELSE Held

Thermal(gap, temp) ==
  /\ thermal_cap_w' = IF Ceiling(gap, temp) < Top THEN Ceiling(gap, temp)
                      ELSE None
  /\ since_thermal' = IF Trims(gap, temp) \/ Recovers(gap, temp) THEN 0
                      ELSE Aged(since_thermal, gap, ThermalInterval)

\* Where this step starts from: the limit in command; leaving FALLBACK never
\* raises it; from any other state the static cap.
Resume == state \notin DynStates \/ pl1_w = None
From   == IF ~Resume THEN pl1_w
          ELSE IF state = "FALLBACK" THEN FallbackW
          ELSE cfg.static_cap_w
\* Mutant of Start: the effective ceiling is not applied.
StartUncapped(gap, temp) == Max2(From, Floor)
Start(gap, temp) == Min2(Max2(From, Floor), Ceiling(gap, temp))

\* What precedes the rules, and what follows them: enter(new) and the write.
Dynamic(gap, in, temp) ==
  /\ cfg.mode = "dynamic"
  /\ PastReadback(gap)
  /\ ~Stale(gap, in)
  /\ Thermal(gap, temp)
\* Mutant of Enter: resuming does not force the write.
EnterUnforced(new, w, gap, out) ==
  /\ state' = new
  /\ Write(w, IF new = "EMERGENCY" THEN w ELSE w + Burst, FALSE, gap, out)
Enter(new, w, gap, out) ==
  /\ state' = new
  /\ Write(w, IF new = "EMERGENCY" THEN w ELSE w + Burst, Resume, gap, out)

\* Mutant of NormalIfTop: the top is not enough.
NormalIfAbove(w) == IF w > Top THEN "NORMAL" ELSE "TRIM"
NormalIfTop(w) == IF w >= Top THEN "NORMAL" ELSE "TRIM"

\* No valid sample, but not stale yet: hold.
StepNoSample(gap, in, temp, out) ==
  /\ Dynamic(gap, in, temp)
  /\ in = "invalid"
  /\ Enter(IF Resume THEN NormalIfTop(Start(gap, temp)) ELSE state,
           Start(gap, temp), gap, out)
  /\ AgeCut(gap) /\ AgeBelow(gap)

\* Rule 2.
StepEmergency(gap, in, temp, out) ==
  /\ Dynamic(gap, in, temp)
  /\ in = "emergency"
  /\ Enter("EMERGENCY", Floor, gap, out)
  /\ ClearBelow
  /\ AgeCut(gap)

\* Rule 3.
StepShed(gap, in, temp, out) ==
  /\ Dynamic(gap, in, temp)
  /\ in = "shed"
  /\ ClearBelow
  /\ LET start == Start(gap, temp)
         cut   == /\ state # "EMERGENCY" /\ start > Floor
                  /\ since_cut + gap >= CutMinInterval
     IN /\ Enter(IF state = "EMERGENCY" THEN state ELSE "TRIM",
                 IF cut THEN Max2(Floor, start - CutStep) ELSE start,
                 gap, out)
        /\ since_cut' = IF cut THEN 0 ELSE Aged(since_cut, gap, CutMinInterval)

\* Below shed in EMERGENCY, rule 5.
StepHold(gap, in, temp, out) ==
  /\ Dynamic(gap, in, temp)
  /\ in \in {"middle", "low"}
  /\ state = "EMERGENCY"
  /\ below_shed' = IF below_shed = None THEN 0
                   ELSE Aged(below_shed, gap, EmergencyHold)
  /\ IF below_shed' >= EmergencyHold
     THEN /\ Enter("TRIM", Start(gap, temp), gap, out)
          /\ below_recover' = None
     ELSE /\ Enter("EMERGENCY", Start(gap, temp), gap, out)
          /\ below_recover' = AgedOpt(below_recover, gap, RecoverInterval)
  /\ AgeCut(gap)

\* Below shed elsewhere, rule 4.
StepRecover(gap, in, temp, out) ==
  /\ Dynamic(gap, in, temp)
  /\ in \in {"middle", "low"}
  /\ state # "EMERGENCY"
  /\ below_shed' = IF below_shed = None THEN 0
                   ELSE Aged(below_shed, gap, EmergencyHold)
  /\ LET start == Start(gap, temp)
         raise == /\ in = "low" /\ below_recover # None
                  /\ below_recover + gap >= RecoverInterval
                  /\ start < Ceiling(gap, temp)
         new   == IF raise THEN Min2(Ceiling(gap, temp), start + RecoverStep)
                  ELSE start
     IN /\ Enter(NormalIfTop(new), new, gap, out)
        /\ below_recover' =
             IF in = "middle" THEN None
             ELSE IF raise \/ below_recover = None THEN 0
             ELSE Aged(below_recover, gap, RecoverInterval)
  /\ AgeCut(gap)

-----------------------------------------------------------------------------
(* The daemon around the governor *)

Step(gap, in, temp, out) ==
  \/ StepOff(gap, in, temp, out)
  \/ StepReadbackFailed(gap, in, temp, out)
  \/ StepWaiting(gap, in, temp, out)
  \/ StepStatic(gap, in, temp, out)
  \/ StepStale(gap, in, temp, out)
  \/ StepNoSample(gap, in, temp, out)
  \/ StepEmergency(gap, in, temp, out)
  \/ StepShed(gap, in, temp, out)
  \/ StepHold(gap, in, temp, out)
  \/ StepRecover(gap, in, temp, out)

\* What the history variables note of a step.
Observe(gap, in) ==
  /\ cfg_seen' = cfg
  /\ emergency_run' = IF cfg.mode # "dynamic" \/ in # "emergency" THEN 0
                      ELSE IF cfg # cfg_seen THEN 1
                      ELSE Min2(emergency_run + 1, 3)
  /\ calm' = IF in = "low" /\ calm = None THEN 0
             ELSE IF in \in {"low", "invalid"} \/ cfg.mode # "dynamic"
             THEN AgedOpt(calm, gap, RecoverInterval)
             ELSE None
  /\ calm_any' = IF in = "low" /\ calm_any = None THEN 0
                 ELSE IF in \in {"low", "invalid"}
                 THEN AgedOpt(calm_any, gap, RecoverInterval)
                 ELSE None

\* Daemon.tick: the readback is handed over once, the step runs, its write is
\* carried out.
TickOn(gap, in, temp, out) ==
  /\ Step(gap, in, temp, out)
  /\ since_valid' = SinceValid(gap, in)
  /\ Observe(gap, in)
  /\ UNCHANGED cfg
Tick ==
  \E gap \in Gaps, in \in Inputs, temp \in Temps, out \in Outcomes :
    TickOn(gap, in, temp, out)

\* Daemon.set_config and reload_config replace the configuration between two
\* reads of it by tick.
SetConfig ==
  /\ cfg' \in Configs \ {cfg}
  /\ UNCHANGED <<govVars, hwVars, histVars>>

\* governor.initial.  turbomac-cap.service has put the static cap in force, or
\* failed to and left the firmware's limits.
Init ==
  /\ cfg \in Configs
  /\ state = "OFF"
  /\ pl1_w = None /\ pl2_w = None
  /\ since_write = ReassertAfter /\ since_cut = CutMinInterval
  /\ since_valid = 0
  /\ below_shed = None /\ below_recover = None
  /\ retry_in = None /\ backoff_s = 0
  /\ thermal_cap_w = None /\ since_thermal = ThermalInterval
  /\ readback = "none"
  /\ \/ hw_pl1 = FloorUnit(Cap1(cfg.static_cap_w)) /\ hw_pl2 = hw_pl1
     \/ hw_pl1 = FwPL1 /\ hw_pl2 = FwPL2
  /\ cfg_seen = cfg /\ emergency_run = 0
  /\ calm = None /\ calm_any = None

Next == Tick \/ SetConfig

Spec == Init /\ [][Next]_vars

\* Daemon.run ticks for as long as the process lives.
FairSpec == Spec /\ WF_vars(Tick)

-----------------------------------------------------------------------------
(* Properties *)

\* The type of every variable.
TypeOK ==
  /\ cfg \in Configs /\ cfg_seen \in Configs
  /\ state \in States
  /\ pl1_w \in Nat \cup {None} /\ pl2_w \in Nat \cup {None}
  /\ since_write \in 0..ReassertAfter
  /\ since_cut \in 0..CutMinInterval
  /\ since_valid \in 0..StaleTimeout
  /\ below_shed \in 0..EmergencyHold \cup {None}
  /\ below_recover \in 0..RecoverInterval \cup {None}
  /\ retry_in \in 0..BackoffMax \cup {None}
  /\ backoff_s \in 0..BackoffMax
  /\ thermal_cap_w \in Nat \cup {None}
  /\ since_thermal \in 0..ThermalInterval
  /\ readback \in {"none", "ok", "failed"}
  /\ hw_pl1 \in Nat /\ hw_pl2 \in Nat
  /\ emergency_run \in 0..3
  /\ calm \in 0..RecoverInterval \cup {None}
  /\ calm_any \in 0..RecoverInterval \cup {None}

\* Leaving out a write that would change nothing is sound: in every governed
\* state but FALLBACK, unless a failed readback is about to be handed over,
\* what the zone enforces is what the governor last commanded (governor.py
\* write skips the write; force, resume and the readback make up for it).
InForceAsCommanded ==
  state \notin {"OFF", "FALLBACK"} /\ readback # "failed" =>
    /\ pl1_w # None /\ pl2_w # None
    /\ hw_pl1 = FloorUnit(pl1_w)
    /\ hw_pl2 = FloorUnit(pl2_w)

\* Whatever the write failures and retries, the third dynamic step in a row on
\* an emergency sample, under one configuration, ends with PL1 commanded no
\* higher than the floor: failed readbacks hide at most two of them
\* (governor.py, rules 2 and 6).
EmergencyAnswered ==
  emergency_run = 3 =>
    pl1_w # None /\ pl1_w <= Min2(cfg_seen.floor_w, cfg_seen.static_cap_w)

\* Cut at once, recover slowly: between dynamic steps, or out of FALLBACK, PL1
\* is raised only to the floor, or by one recover step after recover_interval_s
\* in which dynamic mode saw no valid sample at or above recover_w.
RaiseNeedsCalm ==
  [][/\ state \in DynStates \cup {"FALLBACK"}
     /\ state' \in DynStates
     /\ pl1_w' > pl1_w
     => \/ pl1_w' <= Floor
        \/ /\ calm' >= RecoverInterval
           /\ pl1_w' <= Max2(pl1_w, Floor) + RecoverStep]_vars

\* While the limits follow the input, PL1 stays under the ceiling that the
\* last step worked with, lowered by the thermal trim if that is active.
UnderEffectiveCeiling ==
  state \in DynStates =>
    LET top == Cap1(Max2(cfg_seen.ceiling_w, cfg_seen.static_cap_w))
    IN /\ pl1_w <= top
       /\ thermal_cap_w # None => pl1_w <= thermal_cap_w /\ thermal_cap_w < top

\* After a step on a valid sample the governor says NORMAL only with PL1 at
\* the top of its range (governor.py, rule 4).
NormalAtTop ==
  state = "NORMAL" /\ since_valid = 0 =>
    pl1_w = Cap1(Max2(cfg_seen.ceiling_w, cfg_seen.static_cap_w))

\* The limits are written again in time, whatever the retries: no governed
\* state is left ReassertAfter long without a write (REASSERT_S).
ReassertedInTime == state # "OFF" => since_write < ReassertAfter

\* The backoff only ever grows to its limit or ends, and a retry waits no
\* longer than the backoff in force (rule 6: 1, 2, 4, 8 s).
RetryWithinBackoff ==
  retry_in # None => state = "FALLBACK" /\ retry_in <= backoff_s

\* A retry that is scheduled is taken: emergency writes that fail while it
\* waits push it back, but not for ever.
RetryTakenEventually == retry_in # None ~> retry_in = None

\* Once writes verify and samples stay valid, dynamic mode leaves FALLBACK for
\* good.
LeavesFallback ==
  <>[](readback # "failed" /\ since_valid = 0 /\ cfg.mode = "dynamic")
    => <>[](state # "FALLBACK")

\* FALLBACK ends: its retries are taken, and one that verifies leads out of it
\* (governor.py, step).
FallbackEnds == RetryTakenEventually /\ LeavesFallback

\* Under a load that stays low, with a settled configuration and writes that
\* verify, PL1 climbs back to the top of its range.
ReturnsToTop ==
  \A c \in Configs :
    <>[](/\ cfg = c /\ c.mode = "dynamic" /\ readback # "failed"
         /\ since_valid = 0 /\ calm_any # None)
      => <>[](state = "NORMAL")

-----------------------------------------------------------------------------
(* The inductive invariant behind the theorems of GovernorProofs *)

FloorSeen == Min2(cfg_seen.floor_w, cfg_seen.static_cap_w)

\* A readback to hand over is of the write the last step made.
ReadbackIsFresh == readback # "none" => since_write = 0 /\ pl1_w # None

\* Past OFF a limit has been commanded.
Commanded == state # "OFF" => pl1_w # None /\ pl2_w # None

\* A pending retry comes before the limits are due to be asserted again.
RetryBeforeReassert == retry_in # None => since_write + retry_in < ReassertAfter

\* FALLBACK runs no recovery timer.
FallbackTimers ==
  state = "FALLBACK" => below_shed = None /\ below_recover = None

\* EMERGENCY runs no recover timer.
EmergencyTimer == state = "EMERGENCY" => below_recover = None

\* The recover timer never runs ahead of the calm it stands for.
TimerBehindCalm ==
  below_recover # None => calm # None /\ calm >= below_recover

\* How the first two of three emergency samples can go by without an answer.
EmergencyHidden ==
  emergency_run \in {1, 2} /\ pl1_w > FloorSeen =>
    state = "FALLBACK" /\ (emergency_run = 2 => readback = "none")

\* The invariant that the steps of the governor preserve.
GovernorInv ==
  /\ TypeOK
  /\ ReadbackIsFresh /\ Commanded
  /\ InForceAsCommanded
  /\ RetryWithinBackoff /\ RetryBeforeReassert /\ ReassertedInTime
  /\ FallbackTimers /\ EmergencyTimer /\ TimerBehindCalm
  /\ EmergencyHidden /\ EmergencyAnswered
  /\ UnderEffectiveCeiling /\ NormalAtTop

-----------------------------------------------------------------------------
(* What the documents say and the code does not do *)

\* README: FALLBACK is "never above the limit already in force".
FallbackNotAboveInForce ==
  [][state # "FALLBACK" /\ state' = "FALLBACK" => hw_pl1' <= hw_pl1]_vars
=============================================================================
