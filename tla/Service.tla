------------------------------ MODULE Service -------------------------------
(***************************************************************************)
(* The two units around the daemon: turbomac-cap.service and turbomacd's   *)
(* ExecStartPre and ExecStopPost run turbomac-cap.sh, that is cap.py with  *)
(* a shell fallback; the daemon's loop sends READY=1 and WATCHDOG=1;       *)
(* systemd kills and restarts it.  The package limits live in the hardware *)
(* and are the firmware's again after every boot.  A step of the clock is  *)
(* one turn of the loop (loop_once), or as long without one.               *)
(***************************************************************************)
EXTENDS Integers, FiniteSetsExt

CONSTANTS
  Firmware, HardMax,            \* the firmware's PL1 = PL2; HARD_MAX_W
  Static, ShellDefault,         \* governor.static_cap_w; turbomac-cap.sh's own 35 W
  MaxStepAge,                   \* WATCHDOG_MAX_STEP_AGE_S
  PingEvery, WatchdogSec,       \* WATCHDOG_EVERY_S; turbomacd.service
  StaleTimeout, StartTimeout,   \* governor.stale_timeout_s; TimeoutStartSec
  MaxServiceCrashes, MaxBoots,  \* bounds
  MaxServiceFaults,             \* bound: writes, saves and runs of Python that fail
  Silence                       \* bound: turns of the loop without a good step

ASSUME ServiceAssumption ==
  /\ {Firmware, HardMax, Static, ShellDefault} \subseteq Nat \ {0}
  /\ {MaxStepAge, PingEvery, WatchdogSec, StaleTimeout, StartTimeout, Silence} \subseteq Nat
  /\ Firmware > HardMax /\ HardMax >= Static /\ HardMax >= ShellDefault
  /\ PingEvery <= MaxStepAge /\ PingEvery + 1 < WatchdogSec
  /\ StartTimeout > StaleTimeout + 2

VARIABLES
  phase,          \* "boot", "pre", "start", "run", "post" or "wait" (RestartSec)
  pl1, pl2,       \* the limits in the hardware
  capped,         \* whether a write of both has landed in this boot
  fw,             \* firmware-limits.json, 0 if there is none
  clamp,          \* the running daemon's firmware limit, 0 if none or suspect
  uptime,         \* turns since the daemon came up, as far as they matter
  stepAge,        \* turns since the last governor step that succeeded
  pinged, wdAge,  \* turns since the last ping, to the daemon and to systemd
  ready,          \* READY=1 has been sent
  serviceCrashes, boots, serviceFaults

limits == <<pl1, pl2, capped>>
loop   == <<uptime, stepAge, pinged, wdAge, ready>>
serviceVars   == <<phase, limits, fw, clamp, loop, serviceCrashes, boots, serviceFaults>>

ServiceFault == serviceFaults < MaxServiceFaults /\ serviceFaults' = serviceFaults + 1

-----------------------------------------------------------------------------
(* rapl.py *)

ServiceClamp(w, f) == Min({w, HardMax} \cup (IF f = 0 THEN {} ELSE {f}))

\* write_limits: one limit may land without the other.
Write(w1, w2) ==
  \/ /\ pl1' = w1 /\ pl2' = w2 /\ capped' = TRUE /\ UNCHANGED serviceFaults
  \/ /\ ServiceFault /\ UNCHANGED capped
     /\ \/ pl1' = w1 /\ UNCHANGED pl2
        \/ pl2' = w2 /\ UNCHANGED pl1
        \/ UNCHANGED <<pl1, pl2>>

Suspect(w) == w < HardMax

\* load_or_capture_firmware: the saved limits, or the live ones if they do
\* not look like a cap.
Captured == IF fw # 0 THEN fw ELSE IF Suspect(pl1) THEN 0 ELSE pl1

-----------------------------------------------------------------------------
(* turbomac-cap.sh apply *)

\* cap.py: the capture is made, and saved, before anything is written.
PythonApply ==
  /\ fw' = Captured
  /\ Write(ServiceClamp(Static, Captured), ServiceClamp(Static, Captured))

\* Python does not run, or the capture cannot be saved: plain echo, of the
\* configuration's cap if that can be read.
ShellApply ==
  /\ ServiceFault /\ UNCHANGED fw
  /\ \E w \in {Static, ShellDefault} : pl1' = w /\ pl2' = w
  /\ capped' = TRUE

ServiceApply(from, to) ==
  /\ phase \in from /\ phase' = to
  /\ PythonApply \/ ShellApply
  /\ UNCHANGED <<clamp, loop, serviceCrashes, boots>>

CapService == ServiceApply({"boot"}, "pre")
StartPre   == ServiceApply({"pre", "wait"}, "start")
StopPost   == ServiceApply({"post"}, "wait")

\* Daemon.setup captures as cap.py does, and the loop begins.
Setup ==
  /\ phase = "start" /\ phase' = "run"
  /\ fw' = Captured /\ clamp' = Captured
  /\ uptime' = 0 /\ stepAge' = MaxStepAge + 1 /\ pinged' = PingEvery /\ wdAge' = 0
  /\ ready' = FALSE
  /\ UNCHANGED <<limits, serviceCrashes, boots, serviceFaults>>

-----------------------------------------------------------------------------
(* The daemon's loop and systemd's two clocks *)

\* systemd acts before another turn goes by.
Overdue == IF ready THEN wdAge >= WatchdogSec ELSE uptime >= StartTimeout

UpTo(n, max) == Min({n, max})

\* Mutant of Alive: the loop turns, and that is enough.
AliveIfTurning(age) == TRUE

\* A governor step has succeeded recently enough.
Alive(age) == age <= MaxStepAge

Ready(valid) == valid \/ uptime + 1 > StaleTimeout + 1

\* loop_once.  A step that succeeds may write limits; the notification may
\* be lost without the daemon knowing.
Turn(good, valid, heard) ==
  LET age  == IF good THEN 0 ELSE stepAge + 1
      ping == Alive(age) /\ pinged + 1 >= PingEvery
  IN
  /\ phase = "run" /\ ~Overdue /\ age <= Silence
  /\ heard \/ (ping /\ serviceFaults < MaxServiceFaults)
  /\ stepAge' = age
  /\ uptime' = UpTo(uptime + 1, StartTimeout)
  /\ ready'  = (ready \/ (Alive(age) /\ heard /\ Ready(valid)))
  /\ pinged' = IF ping THEN 0 ELSE UpTo(pinged + 1, PingEvery)
  /\ wdAge'  = IF (ping /\ heard) \/ (ready' /\ ~ready) THEN 0
               ELSE UpTo(wdAge + 1, WatchdogSec)
  /\ IF heard
     THEN \/ good /\ \E w \in 1..Firmware : Write(ServiceClamp(w, clamp), ServiceClamp(w, clamp))
          \/ UNCHANGED <<limits, serviceFaults>>
     ELSE serviceFaults' = serviceFaults + 1 /\ UNCHANGED limits
  /\ UNCHANGED <<phase, fw, clamp, serviceCrashes, boots>>

\* The loop is stuck for as long as a turn takes.
Hang ==
  /\ phase = "run" /\ ~Overdue /\ stepAge < Silence
  /\ stepAge' = stepAge + 1
  /\ uptime' = UpTo(uptime + 1, StartTimeout)
  /\ pinged' = UpTo(pinged + 1, PingEvery)
  /\ wdAge' = UpTo(wdAge + 1, WatchdogSec)
  /\ UNCHANGED <<phase, limits, fw, clamp, ready, serviceCrashes, boots, serviceFaults>>

Kill ==
  /\ phase = "run" /\ Overdue /\ phase' = "post"
  /\ UNCHANGED <<limits, fw, clamp, loop, serviceCrashes, boots, serviceFaults>>

\* The daemon dies, or is stopped and started again.
ServiceCrash ==
  /\ phase \in {"start", "run"} /\ serviceCrashes < MaxServiceCrashes
  /\ serviceCrashes' = serviceCrashes + 1
  /\ phase' = "post"
  /\ UNCHANGED <<limits, fw, clamp, loop, boots, serviceFaults>>

Reboot ==
  /\ boots < MaxBoots /\ boots' = boots + 1
  /\ phase' = "boot" /\ pl1' = Firmware /\ pl2' = Firmware /\ capped' = FALSE
  /\ UNCHANGED <<fw, clamp, loop, serviceCrashes, serviceFaults>>

ServiceInit ==
  /\ phase = "boot" /\ pl1 = Firmware /\ pl2 = Firmware /\ capped = FALSE
  /\ fw = 0 /\ clamp = 0 /\ uptime = 0 /\ stepAge = 0 /\ pinged = 0 /\ wdAge = 0
  /\ ready = FALSE /\ serviceCrashes = 0 /\ boots = 0 /\ serviceFaults = 0

ServiceNext ==
  \/ CapService \/ StartPre \/ Setup \/ StopPost \/ Hang \/ Kill \/ ServiceCrash \/ Reboot
  \/ \E good, valid, heard \in BOOLEAN : Turn(good, valid, heard)

ServiceSpec == ServiceInit /\ [][ServiceNext]_serviceVars

-----------------------------------------------------------------------------
ServiceTypeOK ==
  /\ pl1 \in 1..Firmware /\ pl2 \in 1..Firmware /\ fw \in 0..Firmware
  /\ clamp \in 0..Firmware /\ pinged \in 0..PingEvery /\ wdAge \in 0..WatchdogSec
  /\ uptime \in 0..StartTimeout /\ stepAge \in 0..Max({Silence, MaxStepAge + 1})

\* Once a cap is in force in a boot, no crash, kill, restart, failed write or
\* firmware capture brings back the firmware's limits.
NeverFirmware == capped => pl1 <= HardMax /\ pl2 <= HardMax

\* "A Python crash can only ever leave the static cap in place": with writes
\* that land, a daemon that is down has left the static cap.
StaticWhenDown ==
  phase = "wait" /\ serviceFaults = 0 => pl1 = Static /\ pl2 = Static

\* A governor that makes no step, while the loop turns or hangs, is killed:
\* it goes without one for no more than the two timeouts together.
WedgedIsKilled ==
  phase = "run" /\ ready => stepAge <= MaxStepAge + WatchdogSec

\* systemd never kills a daemon whose last turn made a good step, be it
\* without a valid sample, unless notifications were lost.
HealthyIsKept == phase = "run" /\ Overdue /\ serviceFaults = 0 => stepAge > 0

\* README: "Firmware limits are captured once, before TurboMac writes any
\* limit".  What is saved is the firmware's, after any crashes and reboots, as
\* long as no write, save or run of Python has failed.
CapturedIsFirmware == serviceFaults = 0 => fw \in {0, Firmware}

\* A safe limit is in force whatever dies, and the watchdog tells a wedged
\* daemon from a healthy one (main.py, cap.py, turbomacd.service).
ServiceSafe ==
  /\ ServiceTypeOK /\ NeverFirmware /\ StaticWhenDown /\ WedgedIsKilled
  /\ HealthyIsKept /\ CapturedIsFirmware
=============================================================================
