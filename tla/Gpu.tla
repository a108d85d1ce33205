-------------------------------- MODULE Gpu --------------------------------
(***************************************************************************)
(* Gpu.apply_mode (linux/turbomac/daemon/gpu.py) one write at a time, with *)
(* every write able to fail, next to Gpu.read, the 1 Hz telemetry of the   *)
(* control loop, which tests mode and busy first and reads the amdgpu      *)
(* files afterwards.  A read of a powered-down dGPU may wake it (module    *)
(* docstring).  A crash may come between any two steps.                    *)
(***************************************************************************)
CONSTANTS CrashAllowed  \* whether the daemon may die in this instance

Modes == {"auto", "low", "off"}

VARIABLES
  gpuPc,        \* where the mode change is; it holds Gpu.lock unless "idle"
  want,         \* the mode it applies: "low" while a failed off is reverted
  done,         \* apply_mode's done: which parts of off have been started;
                \* and "failed" once off has failed
  appliedMode,  \* Gpu.mode, the last mode applied, or "none"
  res,          \* the last result: [ok, mode, already] (already: it was off)
  reader,       \* Gpu.read: "idle", "reading" (tests passed), "late" (they
                \* passed during the wait before the second verification)
  fbcon,        \* the frame buffer console is bound
  active,       \* the switcheroo client that drives the panel
  power,        \* the power of DIS as switcheroo reports it
  d0,           \* the PCI power_state of the dGPU is D0
  found,        \* Gpu.dev and Gpu.hwmon are both set
  present,      \* amdgpu has probed: find() would succeed
  limit,        \* whose power1_cap and DPM level are in force
  restored      \* history: since the console was last bound to an active and
                \* powered dGPU, no write that puts it back has failed and no
                \* change was cut short by a crash

devVars == <<fbcon, active, power, d0, limit>>
gpuCtlVars == <<gpuPc, want, done, appliedMode, res, found>>
gpuVars    == <<gpuPc, want, done, appliedMode, res, reader, fbcon, active, power, d0,
             found, present, limit, restored>>

busy == gpuPc # "idle"

\* Gpu.__init__: a dGPU already powered down is taken to be in mode off.
FirstMode == IF power = "Off" THEN "off" ELSE "none"

NoResult == [ok |-> FALSE, mode |-> "auto", already |-> FALSE]

GpuInit ==
  /\ gpuPc = "idle" /\ want = "auto" /\ done = {} /\ reader = "idle"
  /\ res = NoResult
  /\ \E off \in BOOLEAN :       \* the cap service may have applied off
       /\ fbcon = ~off /\ d0 = ~off
       /\ active = IF off THEN "IGD" ELSE "DIS"
       /\ power  = IF off THEN "Off" ELSE "Pwr"
  /\ appliedMode = FirstMode
  /\ present \in BOOLEAN /\ found = present
  /\ limit = "firmware" /\ restored = TRUE

Goto(label) == gpuPc' = label /\ UNCHANGED <<want, done, appliedMode, res, found>>

\* apply_mode takes the lock and looks for the device again if need be.
Begin(m) ==
  /\ ~busy
  /\ gpuPc' = IF m = "off" THEN "check" ELSE "power"
  /\ want' = m /\ done' = {}
  /\ found' = (found \/ present)
  /\ UNCHANGED <<appliedMode, res, reader, present, devVars, restored>>

Finish(ok, m, already) ==
  /\ gpuPc' = "idle" /\ appliedMode' = m
  /\ res' = [ok |-> ok, mode |-> m, already |-> already]
  /\ UNCHANGED <<want, done, found>>

\* Mutant of Fail: off is tried again instead.
FailAgain == gpuPc' = "check" /\ UNCHANGED <<want, done, appliedMode, res, found>>

\* off failed: apply_mode reverts to low.
Fail == /\ gpuPc' = "revert" /\ want' = "low" /\ done' = done \cup {"failed"}
        /\ UNCHANGED <<appliedMode, res, found>>

\* _apply_off: switcheroo must list both GPUs; off already is success.
CheckSwitcheroo ==
  /\ gpuPc = "check"
  /\ \/ Fail
     \/ power = "Off" /\ Finish(TRUE, "off", TRUE)
     \/ power = "Pwr" /\ Goto("unbind")
  /\ UNCHANGED <<reader, present, devVars, restored>>

UnbindFbcon(ok) ==
  /\ gpuPc = "unbind"
  /\ IF ok THEN /\ gpuPc' = "IGD" /\ done' = {"fbcon"} /\ fbcon' = FALSE
                /\ UNCHANGED <<want, appliedMode, res, found>>
           ELSE Fail /\ UNCHANGED fbcon
  /\ UNCHANGED <<reader, present, active, power, d0, limit, restored>>

\* The panel goes to the iGPU.  done is noted before the write.
SwitchToIgd(ok) ==
  /\ gpuPc = "IGD"
  /\ done' = done \cup {"switcheroo"} \cup (IF ok THEN {} ELSE {"failed"})
  /\ active' = IF ok THEN "IGD" ELSE active
  /\ gpuPc' = IF ok THEN "OFF" ELSE "revert"
  /\ want' = IF ok THEN want ELSE "low"
  /\ UNCHANGED <<appliedMode, res, found, reader, present, fbcon, power, d0, limit,
                 restored>>

\* OFF may be refused, and what was accepted need not have happened.
PowerOff(ok) ==
  /\ gpuPc = "OFF"
  /\ IF ok THEN /\ Goto("verify")
                /\ power' \in {"Pwr", "Off"}
                /\ d0' \in {TRUE, power' = "Pwr"}
           ELSE Fail /\ UNCHANGED <<power, d0>>
  /\ UNCHANGED <<reader, present, fbcon, active, limit, restored>>

\* Both times: DIS Off and a power_state that is not D0.
Verified == power = "Off" /\ ~d0

VerifyImmediate ==
  /\ gpuPc = "verify"
  /\ IF Verified THEN Goto("wait") ELSE Fail
  /\ UNCHANGED <<reader, present, devVars, restored>>

\* wait_s (10 s) is longer than a telemetry read: one that had passed its
\* tests before the wait is over by now.
VerifyAfterWait ==
  /\ gpuPc = "wait"
  /\ reader # "reading"
  /\ IF Verified THEN Finish(TRUE, "off", FALSE) ELSE Fail
  /\ UNCHANGED <<reader, present, devVars, restored>>

\* _power_on writes ON, DIS and the binding of fbcon, whatever fails.
PowerOn(ok) ==
  /\ power'  = IF "ON" \in ok THEN "Pwr" ELSE power
  /\ d0'     = (d0 \/ "ON" \in ok)
  /\ active' = IF "DIS" \in ok THEN "DIS" ELSE active
  /\ fbcon'  = (fbcon \/ "bind" \in ok)
  /\ restored' = (ok = {"ON", "DIS", "bind"})
PowerOnWrites == SUBSET {"ON", "DIS", "bind"}

\* The revert of a failed off undoes what done says was started.
Revert(ok) ==
  /\ gpuPc = "revert" /\ Goto("power")
  /\ IF "switcheroo" \in done THEN PowerOn(ok)
     ELSE IF "fbcon" \in done
     THEN /\ fbcon' = (fbcon \/ "bind" \in ok)
          /\ restored' = (restored /\ "bind" \in ok)
          /\ UNCHANGED <<active, power, d0>>
     ELSE UNCHANGED <<fbcon, active, power, d0, restored>>
  /\ UNCHANGED <<reader, present, limit>>

\* _apply_on, first half: power the dGPU up if it is off.
ApplyOnPower(ok) ==
  /\ gpuPc = "power" /\ Goto("cap")
  /\ IF power = "Off" THEN PowerOn(ok)
                      ELSE UNCHANGED <<fbcon, active, power, d0, restored>>
  /\ UNCHANGED <<reader, present, limit>>

\* _apply_on, second half, and the end of apply_mode: cap and DPM level are
\* written and read back.  Gpu.mode becomes the mode even if this failed;
\* after a failed off the result is never ok.
SetCapDpm(ok) ==
  /\ gpuPc = "cap"
  /\ found' = (found \/ present)
  /\ limit' = IF ~found' THEN limit
              ELSE IF ok THEN want
              ELSE "partial"                \* one of the two may be written
  /\ gpuPc' = "idle" /\ appliedMode' = want
  /\ res' = [ok |-> found' /\ ok /\ limit' = want /\ done = {},
             mode |-> want, already |-> FALSE]
  /\ UNCHANGED <<want, done, reader, present, fbcon, active, power, d0, restored>>

\* Mutant of ReadTests: busy is not tested.
ReadTestsModeOnly == appliedMode # "off" /\ found

\* Gpu.read: only switcheroo and power_state while off or mid-change.
ReadTests == appliedMode # "off" /\ ~busy /\ found

ReadBegin ==
  /\ reader = "idle" /\ ReadTests
  /\ reader' = IF gpuPc = "wait" THEN "late" ELSE "reading"
  /\ UNCHANGED <<gpuCtlVars, devVars, present, restored>>

\* The rest of Gpu.read: hwmon and the other amdgpu files.
ReadAmdgpu ==
  /\ reader # "idle" /\ reader' = "idle"
  /\ d0' \in IF power = "Off" THEN {d0, TRUE} ELSE {d0}
  /\ UNCHANGED <<gpuCtlVars, fbcon, active, power, limit, present, restored>>

\* amdgpu may finish probing after the daemon started.
Probe == /\ ~present /\ present' = TRUE
         /\ UNCHANGED <<gpuCtlVars, devVars, reader, restored>>

\* The daemon dies and is started again; the hardware stays as it is.
GpuCrash ==
  /\ CrashAllowed
  /\ gpuPc' = "idle" /\ reader' = "idle" /\ done' = {} /\ appliedMode' = FirstMode
  /\ found' = present /\ res' = NoResult
  /\ restored' = (restored /\ ~busy)
  /\ UNCHANGED <<want, present, devVars>>

Change ==
  \/ CheckSwitcheroo \/ VerifyImmediate \/ VerifyAfterWait
  \/ \E ok \in BOOLEAN : \/ UnbindFbcon(ok) \/ SwitchToIgd(ok)
                         \/ PowerOff(ok) \/ SetCapDpm(ok)
  \/ \E ok \in PowerOnWrites : Revert(ok) \/ ApplyOnPower(ok)

GpuNext == \/ \E m \in Modes : Begin(m)
           \/ Change \/ ReadBegin \/ ReadAmdgpu \/ Probe \/ GpuCrash

\* A thread inside a mode change and one inside a read keep running.
GpuFairness == WF_gpuVars(Change) /\ WF_gpuVars(ReadAmdgpu)
GpuSpec == GpuInit /\ [][GpuNext]_gpuVars /\ GpuFairness

-----------------------------------------------------------------------------
GpuTypeOK ==
  /\ gpuPc \in {"idle", "check", "unbind", "IGD", "OFF", "verify", "wait",
             "revert", "power", "cap"}
  /\ want \in Modes /\ done \in SUBSET {"fbcon", "switcheroo", "failed"}
  /\ appliedMode \in Modes \cup {"none"}
  /\ res \in [ok : BOOLEAN, mode : Modes, already : BOOLEAN]
  /\ reader \in {"idle", "reading", "late"}
  /\ active \in {"DIS", "IGD"} /\ power \in {"Pwr", "Off"}
  /\ limit \in Modes \cup {"firmware", "partial"}
  /\ fbcon \in BOOLEAN /\ d0 \in BOOLEAN /\ restored \in BOOLEAN
  /\ found \in BOOLEAN /\ present \in BOOLEAN

\* After any sequence of mode changes, failed and reverted ones included, a
\* dGPU that is in mode auto or low has the panel and the console again, if
\* the writes that put them back succeeded and no crash cut a change short.
ConsoleRestored ==
  ~busy /\ appliedMode \in {"auto", "low"} /\ restored =>
    fbcon /\ active = "DIS" /\ power = "Pwr"

\* A mode off that was reached by switching the dGPU off, and not taken over
\* from a dGPU that was off already, is a dGPU in DIS Off and out of D0,
\* although a telemetry read may have woken it while the change ran.
OffMeansOff ==
  ~busy /\ appliedMode = "off" /\ res.mode = "off" /\ res.ok /\ ~res.already =>
    power = "Off" /\ ~d0

\* A result of ok for auto or low means that this mode's cap and DPM level
\* are in force, whatever earlier changes left behind.
OkMeansInForce ==
  ~busy /\ res.ok /\ res.mode \in {"auto", "low"} => limit = res.mode

\* No amdgpu file is read while the mode is off, although the tests of
\* Gpu.read and the reads themselves are not one step.  The one exception is
\* a change that found the dGPU off already: it does not wait for 10 s.
OffNeverTouched == [][ReadAmdgpu => appliedMode # "off" \/ res.already]_gpuVars

\* Every mode change comes to an end.
ChangeEnds == busy ~> ~busy

\* What a mode change reports is what the hardware is in, the console comes
\* back, and a dGPU that is off stays untouched (gpu.py, apply_mode and read).
GpuSafe ==
  /\ [](GpuTypeOK /\ ConsoleRestored /\ OffMeansOff /\ OkMeansInForce)
  /\ OffNeverTouched
=============================================================================
