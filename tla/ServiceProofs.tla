---------------------------- MODULE ServiceProofs ----------------------------
(***************************************************************************)
(* Service and BootCheck are safe, for every instance: the units around the*)
(* daemon with the limits they leave in the hardware, and how a boot that  *)
(* ended abruptly is found out.  Each part has an inductive invariant made *)
(* of named conjuncts, one lemma for each with a step for every action, and*)
(* a theorem that puts them together.                                      *)
(***************************************************************************)
EXTENDS Service, BootCheck, WellFoundedInduction, TLAPS

(* Service *)

\* What the units and the configuration give: positive limits, the static cap no
\* higher than HARD_MAX_W, and timeouts that leave room for the pings.
LEMMA ConstantFacts ==
  /\ Firmware \in Nat /\ HardMax \in Nat /\ Static \in Nat /\ ShellDefault \in Nat
  /\ Static > 0 /\ ShellDefault > 0 /\ HardMax > 0 /\ Firmware > HardMax
  /\ HardMax >= Static /\ HardMax >= ShellDefault
  /\ MaxStepAge \in Nat /\ PingEvery \in Nat /\ WatchdogSec \in Nat
  /\ StaleTimeout \in Nat /\ StartTimeout \in Nat /\ Silence \in Nat
  /\ PingEvery <= MaxStepAge /\ PingEvery + 1 < WatchdogSec
  /\ StartTimeout > StaleTimeout + 2
  BY ServiceAssumption

\* A saturating counter.
LEMMA UpToIs ==
  ASSUME NEW n \in Nat, NEW max \in Nat
  PROVE  UpTo(n, max) = IF n <= max THEN n ELSE max
  BY DEF UpTo, Min

\* The bound on turns without a good step is one.
LEMMA SilenceBound ==
  /\ Max({Silence, MaxStepAge + 1}) \in Nat
  /\ Max({Silence, MaxStepAge + 1}) >= Silence
  /\ Max({Silence, MaxStepAge + 1}) >= MaxStepAge + 1
  BY ConstantFacts DEF Max

\* write_limits clamps whatever it is given into 1..HARD_MAX_W, and lets a cap
\* under the firmware's limit through as it is.
LEMMA ClampIs ==
  ASSUME NEW w \in Nat \ {0}, NEW f \in 0..Firmware
  PROVE  /\ ServiceClamp(w, f) \in 1..HardMax
         /\ w <= HardMax /\ f = Firmware => ServiceClamp(w, f) = w
<1>1. CASE f = 0
  <2>1. ServiceClamp(w, f) = Min({w, HardMax})
    BY <1>1 DEF ServiceClamp
  <2> QED
    BY <1>1, <2>1, ConstantFacts DEF Min
<1>2. CASE f # 0
  <2>1. ServiceClamp(w, f) = Min({w, HardMax, f})
    BY <1>2 DEF ServiceClamp
  <2>2. \E x \in {w, HardMax, f} : \A y \in {w, HardMax, f} : x =< y
    BY ConstantFacts
  <2>3. /\ ServiceClamp(w, f) \in {w, HardMax, f}
        /\ \A y \in {w, HardMax, f} : ServiceClamp(w, f) =< y
    BY <2>1, <2>2 DEF Min
  <2> QED
    BY <1>2, <2>3, ConstantFacts
<1> QED
  BY <1>1, <1>2

\* The limits and what is kept of the firmware's; no cap is ever lifted.
LimitsInv ==
  /\ pl1 \in 1..Firmware /\ pl2 \in 1..Firmware
  /\ fw \in 0..Firmware /\ clamp \in 0..Firmware /\ serviceFaults \in Nat
  /\ NeverFirmware

\* Why the capture is the firmware's: until the first write lands in the first
\* boot the limits are the firmware's, and what lands first has captured them.
\* The limits left in phase wait are the static cap's.
CaptureInv ==
  serviceFaults = 0 =>
    /\ fw \in {0, Firmware}
    /\ IF capped THEN fw = Firmware ELSE pl1 = Firmware
    /\ phase # "boot" => capped
    /\ phase = "wait" => pl1 = Static /\ pl2 = Static

\* The counters of the loop and of systemd.
LoopTypeOK ==
  /\ pinged \in 0..PingEvery /\ wdAge \in 0..WatchdogSec /\ uptime \in 0..StartTimeout
  /\ stepAge \in 0..Max({Silence, MaxStepAge + 1})
  /\ serviceFaults \in Nat

\* The watchdog's clock starts afresh only at a turn with a good step at most
\* MaxStepAge old; so the two ages never grow apart by more than that.
WatchInv == phase = "run" /\ ready => stepAge <= MaxStepAge + wdAge

\* A daemon that pings all the time: the clock is no further than the turns since
\* the last ping, and a good step that is not READY yet has time left.
KeptInv ==
  phase = "run" /\ serviceFaults = 0 =>
    /\ pinged < PingEvery => wdAge <= pinged
    /\ stepAge = 0 => wdAge <= PingEvery
    /\ stepAge = 0 /\ ~ready => uptime <= StaleTimeout + 1

ServiceInv == LimitsInv /\ CaptureInv /\ LoopTypeOK /\ WatchInv /\ KeptInv

\* A write of one value leaves each limit as it was or at the value, and both at
\* the value unless it fails.
LEMMA WriteFacts ==
  ASSUME LimitsInv, NEW w \in 1..HardMax, Write(w, w)
  PROVE  /\ pl1' \in {pl1, w} /\ pl2' \in {pl2, w} /\ serviceFaults' \in Nat
         /\ UNCHANGED capped \/ (capped' /\ pl1' = w /\ pl2' = w)
         /\ serviceFaults' = 0 => /\ serviceFaults = 0 /\ capped'
                                  /\ pl1' = w /\ pl2' = w
  BY DEF Write, ServiceFault, LimitsInv

\* What load_or_capture_firmware returns.
LEMMA CapturedType == LimitsInv => Captured \in 0..Firmware
  BY ConstantFacts DEF LimitsInv, Captured

\* turbomac-cap.sh apply, by Python or by the shell, and with writes that fail:
\* without a fault both limits end up at the static cap under the firmware's.
LEMMA ApplyLimits ==
  ASSUME LimitsInv, PythonApply \/ ShellApply
  PROVE  /\ pl1' \in {pl1} \cup 1..HardMax /\ pl2' \in {pl2} \cup 1..HardMax
         /\ fw' \in 0..Firmware /\ serviceFaults' \in Nat
         /\ UNCHANGED capped \/ (capped' /\ pl1' <= HardMax /\ pl2' <= HardMax)
         /\ serviceFaults' = 0 =>
              /\ serviceFaults = 0 /\ capped' /\ fw' = Captured
              /\ pl1' = ServiceClamp(Static, fw') /\ pl2' = pl1'
<1>1. CASE PythonApply
  <2> DEFINE w == ServiceClamp(Static, Captured)
  <2>1. w \in 1..HardMax
    BY CapturedType, ClampIs, ConstantFacts
  <2>2. Write(w, w) /\ fw' = Captured
    BY <1>1 DEF PythonApply
  <2>3. pl1' = w => pl1' = ServiceClamp(Static, fw')
    BY <2>2
  <2> HIDE DEF w
  <2> QED
    BY <2>1, <2>2, <2>3, WriteFacts, CapturedType, ConstantFacts
<1>2. CASE ShellApply
  <2>1. serviceFaults' \in Nat /\ serviceFaults' # 0
    BY <1>2 DEF ShellApply, ServiceFault, LimitsInv
  <2>2. pl1' \in 1..HardMax /\ pl2' \in 1..HardMax
    BY <1>2, ConstantFacts DEF ShellApply
  <2>3. pl1' <= HardMax /\ pl2' <= HardMax
    BY <2>2, ConstantFacts
  <2>4. capped' /\ fw' = fw
    BY <1>2 DEF ShellApply
  <2>5. UNCHANGED capped \/ (capped' /\ pl1' <= HardMax /\ pl2' <= HardMax)
    BY <2>3, <2>4
  <2>6. fw' \in 0..Firmware
    BY <2>4 DEF LimitsInv
  <2> QED
    BY <2>1, <2>2, <2>5, <2>6
<1> QED
  BY <1>1, <1>2

\* A turn of the daemon's loop writes limits that are clamped, or none.
LEMMA TurnLimits ==
  ASSUME LimitsInv, NEW good \in BOOLEAN, NEW valid \in BOOLEAN, NEW heard \in BOOLEAN,
         Turn(good, valid, heard)
  PROVE  /\ pl1' \in {pl1} \cup 1..HardMax /\ pl2' \in {pl2} \cup 1..HardMax
         /\ serviceFaults' \in Nat
         /\ UNCHANGED capped \/ (capped' /\ pl1' <= HardMax /\ pl2' <= HardMax)
         /\ serviceFaults' = 0 => serviceFaults = 0 /\ heard
         /\ serviceFaults' = 0 /\ ~capped' => UNCHANGED limits
<1>1. CASE heard /\ \E w \in 1..Firmware : Write(ServiceClamp(w, clamp), ServiceClamp(w, clamp))
  <2> PICK w \in 1..Firmware : Write(ServiceClamp(w, clamp), ServiceClamp(w, clamp))
    BY <1>1
  <2> DEFINE c == ServiceClamp(w, clamp)
  <2>1. c \in 1..HardMax
    BY ClampIs, ConstantFacts DEF LimitsInv
  <2>2. Write(c, c)
    OBVIOUS
  <2> HIDE DEF c
  <2> QED
    BY <1>1, <2>1, <2>2, WriteFacts, ConstantFacts
<1>2. CASE heard /\ UNCHANGED <<limits, serviceFaults>>
  BY <1>2 DEF LimitsInv, limits
<1>3. CASE ~heard /\ serviceFaults' = serviceFaults + 1 /\ UNCHANGED limits
  BY <1>3 DEF LimitsInv, limits
<1> QED
  BY <1>1, <1>2, <1>3 DEF Turn

\* No step of the units or the daemon lifts a cap that is in force.
LEMMA LimitsStep ==
  LimitsInv /\ [ServiceNext]_serviceVars => LimitsInv'
<1> SUFFICES ASSUME LimitsInv, [ServiceNext]_serviceVars PROVE LimitsInv'
  OBVIOUS
<1> USE DEF LimitsInv, NeverFirmware, limits, loop
<1>1. CASE CapService
  BY <1>1, ApplyLimits, ConstantFacts DEF CapService, ServiceApply
<1>2. CASE StartPre
  BY <1>2, ApplyLimits, ConstantFacts DEF StartPre, ServiceApply
<1>3. CASE StopPost
  BY <1>3, ApplyLimits, ConstantFacts DEF StopPost, ServiceApply
<1>4. CASE Setup
  BY <1>4, CapturedType DEF Setup
<1>5. CASE \E good, valid, heard \in BOOLEAN : Turn(good, valid, heard)
  <2> PICK good \in BOOLEAN, valid \in BOOLEAN, heard \in BOOLEAN : Turn(good, valid, heard)
    BY <1>5
  <2>1. UNCHANGED <<fw, clamp>>
    BY DEF Turn
  <2> QED
    BY <2>1, TurnLimits, ConstantFacts
<1>6. CASE Hang
  BY <1>6 DEF Hang
<1>7. CASE Kill
  BY <1>7 DEF Kill
<1>8. CASE ServiceCrash
  BY <1>8 DEF ServiceCrash
<1>9. CASE Reboot
  BY <1>9, ConstantFacts DEF Reboot
<1>10. CASE UNCHANGED serviceVars
  BY <1>10 DEF serviceVars
<1> QED
  BY <1>1, <1>2, <1>3, <1>4, <1>5, <1>6, <1>7, <1>8, <1>9, <1>10 DEF ServiceNext

\* No step saves anything but the firmware's limits, while no write, save or run
\* of Python fails.
LEMMA CaptureStep ==
  LimitsInv /\ CaptureInv /\ [ServiceNext]_serviceVars => CaptureInv'
<1> SUFFICES ASSUME LimitsInv, CaptureInv, [ServiceNext]_serviceVars PROVE CaptureInv'
  OBVIOUS
<1> USE DEF CaptureInv, limits, loop
<1>1. CASE CapService
  <2> SUFFICES ASSUME serviceFaults' = 0 PROVE CaptureInv'
    OBVIOUS
  <2>1. /\ fw' = Captured /\ capped' /\ serviceFaults = 0
        /\ pl1' = ServiceClamp(Static, fw') /\ pl2' = pl1'
    BY <1>1, ApplyLimits DEF CapService, ServiceApply
  <2>2. fw' = Firmware
    BY <2>1, ConstantFacts DEF Captured, Suspect
  <2>3. pl1' = Static
    BY <2>1, <2>2, ClampIs, ConstantFacts
  <2> QED
    BY <2>1, <2>2, <2>3
<1>2. CASE StartPre
  <2> SUFFICES ASSUME serviceFaults' = 0 PROVE CaptureInv'
    OBVIOUS
  <2>1. /\ fw' = Captured /\ capped' /\ serviceFaults = 0
        /\ pl1' = ServiceClamp(Static, fw') /\ pl2' = pl1'
    BY <1>2, ApplyLimits DEF StartPre, ServiceApply
  <2>2. fw' = Firmware
    BY <2>1, ConstantFacts DEF Captured, Suspect
  <2>3. pl1' = Static
    BY <2>1, <2>2, ClampIs, ConstantFacts
  <2> QED
    BY <2>1, <2>2, <2>3
<1>3. CASE StopPost
  <2> SUFFICES ASSUME serviceFaults' = 0 PROVE CaptureInv'
    OBVIOUS
  <2>1. /\ fw' = Captured /\ capped' /\ serviceFaults = 0
        /\ pl1' = ServiceClamp(Static, fw') /\ pl2' = pl1'
    BY <1>3, ApplyLimits DEF StopPost, ServiceApply
  <2>2. fw' = Firmware
    BY <2>1, ConstantFacts DEF Captured, Suspect
  <2>3. pl1' = Static
    BY <2>1, <2>2, ClampIs, ConstantFacts
  <2> QED
    BY <2>1, <2>2, <2>3
<1>4. CASE Setup
  BY <1>4, ConstantFacts DEF Setup, Captured, Suspect
<1>5. CASE \E good, valid, heard \in BOOLEAN : Turn(good, valid, heard)
  <2> PICK good \in BOOLEAN, valid \in BOOLEAN, heard \in BOOLEAN : Turn(good, valid, heard)
    BY <1>5
  <2>1. UNCHANGED <<fw, clamp, phase>> /\ phase = "run"
    BY DEF Turn
  <2> QED
    BY <2>1, TurnLimits
<1>6. CASE Hang
  BY <1>6 DEF Hang
<1>7. CASE Kill
  BY <1>7 DEF Kill
<1>8. CASE ServiceCrash
  BY <1>8 DEF ServiceCrash
<1>9. CASE Reboot
  BY <1>9 DEF Reboot
<1>10. CASE UNCHANGED serviceVars
  BY <1>10 DEF serviceVars
<1> QED
  BY <1>1, <1>2, <1>3, <1>4, <1>5, <1>6, <1>7, <1>8, <1>9, <1>10 DEF ServiceNext

\* The counters stay in their ranges.
LEMMA LoopTypeStep ==
  LimitsInv /\ LoopTypeOK /\ [ServiceNext]_serviceVars => LoopTypeOK'
<1> SUFFICES ASSUME LimitsInv, LoopTypeOK, [ServiceNext]_serviceVars PROVE LoopTypeOK'
  OBVIOUS
<1> USE DEF LoopTypeOK, limits, loop
<1>1. CASE CapService
  <2>1. UNCHANGED <<pinged, wdAge, uptime, stepAge, ready>> /\ phase' # "run"
    BY <1>1 DEF CapService, ServiceApply
  <2>2. serviceFaults' \in Nat
    BY <1>1, ApplyLimits DEF CapService, ServiceApply
  <2> QED
    BY <2>1, <2>2
<1>2. CASE StartPre
  <2>1. UNCHANGED <<pinged, wdAge, uptime, stepAge, ready>> /\ phase' # "run"
    BY <1>2 DEF StartPre, ServiceApply
  <2>2. serviceFaults' \in Nat
    BY <1>2, ApplyLimits DEF StartPre, ServiceApply
  <2> QED
    BY <2>1, <2>2
<1>3. CASE StopPost
  <2>1. UNCHANGED <<pinged, wdAge, uptime, stepAge, ready>> /\ phase' # "run"
    BY <1>3 DEF StopPost, ServiceApply
  <2>2. serviceFaults' \in Nat
    BY <1>3, ApplyLimits DEF StopPost, ServiceApply
  <2> QED
    BY <2>1, <2>2
<1>4. CASE Setup
  BY <1>4, ConstantFacts, SilenceBound DEF Setup
<1>5. CASE \E good, valid, heard \in BOOLEAN : Turn(good, valid, heard)
  <2> PICK good \in BOOLEAN, valid \in BOOLEAN, heard \in BOOLEAN : Turn(good, valid, heard)
    BY <1>5
  <2> DEFINE age == IF good THEN 0 ELSE stepAge + 1
  <2> DEFINE ping == Alive(age) /\ pinged + 1 >= PingEvery
  <2>0. age \in Nat /\ age <= Silence
    BY DEF Turn, LoopTypeOK
  <2>1. /\ phase = "run" /\ UNCHANGED phase /\ ~Overdue /\ stepAge' = age
        /\ uptime' = UpTo(uptime + 1, StartTimeout)
        /\ ready' = (ready \/ (Alive(age) /\ heard /\ Ready(valid)))
        /\ pinged' = IF ping THEN 0 ELSE UpTo(pinged + 1, PingEvery)
        /\ wdAge' = IF (ping /\ heard) \/ (ready' /\ ~ready) THEN 0
                    ELSE UpTo(wdAge + 1, WatchdogSec)
    BY DEF Turn
  <2>2. /\ uptime' = IF uptime + 1 <= StartTimeout THEN uptime + 1 ELSE StartTimeout
        /\ pinged' = IF ping THEN 0 ELSE IF pinged + 1 <= PingEvery THEN pinged + 1 ELSE PingEvery
        /\ wdAge' = IF (ping /\ heard) \/ (ready' /\ ~ready) THEN 0
                    ELSE IF wdAge + 1 <= WatchdogSec THEN wdAge + 1 ELSE WatchdogSec
    BY <2>1, UpToIs, ConstantFacts DEF LoopTypeOK
  <2>3. serviceFaults' \in Nat /\ (serviceFaults' = 0 => serviceFaults = 0 /\ heard)
    BY TurnLimits
  <2> HIDE DEF age, ping
  <2> QED
    BY <2>0, <2>1, <2>2, <2>3, ConstantFacts, SilenceBound
<1>6. CASE Hang
  <2>1. /\ phase = "run" /\ UNCHANGED <<phase, ready, serviceFaults>> /\ ~Overdue
        /\ stepAge < Silence /\ stepAge' = stepAge + 1
        /\ uptime' = UpTo(uptime + 1, StartTimeout)
        /\ pinged' = UpTo(pinged + 1, PingEvery) /\ wdAge' = UpTo(wdAge + 1, WatchdogSec)
    BY <1>6 DEF Hang
  <2>2. /\ uptime' = IF uptime + 1 <= StartTimeout THEN uptime + 1 ELSE StartTimeout
        /\ pinged' = IF pinged + 1 <= PingEvery THEN pinged + 1 ELSE PingEvery
        /\ wdAge' = IF wdAge + 1 <= WatchdogSec THEN wdAge + 1 ELSE WatchdogSec
    BY <2>1, UpToIs, ConstantFacts DEF LoopTypeOK
  <2> QED
    BY <2>1, <2>2, ConstantFacts, SilenceBound
<1>7. CASE Kill
  BY <1>7 DEF Kill
<1>8. CASE ServiceCrash
  BY <1>8 DEF ServiceCrash
<1>9. CASE Reboot
  BY <1>9 DEF Reboot
<1>10. CASE UNCHANGED serviceVars
  BY <1>10 DEF serviceVars
<1> QED
  BY <1>1, <1>2, <1>3, <1>4, <1>5, <1>6, <1>7, <1>8, <1>9, <1>10 DEF ServiceNext

\* Every turn and every hang keeps the two clocks together.
LEMMA WatchStep ==
  LimitsInv /\ LoopTypeOK /\ WatchInv /\ [ServiceNext]_serviceVars => WatchInv'
<1> SUFFICES ASSUME LimitsInv, LoopTypeOK, WatchInv, [ServiceNext]_serviceVars PROVE WatchInv'
  OBVIOUS
<1> USE DEF WatchInv, limits, loop
<1>1. CASE CapService
  <2>1. UNCHANGED <<pinged, wdAge, uptime, stepAge, ready>> /\ phase' # "run"
    BY <1>1 DEF CapService, ServiceApply
  <2>2. serviceFaults' \in Nat
    BY <1>1, ApplyLimits DEF CapService, ServiceApply
  <2> QED
    BY <2>1
<1>2. CASE StartPre
  <2>1. UNCHANGED <<pinged, wdAge, uptime, stepAge, ready>> /\ phase' # "run"
    BY <1>2 DEF StartPre, ServiceApply
  <2>2. serviceFaults' \in Nat
    BY <1>2, ApplyLimits DEF StartPre, ServiceApply
  <2> QED
    BY <2>1
<1>3. CASE StopPost
  <2>1. UNCHANGED <<pinged, wdAge, uptime, stepAge, ready>> /\ phase' # "run"
    BY <1>3 DEF StopPost, ServiceApply
  <2>2. serviceFaults' \in Nat
    BY <1>3, ApplyLimits DEF StopPost, ServiceApply
  <2> QED
    BY <2>1
<1>4. CASE Setup
  BY <1>4 DEF Setup
<1>5. CASE \E good, valid, heard \in BOOLEAN : Turn(good, valid, heard)
  <2> PICK good \in BOOLEAN, valid \in BOOLEAN, heard \in BOOLEAN : Turn(good, valid, heard)
    BY <1>5
  <2> DEFINE age == IF good THEN 0 ELSE stepAge + 1
  <2> DEFINE ping == Alive(age) /\ pinged + 1 >= PingEvery
  <2>0. age \in Nat /\ age <= Silence
    BY DEF Turn, LoopTypeOK
  <2>1. /\ phase = "run" /\ UNCHANGED phase /\ ~Overdue /\ stepAge' = age
        /\ uptime' = UpTo(uptime + 1, StartTimeout)
        /\ ready' = (ready \/ (Alive(age) /\ heard /\ Ready(valid)))
        /\ pinged' = IF ping THEN 0 ELSE UpTo(pinged + 1, PingEvery)
        /\ wdAge' = IF (ping /\ heard) \/ (ready' /\ ~ready) THEN 0
                    ELSE UpTo(wdAge + 1, WatchdogSec)
    BY DEF Turn
  <2>2. /\ uptime' = IF uptime + 1 <= StartTimeout THEN uptime + 1 ELSE StartTimeout
        /\ pinged' = IF ping THEN 0 ELSE IF pinged + 1 <= PingEvery THEN pinged + 1 ELSE PingEvery
        /\ wdAge' = IF (ping /\ heard) \/ (ready' /\ ~ready) THEN 0
                    ELSE IF wdAge + 1 <= WatchdogSec THEN wdAge + 1 ELSE WatchdogSec
    BY <2>1, UpToIs, ConstantFacts DEF LoopTypeOK
  <2>3. serviceFaults' \in Nat /\ (serviceFaults' = 0 => serviceFaults = 0 /\ heard)
    BY TurnLimits
  <2>4. ping => age <= MaxStepAge
    BY DEF Alive
  <2>5. ready' /\ ~ready => age <= MaxStepAge
    BY <2>1 DEF Alive
  <2>6. ready => wdAge < WatchdogSec
    BY <2>1, ConstantFacts DEF Overdue, LoopTypeOK
  <2>7. age <= stepAge + 1
    BY DEF LoopTypeOK
  <2> HIDE DEF age, ping
  <2> QED
    BY <2>0, <2>1, <2>2, <2>4, <2>5, <2>6, <2>7, ConstantFacts DEF LoopTypeOK
<1>6. CASE Hang
  <2>1. /\ phase = "run" /\ UNCHANGED <<phase, ready, serviceFaults>> /\ ~Overdue
        /\ stepAge < Silence /\ stepAge' = stepAge + 1
        /\ uptime' = UpTo(uptime + 1, StartTimeout)
        /\ pinged' = UpTo(pinged + 1, PingEvery) /\ wdAge' = UpTo(wdAge + 1, WatchdogSec)
    BY <1>6 DEF Hang
  <2>2. /\ uptime' = IF uptime + 1 <= StartTimeout THEN uptime + 1 ELSE StartTimeout
        /\ pinged' = IF pinged + 1 <= PingEvery THEN pinged + 1 ELSE PingEvery
        /\ wdAge' = IF wdAge + 1 <= WatchdogSec THEN wdAge + 1 ELSE WatchdogSec
    BY <2>1, UpToIs, ConstantFacts DEF LoopTypeOK
  <2>3. ready => wdAge < WatchdogSec
    BY <2>1, ConstantFacts DEF Overdue, LoopTypeOK
  <2> QED
    BY <2>1, <2>2, <2>3, ConstantFacts DEF LoopTypeOK
<1>7. CASE Kill
  BY <1>7 DEF Kill
<1>8. CASE ServiceCrash
  BY <1>8 DEF ServiceCrash
<1>9. CASE Reboot
  BY <1>9 DEF Reboot
<1>10. CASE UNCHANGED serviceVars
  BY <1>10 DEF serviceVars
<1> QED
  BY <1>1, <1>2, <1>3, <1>4, <1>5, <1>6, <1>7, <1>8, <1>9, <1>10 DEF ServiceNext

\* Every turn and every hang keeps a healthy daemon's clocks short of a kill.
LEMMA KeptStep ==
  LimitsInv /\ LoopTypeOK /\ KeptInv /\ [ServiceNext]_serviceVars => KeptInv'
<1> SUFFICES ASSUME LimitsInv, LoopTypeOK, KeptInv, [ServiceNext]_serviceVars PROVE KeptInv'
  OBVIOUS
<1> USE DEF KeptInv, limits, loop
<1>1. CASE CapService
  <2>1. UNCHANGED <<pinged, wdAge, uptime, stepAge, ready>> /\ phase' # "run"
    BY <1>1 DEF CapService, ServiceApply
  <2>2. serviceFaults' \in Nat
    BY <1>1, ApplyLimits DEF CapService, ServiceApply
  <2> QED
    BY <2>1
<1>2. CASE StartPre
  <2>1. UNCHANGED <<pinged, wdAge, uptime, stepAge, ready>> /\ phase' # "run"
    BY <1>2 DEF StartPre, ServiceApply
  <2>2. serviceFaults' \in Nat
    BY <1>2, ApplyLimits DEF StartPre, ServiceApply
  <2> QED
    BY <2>1
<1>3. CASE StopPost
  <2>1. UNCHANGED <<pinged, wdAge, uptime, stepAge, ready>> /\ phase' # "run"
    BY <1>3 DEF StopPost, ServiceApply
  <2>2. serviceFaults' \in Nat
    BY <1>3, ApplyLimits DEF StopPost, ServiceApply
  <2> QED
    BY <2>1
<1>4. CASE Setup
  BY <1>4, ConstantFacts DEF Setup
<1>5. CASE \E good, valid, heard \in BOOLEAN : Turn(good, valid, heard)
  <2> PICK good \in BOOLEAN, valid \in BOOLEAN, heard \in BOOLEAN : Turn(good, valid, heard)
    BY <1>5
  <2> DEFINE age == IF good THEN 0 ELSE stepAge + 1
  <2> DEFINE ping == Alive(age) /\ pinged + 1 >= PingEvery
  <2>0. age \in Nat /\ age <= Silence
    BY DEF Turn, LoopTypeOK
  <2>1. /\ phase = "run" /\ UNCHANGED phase /\ ~Overdue /\ stepAge' = age
        /\ uptime' = UpTo(uptime + 1, StartTimeout)
        /\ ready' = (ready \/ (Alive(age) /\ heard /\ Ready(valid)))
        /\ pinged' = IF ping THEN 0 ELSE UpTo(pinged + 1, PingEvery)
        /\ wdAge' = IF (ping /\ heard) \/ (ready' /\ ~ready) THEN 0
                    ELSE UpTo(wdAge + 1, WatchdogSec)
    BY DEF Turn
  <2>2. /\ uptime' = IF uptime + 1 <= StartTimeout THEN uptime + 1 ELSE StartTimeout
        /\ pinged' = IF ping THEN 0 ELSE IF pinged + 1 <= PingEvery THEN pinged + 1 ELSE PingEvery
        /\ wdAge' = IF (ping /\ heard) \/ (ready' /\ ~ready) THEN 0
                    ELSE IF wdAge + 1 <= WatchdogSec THEN wdAge + 1 ELSE WatchdogSec
    BY <2>1, UpToIs, ConstantFacts DEF LoopTypeOK
  <2>3. serviceFaults' \in Nat /\ (serviceFaults' = 0 => serviceFaults = 0 /\ heard)
    BY TurnLimits
  <2> SUFFICES ASSUME serviceFaults' = 0 PROVE KeptInv'
    BY DEF KeptInv
  <2>4. age = 0 => Alive(age)
    BY ConstantFacts DEF Alive
  <2>5. age = 0 /\ ~ready' => uptime + 1 <= StaleTimeout + 1
    BY <2>1, <2>3, <2>4, ConstantFacts DEF Ready, LoopTypeOK
  <2>6. age = 0 /\ ~ping => pinged + 1 < PingEvery
    BY <2>4, ConstantFacts DEF LoopTypeOK
  <2> HIDE DEF age, ping
  <2>7. pinged' < PingEvery => wdAge' <= pinged'
    BY <2>1, <2>2, <2>3, ConstantFacts DEF LoopTypeOK
  <2>8. stepAge' = 0 => wdAge' <= PingEvery
    BY <2>1, <2>2, <2>3, <2>6, ConstantFacts DEF LoopTypeOK
  <2>9. stepAge' = 0 /\ ~ready' => uptime' <= StaleTimeout + 1
    BY <2>1, <2>2, <2>5, ConstantFacts DEF LoopTypeOK
  <2> QED
    BY <2>7, <2>8, <2>9
<1>6. CASE Hang
  <2>1. /\ phase = "run" /\ UNCHANGED <<phase, ready, serviceFaults>> /\ ~Overdue
        /\ stepAge < Silence /\ stepAge' = stepAge + 1
        /\ uptime' = UpTo(uptime + 1, StartTimeout)
        /\ pinged' = UpTo(pinged + 1, PingEvery) /\ wdAge' = UpTo(wdAge + 1, WatchdogSec)
    BY <1>6 DEF Hang
  <2>2. /\ uptime' = IF uptime + 1 <= StartTimeout THEN uptime + 1 ELSE StartTimeout
        /\ pinged' = IF pinged + 1 <= PingEvery THEN pinged + 1 ELSE PingEvery
        /\ wdAge' = IF wdAge + 1 <= WatchdogSec THEN wdAge + 1 ELSE WatchdogSec
    BY <2>1, UpToIs, ConstantFacts DEF LoopTypeOK
  <2> QED
    BY <2>1, <2>2, ConstantFacts DEF LoopTypeOK
<1>7. CASE Kill
  BY <1>7 DEF Kill
<1>8. CASE ServiceCrash
  BY <1>8 DEF ServiceCrash
<1>9. CASE Reboot
  BY <1>9 DEF Reboot
<1>10. CASE UNCHANGED serviceVars
  BY <1>10 DEF serviceVars
<1> QED
  BY <1>1, <1>2, <1>3, <1>4, <1>5, <1>6, <1>7, <1>8, <1>9, <1>10 DEF ServiceNext

\* For all limits and timeouts that ServiceAssumption allows, and any number of
\* crashes, kills, reboots and faults: a cap is in force from the first write on,
\* the watchdog kills a wedged daemon and no healthy one, and the firmware's
\* limits are captured before they are overwritten (cap.py, turbomac-cap.sh,
\* rapl.py, loop_once, turbomacd.service).
THEOREM ServiceIsSafe == ServiceSpec => []ServiceSafe
<1>1. ServiceInit => ServiceInv
  <2> SUFFICES ASSUME ServiceInit PROVE ServiceInv
    OBVIOUS
  <2>1. LimitsInv
    BY ConstantFacts DEF ServiceInit, LimitsInv, NeverFirmware
  <2>2. CaptureInv /\ WatchInv /\ KeptInv
    BY DEF ServiceInit, CaptureInv, WatchInv, KeptInv
  <2>3. LoopTypeOK
    BY ConstantFacts, SilenceBound DEF ServiceInit, LoopTypeOK
  <2> QED
    BY <2>1, <2>2, <2>3 DEF ServiceInv
<1>2. ServiceInv /\ [ServiceNext]_serviceVars => ServiceInv'
  BY LimitsStep, CaptureStep, LoopTypeStep, WatchStep, KeptStep DEF ServiceInv
<1>3. ServiceInv => ServiceSafe
  <2> SUFFICES ASSUME ServiceInv PROVE ServiceSafe
    OBVIOUS
  <2> USE DEF ServiceInv
  <2>1. ServiceTypeOK /\ NeverFirmware
    BY DEF LimitsInv, LoopTypeOK, ServiceTypeOK
  <2>2. StaticWhenDown /\ CapturedIsFirmware
    BY DEF CaptureInv, StaticWhenDown, CapturedIsFirmware
  <2>3. WedgedIsKilled
    BY ConstantFacts, SilenceBound DEF WatchInv, LoopTypeOK, WedgedIsKilled
  <2>4. HealthyIsKept
    BY ConstantFacts, SilenceBound DEF KeptInv, LoopTypeOK, HealthyIsKept, Overdue
  <2> QED
    BY <2>1, <2>2, <2>3, <2>4 DEF ServiceSafe
<1> QED
  BY <1>1, <1>2, <1>3, PTL DEF ServiceSpec

-----------------------------------------------------------------------------
(* BootCheck *)

\* A nonempty set of naturals with a bound has a maximum, and Max is it: the
\* least of its upper bounds, which exists as < is well-founded on Nat.
LEMMA MaxIs ==
  ASSUME NEW S, NEW n \in Nat, S \subseteq 0..n, S # {}
  PROVE  Max(S) \in S /\ \A k \in S : k <= Max(S)
<1> DEFINE T == {m \in Nat : \A k \in S : k <= m}
<1> DEFINE R == {ss \in Nat \X Nat : ss[1] < ss[2]}
<1>1. T \subseteq Nat /\ n \in T
  OBVIOUS
<1>2. IsWellFoundedOn(R, Nat)
  BY NatLessThanWellFounded DEF OpToRel
<1> HIDE DEF R
<1>3. PICK m \in T : \A k \in T : ~ (<<k, m>> \in R)
  <2> HIDE DEF T
  <2>1. T # {}
    BY <1>1
  <2> QED
    BY <1>1, <1>2, <2>1, WFMin
<1>4. \A k \in T : m <= k
  <2> SUFFICES ASSUME NEW k \in T, k < m PROVE FALSE
    BY <1>1
  <2> QED
    BY <1>1, <1>3 DEF R
<1>5. m \in S
  <2> SUFFICES ASSUME m \notin S PROVE FALSE
    OBVIOUS
  <2>1. PICK s \in S : TRUE
    OBVIOUS
  <2>2. m - 1 \in Nat /\ \A k \in S : k <= m - 1
    BY <2>1
  <2> QED
    BY <2>2, <1>4
<1>6. \A k \in S : k <= m
  OBVIOUS
<1> HIDE DEF T
<1> QED
  BY <1>5, <1>6 DEF Max

\* Types, and how many boots have ended.
BootBase ==
  /\ boot \in 1..Boots /\ ended \in Seq({"clean", "lost", "idle"})
  /\ up => Len(ended) = boot - 1
  /\ ~up => Len(ended) = boot
  /\ daemon \in {"off", "checking", "judged", "running"}
  /\ daemon # "off" => up
  /\ marker \in 0..boot /\ checked \in 0..boot /\ seenMarker \in 0..boot
  /\ samples \subseteq 1..boot
  /\ verdict \in [1..Boots -> {"none", "clean", "abrupt", "unknown"}]

\* A report is of an earlier boot, with samples no newer than that boot.
IncidentsInv == \A i \in incidents : i.boot \in 1..boot - 1 /\ i.samples \in 0..i.boot

\* Why the marker can be trusted: it is of this boot only while the daemon is
\* off, and a boot whose number it has was not lost; nor was the boot before, if
\* the marker that this start has read is of it.
MarkerInv ==
  /\ marker = boot /\ up => daemon = "off"
  /\ marker \in 1..Len(ended) => ended[marker] # "lost"
  /\ daemon = "checking" /\ seenMarker \in 1..boot - 1 => ended[seenMarker] # "lost"

\* Nothing is said of a boot before the next one.
VerdictInv == LossNotClean /\ \A b \in boot..Boots : verdict[b] = "none"

\* Why a power loss is reported: whoever has judged, or finds the boot noted as
\* checked, has the report or the unknown verdict behind it.
ReportInv ==
  /\ daemon \in {"judged", "running"} \/ checked = boot =>
       (boot > 1 /\ ended[boot - 1] = "lost" =>
          verdict[boot - 1] = "unknown" \/ \E i \in incidents : i.boot = boot - 1)
  /\ NoFalseReport

BootInv == BootBase /\ IncidentsInv /\ MarkerInv /\ VerdictInv /\ ReportInv

\* The outcomes of check_previous_boot that a start can come to: nothing to
\* judge, clean by journal or marker, unknown, or abrupt with one more report.
LEMMA JudgeFacts ==
  ASSUME BootBase, Judge
  PROVE  /\ daemon = "checking" /\ checked # boot /\ daemon' = "judged"
         /\ UNCHANGED <<boot, up, ended, seenMarker, marker, checked, samples>>
         /\ \/ boot = 1 /\ UNCHANGED <<incidents, verdict>>
            \/ /\ boot > 1
               /\ \/ /\ ended[boot - 1] = "clean" \/ seenMarker = boot - 1
                     /\ verdict' = [verdict EXCEPT ![boot - 1] = "clean"]
                     /\ UNCHANGED incidents
                  \/ /\ verdict' = [verdict EXCEPT ![boot - 1] = "unknown"]
                     /\ UNCHANGED incidents
                  \/ /\ ended[boot - 1] # "clean"
                     /\ verdict' = [verdict EXCEPT ![boot - 1] = "abrupt"]
                     /\ \E r : /\ r.boot = boot - 1 /\ r.samples \in 0..boot - 1
                               /\ incidents' = incidents \cup {r}
<1>1. /\ daemon = "checking" /\ checked # boot /\ daemon' = "judged"
      /\ UNCHANGED <<boot, up, ended, seenMarker, marker, checked, samples>>
  BY DEF Judge, Skip
<1>2. CASE boot = 1 /\ UNCHANGED <<incidents, verdict>>
  BY <1>1, <1>2
<1>3. CASE boot > 1 /\ Journal
  <2>1. CASE ended[boot - 1] = "clean"
    BY <1>1, <1>3, <2>1 DEF Journal, Say
  <2>2. CASE ended[boot - 1] # "clean"
    <3>1. Say("abrupt") /\ Report
      BY <1>3, <2>2 DEF Journal
    <3> DEFINE r == [id |-> Cardinality(incidents) + 1, boot |-> boot - 1, samples |-> SampleBoot]
    <3>2. SampleBoot \in 0..boot - 1
      <4>1. {0} \cup (samples \ {boot}) \subseteq 0..boot - 1 /\ boot - 1 \in Nat
        BY <1>3 DEF BootBase
      <4> QED
        BY <4>1, MaxIs DEF SampleBoot
    <3>3. r.boot = boot - 1 /\ r.samples \in 0..boot - 1 /\ incidents' = incidents \cup {r}
      BY <3>1, <3>2 DEF Report
    <3> HIDE DEF r
    <3> QED
      BY <1>1, <1>3, <2>2, <3>1, <3>3 DEF Say
  <2> QED
    BY <2>1, <2>2
<1>4. CASE boot > 1 /\ \E listed \in BOOLEAN : Marker(listed)
  BY <1>1, <1>4 DEF Marker, Say
<1> QED
  BY <1>2, <1>3, <1>4 DEF Judge

\* Every step of a boot, a start, a stop or a power loss keeps the types.
LEMMA BaseStep ==
  BootBase /\ [BootNext]_bootVars => BootBase'
<1> SUFFICES ASSUME BootBase, [BootNext]_bootVars PROVE BootBase'
  OBVIOUS
<1> USE DEF BootBase
<1>1. CASE Start
  BY <1>1 DEF Start, Consume
<1>2. CASE Judge
  BY <1>2, JudgeFacts, BootAssumption
<1>3. CASE Note
  BY <1>3 DEF Note, Skip
<1>4. CASE Sample
  BY <1>4 DEF Sample
<1>5. CASE BootCrash
  BY <1>5 DEF BootCrash
<1>6. CASE StopService
  BY <1>6 DEF StopService, MarkClean
<1>7. CASE Boot
  <2>1. boot' \in 1..Boots /\ boot' = boot + 1
    BY <1>7, BootAssumption DEF Boot
  <2>2. samples' \subseteq 1..boot'
    BY <1>7, <2>1 DEF Boot
  <2>3. Len(ended') = boot' - 1
    BY <1>7, <2>1 DEF Boot
  <2> QED
    BY <1>7, <2>1, <2>2, <2>3 DEF Boot
<1>8. CASE \E how \in {"clean", "lost", "idle"} : Down(how)
  BY <1>8 DEF Down
<1>9. CASE UNCHANGED bootVars
  BY <1>9 DEF bootVars
<1> QED
  BY <1>1, <1>2, <1>3, <1>4, <1>5, <1>6, <1>7, <1>8, <1>9 DEF BootNext

\* Reports stay in order.
LEMMA IncidentsStep ==
  BootBase /\ IncidentsInv /\ [BootNext]_bootVars => IncidentsInv'
<1> SUFFICES ASSUME BootBase, IncidentsInv, [BootNext]_bootVars PROVE IncidentsInv'
  OBVIOUS
<1> USE DEF BootBase, IncidentsInv
<1>1. CASE Start
  BY <1>1 DEF Start, Consume
<1>2. CASE Judge
  BY <1>2, JudgeFacts
<1>3. CASE Note
  BY <1>3 DEF Note, Skip
<1>4. CASE Sample
  BY <1>4 DEF Sample
<1>5. CASE BootCrash
  BY <1>5 DEF BootCrash
<1>6. CASE StopService
  BY <1>6 DEF StopService, MarkClean
<1>7. CASE Boot
  BY <1>7 DEF Boot
<1>8. CASE \E how \in {"clean", "lost", "idle"} : Down(how)
  BY <1>8 DEF Down
<1>9. CASE UNCHANGED bootVars
  BY <1>9 DEF bootVars
<1> QED
  BY <1>1, <1>2, <1>3, <1>4, <1>5, <1>6, <1>7, <1>8, <1>9 DEF BootNext

\* The marker is taken away by every start and set only by a stop in order.
LEMMA MarkerStep ==
  BootBase /\ MarkerInv /\ [BootNext]_bootVars => MarkerInv'
<1> SUFFICES ASSUME BootBase, MarkerInv, [BootNext]_bootVars PROVE MarkerInv'
  OBVIOUS
<1> USE DEF BootBase, MarkerInv
<1>1. CASE Start
  BY <1>1 DEF Start, Consume
<1>2. CASE Judge
  BY <1>2, JudgeFacts
<1>3. CASE Note
  BY <1>3 DEF Note, Skip
<1>4. CASE Sample
  BY <1>4 DEF Sample
<1>5. CASE BootCrash
  BY <1>5 DEF BootCrash
<1>6. CASE StopService
  BY <1>6 DEF StopService, MarkClean
<1>7. CASE Boot
  BY <1>7 DEF Boot
<1>8. CASE \E how \in {"clean", "lost", "idle"} : Down(how)
  BY <1>8 DEF Down
<1>9. CASE UNCHANGED bootVars
  BY <1>9 DEF bootVars
<1> QED
  BY <1>1, <1>2, <1>3, <1>4, <1>5, <1>6, <1>7, <1>8, <1>9 DEF BootNext

\* No start calls a lost boot clean.
LEMMA VerdictStep ==
  BootBase /\ MarkerInv /\ VerdictInv /\ [BootNext]_bootVars => VerdictInv'
<1> SUFFICES ASSUME BootBase, MarkerInv, VerdictInv, [BootNext]_bootVars PROVE VerdictInv'
  OBVIOUS
<1> USE DEF BootBase, MarkerInv, VerdictInv, LossNotClean
<1>1. CASE Start
  BY <1>1 DEF Start, Consume
<1>2. CASE Judge
  <2> USE <1>2, JudgeFacts
  <2>1. UNCHANGED <<boot, ended>> /\ boot - 1 \in Nat
    OBVIOUS
  <2>2. \A b \in 1..Boots : b # boot - 1 => verdict'[b] = verdict[b]
    OBVIOUS
  <2>3. boot > 1 /\ ended[boot - 1] = "lost" => verdict'[boot - 1] # "clean"
    <3> SUFFICES ASSUME boot > 1, ended[boot - 1] = "lost" PROVE verdict'[boot - 1] # "clean"
      OBVIOUS
    <3>1. seenMarker # boot - 1
      OBVIOUS
    <3>2. \/ verdict' = [verdict EXCEPT ![boot - 1] = "unknown"]
          \/ verdict' = [verdict EXCEPT ![boot - 1] = "abrupt"]
      BY <3>1
    <3>3. boot - 1 \in 1..Boots
      BY BootAssumption
    <3> QED
      BY <3>2, <3>3
  <2> QED
    BY <2>1, <2>2, <2>3, BootAssumption
<1>3. CASE Note
  BY <1>3 DEF Note, Skip
<1>4. CASE Sample
  BY <1>4 DEF Sample
<1>5. CASE BootCrash
  BY <1>5 DEF BootCrash
<1>6. CASE StopService
  BY <1>6 DEF StopService, MarkClean
<1>7. CASE Boot
  BY <1>7 DEF Boot
<1>8. CASE \E how \in {"clean", "lost", "idle"} : Down(how)
  BY <1>8 DEF Down
<1>9. CASE UNCHANGED bootVars
  BY <1>9 DEF bootVars
<1> QED
  BY <1>1, <1>2, <1>3, <1>4, <1>5, <1>6, <1>7, <1>8, <1>9 DEF BootNext

\* No crash between the report and the note of last_boot_checked loses a report,
\* and none is made of a clean boot.
LEMMA ReportStep ==
  BootBase /\ IncidentsInv /\ MarkerInv /\ ReportInv /\ [BootNext]_bootVars => ReportInv'
<1> SUFFICES ASSUME BootBase, IncidentsInv, MarkerInv, ReportInv, [BootNext]_bootVars PROVE ReportInv'
  OBVIOUS
<1> USE DEF BootBase, IncidentsInv, MarkerInv, ReportInv, NoFalseReport
<1>1. CASE Start
  BY <1>1 DEF Start, Consume
<1>2. CASE Judge
  <2>1. /\ UNCHANGED <<boot, ended, seenMarker>> /\ daemon = "checking"
        /\ boot - 1 \in Nat /\ boot - 1 <= Boots
    BY <1>2, JudgeFacts, BootAssumption
  <2>2. CASE boot = 1 /\ UNCHANGED <<incidents, verdict>>
    BY <2>1, <2>2
  <2>3. CASE /\ boot > 1 /\ (ended[boot - 1] = "clean" \/ seenMarker = boot - 1)
             /\ UNCHANGED incidents
    BY <2>1, <2>3
  <2>4. CASE /\ boot > 1 /\ verdict' = [verdict EXCEPT ![boot - 1] = "unknown"]
             /\ UNCHANGED incidents
    BY <2>1, <2>4
  <2>5. CASE /\ boot > 1 /\ ended[boot - 1] # "clean"
             /\ \E r : /\ r.boot = boot - 1 /\ r.samples \in 0..boot - 1
                       /\ incidents' = incidents \cup {r}
    BY <2>1, <2>5
  <2> QED
    BY <1>2, <2>2, <2>3, <2>4, <2>5, JudgeFacts
<1>3. CASE Note
  BY <1>3 DEF Note, Skip
<1>4. CASE Sample
  BY <1>4 DEF Sample
<1>5. CASE BootCrash
  BY <1>5 DEF BootCrash
<1>6. CASE StopService
  BY <1>6 DEF StopService, MarkClean
<1>7. CASE Boot
  BY <1>7 DEF Boot
<1>8. CASE \E how \in {"clean", "lost", "idle"} : Down(how)
  BY <1>8 DEF Down
<1>9. CASE UNCHANGED bootVars
  BY <1>9 DEF bootVars
<1> QED
  BY <1>1, <1>2, <1>3, <1>4, <1>5, <1>6, <1>7, <1>8, <1>9 DEF BootNext

\* For any number of boots, daemon crashes and power losses: what is recorded of
\* the previous boot is how it ended (incidents.py, check_previous_boot).
THEOREM BootIsSafe == BootSpec => []BootSafe
<1>1. BootInit => BootInv
  <2> SUFFICES ASSUME BootInit PROVE BootInv
    OBVIOUS
  <2>1. BootBase
    BY BootAssumption DEF BootInit, BootBase
  <2>2. IncidentsInv /\ MarkerInv
    BY DEF BootInit, IncidentsInv, MarkerInv
  <2>3. VerdictInv /\ ReportInv
    BY BootAssumption DEF BootInit, VerdictInv, LossNotClean, ReportInv, NoFalseReport
  <2> QED
    BY <2>1, <2>2, <2>3 DEF BootInv
<1>2. BootInv /\ [BootNext]_bootVars => BootInv'
  BY BaseStep, IncidentsStep, MarkerStep, VerdictStep, ReportStep DEF BootInv
<1>3. BootInv => BootSafe
  BY DEF BootInv, BootBase, IncidentsInv, VerdictInv, ReportInv, BootSafe, BootTypeOK,
     AbruptIsReported
<1> QED
  BY <1>1, <1>2, <1>3, PTL DEF BootSpec
=============================================================================
