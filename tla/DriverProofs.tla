---------------------------- MODULE DriverProofs ----------------------------
(***************************************************************************)
(* Proofs about Driver, for every value of its constants.                  *)
(***************************************************************************)
EXTENDS Driver, TLAPS

\* A write of the guard that does not take is a fault within the bound.
LEMMA GuardCounters ==
  ASSUME CounterType, NEW ok, SetGuard(ok)
  PROVE  faults' \in 0..MaxFaults
  BY DriverAssumption DEF CounterType, SetGuard, Takes

\* One action disturbs a few variables; the rest keep their types because they
\* keep their values.
LEMMA TypeStep ==
  ASSUME TypeOK, [Next]_vars
  PROVE  TypeOK'
<1> USE DriverAssumption DEF TypeOK, hwVars, hwpVars, savedVars, capVars, runVars, histVars
<1>0. CASE UNCHANGED vars
  <2> USE <1>0 DEF vars
  <2>1. PackageType' BY DEF PackageType, Requests
  <2>2. LimitType' BY DEF LimitType, Limits
  <2>3. HwpType' BY DEF HwpType, Requests, PackageType
  <2>4. DriverType' BY DEF DriverType
  <2>5. HandlerType' BY DEF HandlerType, PCs, Reasons
  <2>6. CounterType' BY DEF CounterType
  <2> QED BY <2>1, <2>2, <2>3, <2>4, <2>5, <2>6 DEF TypeOK
<1>1. CASE RestoreGuard
  <2>0. UNCHANGED faults \/ \E ok \in BOOLEAN : SetGuard(ok)
    BY <1>1 DEF RestoreGuard, WriteAppleGuard, EnsurePassiveGuard
  <2> USE <1>1 DEF RestoreGuard, WriteAppleGuard, EnsurePassiveGuard, SetGuard,
      WriteGuard, Takes
  <2>1. PackageType' BY DEF PackageType, Requests
  <2>2. LimitType' BY DEF LimitType, Limits
  <2>3. HwpType' BY DEF HwpType, Requests, PackageType
  <2>4. DriverType' BY DEF DriverType
  <2>5. HandlerType' BY DEF HandlerType, PCs, Reasons
  <2>6. CounterType' BY GuardCounters, <2>0 DEF CounterType, RestoreGuard
  <2> QED BY <2>1, <2>2, <2>3, <2>4, <2>5, <2>6 DEF TypeOK
<1>2. CASE RestoreHWP
  <2> USE <1>2 DEF RestoreHWP, RestoreRequests, WriteSafeRequests,
      EnsureFailSafe, WriteCaptured, WriteRequests, Everywhere, Takes
  <2>1. PackageType' BY DEF PackageType, HwpType, Requests
  <2>2. LimitType' BY DEF LimitType, Limits
  <2>3. HwpType' BY DEF HwpType, Requests, PackageType
  <2>4. DriverType' BY DEF DriverType
  <2>5. HandlerType' BY DEF HandlerType, PCs, Reasons
  <2>6. CounterType' BY DEF CounterType
  <2> QED BY <2>1, <2>2, <2>3, <2>4, <2>5, <2>6 DEF TypeOK
<1>3. CASE FinishRestore
  <2> USE <1>3 DEF FinishRestore, RestoreLimits, FinishState, Return, Takes
  <2>1. PackageType' BY DEF PackageType, Requests
  <2>2. LimitType' BY DEF LimitType, Limits
  <2>3. HwpType' BY DEF HwpType, Requests, PackageType
  <2>4. DriverType' BY DEF DriverType
  <2>5. HandlerType' BY DEF HandlerType, PCs, Reasons
  <2>6. CounterType' BY DEF CounterType
  <2> QED BY <2>1, <2>2, <2>3, <2>4, <2>5, <2>6 DEF TypeOK
<1>4. CASE InstallBootstrapLimit
  <2> USE <1>4 DEF InstallBootstrapLimit, BootstrapLimit, Install, Fail,
      BeginRestore, Takes, Min2, Max2
  <2>1. PackageType' BY DEF PackageType, Requests
  <2>2. LimitType' BY DEF LimitType, Limits
  <2>3. HwpType' BY DEF HwpType, Requests, PackageType
  <2>4. DriverType' BY DEF DriverType
  <2>5. HandlerType' BY DEF HandlerType, PCs, Reasons
  <2>6. CounterType' BY DEF CounterType
  <2> QED BY <2>1, <2>2, <2>3, <2>4, <2>5, <2>6 DEF TypeOK
<1>5. CASE EnableHWP
  <2> USE <1>5 DEF EnableHWP, EnablePackage, Fail, BeginRestore, Takes
  <2>1. PackageType' BY DEF PackageType, Requests
  <2>2. LimitType' BY DEF LimitType, Limits
  <2>3. HwpType' BY DEF HwpType, Requests, PackageType
  <2>4. DriverType' BY DEF DriverType
  <2>5. HandlerType' BY DEF HandlerType, PCs, Reasons
  <2>6. CounterType' BY DEF CounterType
  <2> QED BY <2>1, <2>2, <2>3, <2>4, <2>5, <2>6 DEF TypeOK
<1>6. CASE BootstrapFailSafe
  <2> USE <1>6 DEF BootstrapFailSafe, CaptureHWP, EnsureFailSafe,
      WriteRequests, Everywhere, Fail, BeginRestore, Takes
  <2>1. PackageType' BY DEF PackageType, Requests
  <2>2. LimitType' BY DEF LimitType, Limits
  <2>3. HwpType' BY DEF HwpType, Requests, PackageType
  <2>4. DriverType' BY DEF DriverType
  <2>5. HandlerType' BY DEF HandlerType, PCs, Reasons
  <2>6. CounterType' BY DEF CounterType
  <2> QED BY <2>1, <2>2, <2>3, <2>4, <2>5, <2>6 DEF TypeOK
<1>7. CASE InstallRequest
  <2> USE <1>7 DEF InstallRequest, Install, Fail, BeginRestore, Takes
  <2>1. PackageType' BY DEF PackageType, Requests
  <2>2. LimitType' BY DEF LimitType, Limits
  <2>3. HwpType' BY DEF HwpType, Requests, PackageType
  <2>4. DriverType' BY DEF DriverType
  <2>5. HandlerType' BY DEF HandlerType, PCs, Reasons
  <2>6. CounterType' BY DEF CounterType
  <2> QED BY <2>1, <2>2, <2>3, <2>4, <2>5, <2>6 DEF TypeOK
<1>8. CASE ReleaseHWP
  <2> USE <1>8 DEF ReleaseHWP, WriteCaptured, WriteRequests, Everywhere, Fail,
      BeginRestore, Takes
  <2>1. PackageType' BY DEF PackageType, Requests
  <2>2. LimitType' BY DEF LimitType, Limits
  <2>3. HwpType' BY DEF HwpType, Requests, PackageType
  <2>4. DriverType' BY DEF DriverType
  <2>5. HandlerType' BY DEF HandlerType, PCs, Reasons
  <2>6. CounterType' BY DEF CounterType
  <2> QED BY <2>1, <2>2, <2>3, <2>4, <2>5, <2>6 DEF TypeOK
<1>9. CASE ClearGuard
  <2> USE <1>9 DEF ClearGuard, WriteGuard, Fail, BeginRestore, Takes
  <2>1. PackageType' BY DEF PackageType, Requests
  <2>2. LimitType' BY DEF LimitType, Limits
  <2>3. HwpType' BY DEF HwpType, Requests, PackageType
  <2>4. DriverType' BY DEF DriverType
  <2>5. HandlerType' BY DEF HandlerType, PCs, Reasons
  <2>6. CounterType' BY DEF CounterType
  <2> QED BY <2>1, <2>2, <2>3, <2>4, <2>5, <2>6 DEF TypeOK
<1>10. CASE WatchdogFired
  <2> USE <1>10 DEF WatchdogFired, WatchdogExpired, NextPoll, Fail,
      BeginRestore
  <2>1. PackageType' BY DEF PackageType, Requests
  <2>2. LimitType' BY DEF LimitType, Limits
  <2>3. HwpType' BY DEF HwpType, Requests, PackageType
  <2>4. DriverType' BY DEF DriverType
  <2>5. HandlerType' BY DEF HandlerType, PCs, Reasons
  <2>6. CounterType' BY DEF CounterType
  <2> QED BY <2>1, <2>2, <2>3, <2>4, <2>5, <2>6 DEF TypeOK
<1>11. CASE PollGuard
  <2>0. UNCHANGED faults \/ \E ok : SetGuard(ok)
    BY <1>11 DEF PollGuard, EnsurePassiveGuard
  <2> USE <1>11 DEF PollGuard, InitializeHWP, EnsurePassiveGuard, SetGuard,
      WriteGuard, Takes, AllGuarded
  <2>1. PackageType' BY DEF PackageType, Requests
  <2>2. LimitType' BY DEF LimitType, Limits
  <2>3. HwpType' BY DEF HwpType, Requests, PackageType
  <2>4. DriverType' BY DEF DriverType
  <2>5. HandlerType' BY DEF HandlerType, PCs, Reasons
  <2>6. CounterType' BY GuardCounters, <2>0 DEF CounterType, PollGuard
  <2> QED BY <2>1, <2>2, <2>3, <2>4, <2>5, <2>6 DEF TypeOK
<1>12. CASE PollHWP
  <2> USE <1>12 DEF PollHWP, PollFailSafe, PollAgain, EnsureFailSafe,
      WriteRequests, Everywhere, Takes
  <2>1. PackageType' BY DEF PackageType, Requests
  <2>2. LimitType' BY DEF LimitType, Limits
  <2>3. HwpType' BY DEF HwpType, Requests, PackageType
  <2>4. DriverType' BY DEF DriverType
  <2>5. HandlerType' BY DEF HandlerType, PCs, Reasons
  <2>6. CounterType' BY DEF CounterType
  <2> QED BY <2>1, <2>2, <2>3, <2>4, <2>5, <2>6 DEF TypeOK
<1>13. CASE RejectInvalid
  <2> USE <1>13 DEF RejectInvalid, BeginRestore
  <2>1. PackageType' BY DEF PackageType, Requests
  <2>2. LimitType' BY DEF LimitType, Limits
  <2>3. HwpType' BY DEF HwpType, Requests, PackageType
  <2>4. DriverType' BY DEF DriverType
  <2>5. HandlerType' BY DEF HandlerType, PCs, Reasons
  <2>6. CounterType' BY DEF CounterType
  <2> QED BY <2>1, <2>2, <2>3, <2>4, <2>5, <2>6 DEF TypeOK
<1>14. CASE Open
  <2> USE <1>14 DEF Open
  <2>1. PackageType' BY DEF PackageType, Requests
  <2>2. LimitType' BY DEF LimitType, Limits
  <2>3. HwpType' BY DEF HwpType, Requests, PackageType
  <2>4. DriverType' BY DEF DriverType
  <2>5. HandlerType' BY DEF HandlerType, PCs, Reasons
  <2>6. CounterType' BY DEF CounterType
  <2> QED BY <2>1, <2>2, <2>3, <2>4, <2>5, <2>6 DEF TypeOK
<1>15. CASE Close
  <2> USE <1>15 DEF Close, BeginRestore
  <2>1. PackageType' BY DEF PackageType, Requests
  <2>2. LimitType' BY DEF LimitType, Limits
  <2>3. HwpType' BY DEF HwpType, Requests, PackageType
  <2>4. DriverType' BY DEF DriverType
  <2>5. HandlerType' BY DEF HandlerType, PCs, Reasons
  <2>6. CounterType' BY DEF CounterType
  <2> QED BY <2>1, <2>2, <2>3, <2>4, <2>5, <2>6 DEF TypeOK
<1>16. CASE UnknownCommand
  <2> USE <1>16 DEF UnknownCommand, Refuse
  <2>1. PackageType' BY DEF PackageType, Requests
  <2>2. LimitType' BY DEF LimitType, Limits
  <2>3. HwpType' BY DEF HwpType, Requests, PackageType
  <2>4. DriverType' BY DEF DriverType
  <2>5. HandlerType' BY DEF HandlerType, PCs, Reasons
  <2>6. CounterType' BY DEF CounterType
  <2> QED BY <2>1, <2>2, <2>3, <2>4, <2>5, <2>6 DEF TypeOK
<1>17. CASE ReadStatus
  <2> USE <1>17 DEF ReadStatus, InitializeHWP
  <2>1. PackageType' BY DEF PackageType, Requests
  <2>2. LimitType' BY DEF LimitType, Limits
  <2>3. HwpType' BY DEF HwpType, Requests, PackageType
  <2>4. DriverType' BY DEF DriverType
  <2>5. HandlerType' BY DEF HandlerType, PCs, Reasons
  <2>6. CounterType' BY DEF CounterType
  <2> QED BY <2>1, <2>2, <2>3, <2>4, <2>5, <2>6 DEF TypeOK
<1>18. ASSUME NEW r \in LimitRequests, ArmInvalid(r)
       PROVE  TypeOK'
  <2> USE <1>18 DEF ArmInvalid, Refuse
  <2>1. PackageType' BY DEF PackageType, Requests
  <2>2. LimitType' BY DEF LimitType, Limits
  <2>3. HwpType' BY DEF HwpType, Requests, PackageType
  <2>4. DriverType' BY DEF DriverType
  <2>5. HandlerType' BY DEF HandlerType, PCs, Reasons
  <2>6. CounterType' BY DEF CounterType
  <2> QED BY <2>1, <2>2, <2>3, <2>4, <2>5, <2>6 DEF TypeOK
<1>19. ASSUME NEW r \in LimitRequests, ArmNotPermitted(r)
       PROVE  TypeOK'
  <2> USE <1>19 DEF ArmNotPermitted, InitializeHWP
  <2>1. PackageType' BY DEF PackageType, Requests
  <2>2. LimitType' BY DEF LimitType, Limits
  <2>3. HwpType' BY DEF HwpType, Requests, PackageType
  <2>4. DriverType' BY DEF DriverType
  <2>5. HandlerType' BY DEF HandlerType, PCs, Reasons
  <2>6. CounterType' BY DEF CounterType
  <2> QED BY <2>1, <2>2, <2>3, <2>4, <2>5, <2>6 DEF TypeOK
<1>20. ASSUME NEW r \in LimitRequests, Arm(r)
       PROVE  TypeOK'
  <2> USE <1>20 DEF Arm, InitializeHWP, CaptureHWP, LimitRequests
  <2>1. PackageType' BY DEF PackageType, Requests
  <2>2. LimitType' BY DEF LimitType, Limits
  <2>3. HwpType' BY DEF HwpType, Requests, PackageType
  <2>4. DriverType' BY DEF DriverType
  <2>5. HandlerType' BY DEF HandlerType, PCs, Reasons
  <2>6. CounterType' BY DEF CounterType
  <2> QED BY <2>1, <2>2, <2>3, <2>4, <2>5, <2>6 DEF TypeOK
<1>21. ASSUME NEW r \in LimitRequests, Update(r)
       PROVE  TypeOK'
  <2> USE <1>21 DEF Update, BeginRestore, Fail, LimitRequests
  <2>1. PackageType' BY DEF PackageType, Requests
  <2>2. LimitType' BY DEF LimitType, Limits
  <2>3. HwpType' BY DEF HwpType, Requests, PackageType
  <2>4. DriverType' BY DEF DriverType
  <2>5. HandlerType' BY DEF HandlerType, PCs, Reasons
  <2>6. CounterType' BY DEF CounterType
  <2> QED BY <2>1, <2>2, <2>3, <2>4, <2>5, <2>6 DEF TypeOK
<1>22. ASSUME NEW w \in BOOLEAN, Disarm(w)
       PROVE  TypeOK'
  <2> USE <1>22 DEF Disarm, BeginRestore
  <2>1. PackageType' BY DEF PackageType, Requests
  <2>2. LimitType' BY DEF LimitType, Limits
  <2>3. HwpType' BY DEF HwpType, Requests, PackageType
  <2>4. DriverType' BY DEF DriverType
  <2>5. HandlerType' BY DEF HandlerType, PCs, Reasons
  <2>6. CounterType' BY DEF CounterType
  <2> QED BY <2>1, <2>2, <2>3, <2>4, <2>5, <2>6 DEF TypeOK
<1>23. CASE Start
  <2>0. UNCHANGED faults \/ \E ok : SetGuard(ok)
    BY <1>23 DEF Start, EnsurePassiveGuard
  <2> USE <1>23 DEF Start, EnsurePassiveGuard, SetGuard, WriteGuard, Takes,
      AllGuarded, Everywhere
  <2>1. PackageType' BY DEF PackageType, Requests
  <2>2. LimitType' BY DEF LimitType, Limits
  <2>3. HwpType' BY DEF HwpType, Requests, PackageType
  <2>4. DriverType' BY DEF DriverType
  <2>5. HandlerType' BY DEF HandlerType, PCs, Reasons
  <2>6. CounterType'
    <3>1. heartbeat' \in 0..WatchdogPolls - 1 OBVIOUS
    <3>2. faults' \in 0..MaxFaults
      <4>1. CASE UNCHANGED faults BY <4>1 DEF CounterType
      <4>2. ASSUME NEW ok, SetGuard(ok) PROVE faults' \in 0..MaxFaults
        BY <4>2, GuardCounters
      <4> QED BY <2>0, <4>1, <4>2
    <3> QED BY <3>1, <3>2 DEF CounterType
  <2> QED BY <2>1, <2>2, <2>3, <2>4, <2>5, <2>6 DEF TypeOK
<1>24. CASE Stop
  <2> USE <1>24 DEF Stop, BeginRestore
  <2>1. PackageType' BY DEF PackageType, Requests
  <2>2. LimitType' BY DEF LimitType, Limits
  <2>3. HwpType' BY DEF HwpType, Requests, PackageType
  <2>4. DriverType' BY DEF DriverType
  <2>5. HandlerType' BY DEF HandlerType, PCs, Reasons
  <2>6. CounterType' BY DEF CounterType
  <2> QED BY <2>1, <2>2, <2>3, <2>4, <2>5, <2>6 DEF TypeOK
<1>25. CASE Environment
  <2>0. Outside
    BY <1>25 DEF Environment, OutsideGuard, OutsideHotplug, OutsideLimit,
        OutsideRequest, OutsideEnable, OutsideLock
  <2>1. PackageType'
    <3> USE DEF PackageType, Requests
    <3>1. ASSUME NEW c \in CPUs, OutsideGuard(c) PROVE PackageType'
      BY <3>1 DEF OutsideGuard
    <3>2. ASSUME NEW c \in CPUs, OutsideHotplug(c) PROVE PackageType'
      BY <3>2 DEF OutsideHotplug
    <3>3. ASSUME NEW l, OutsideLimit(l) PROVE PackageType'
      BY <3>3 DEF OutsideLimit
    <3>4. ASSUME NEW c \in CPUs, NEW r \in {"default", "restricted"}, OutsideRequest(c, r)
          PROVE  PackageType'
      BY <3>4 DEF OutsideRequest
    <3>5. ASSUME NEW r \in {"default", "restricted"}, OutsideEnable(r)
          PROVE  PackageType'
      BY <3>5 DEF OutsideEnable, Everywhere
    <3>6. CASE OutsideLock
      BY <3>6 DEF OutsideLock
    <3> QED BY <1>25, <3>1, <3>2, <3>3, <3>4, <3>5, <3>6 DEF Environment
  <2> USE <1>25 DEF Environment, OutsideGuard, OutsideHotplug, OutsideLimit,
      OutsideRequest, OutsideEnable, OutsideLock, Outside, Everywhere
  <2>2. LimitType' BY DEF LimitType, Limits
  <2>3. HwpType' BY DEF HwpType, Requests, PackageType
  <2>4. DriverType' BY DEF DriverType
  <2>5. HandlerType' BY <2>0 DEF HandlerType, PCs, Reasons, Outside
  <2>6. CounterType' BY DEF CounterType
  <2> QED BY <2>1, <2>2, <2>3, <2>4, <2>5, <2>6 DEF TypeOK
<1> QED
  BY <1>0, <1>1, <1>2, <1>3, <1>4, <1>5, <1>6, <1>7, <1>8, <1>9, <1>10, <1>11,
      <1>12, <1>13, <1>14, <1>15, <1>16, <1>17, <1>18, <1>19, <1>20, <1>21,
      <1>22, <1>23, <1>24, <1>25 DEF Next, Restoring, Arming, Polling, Client

\* Every variable of the driver keeps its type; the watchdog's count of polls
\* stays below its timeout.
THEOREM DriverTypes == Spec => []TypeOK
<1>1. Init => TypeOK
  <2> SUFFICES ASSUME Init PROVE TypeOK OBVIOUS
  <2> USE DriverAssumption DEF Init, Everywhere
  <2>1. PackageType BY DEF PackageType, Requests
  <2>2. LimitType BY DEF LimitType, Limits
  <2>3. HwpType BY DEF HwpType, Requests, PackageType
  <2>4. DriverType BY DEF DriverType
  <2>5. HandlerType BY DEF HandlerType, PCs, Reasons
  <2>6. CounterType BY DEF CounterType
  <2> QED BY <2>1, <2>2, <2>3, <2>4, <2>5, <2>6 DEF TypeOK
<1> QED
  BY <1>1, TypeStep, PTL DEF Spec

-----------------------------------------------------------------------------
(* The inductive invariant *)

Unrestricted == \E c \in online : req[c] = "default"
Released     == \E c \in online : req[c] = "released"
AllReleased  == \A c \in online : req[c] = "released"

Low(l) ==
  l[1] <= Max2(FloorMW, BootstrapMW) /\ l[2] <= Max2(FloorMW, BootstrapMW)

\* What is known of HWP: no request is in effect before it is enabled, and
\* what was captured from macOS is restricted.
HwpInv ==
  /\ hwpEnabled_ => pm
  /\ hwpCaptured_ => pm
  /\ ~pm => \A c \in online : req[c] = "default"
  /\ ~hwpEnabledByTurboMac_ =>
       \A c \in capturedHWPPresent_ :
         capturedHWPRequests_[c] \in {"restricted", "failsafe"}
  /\ captured_ /\ ~hwpCaptured_ /\ ~hwpEnabledByTurboMac_ => ~pm

\* What each step of a handler can rely on.
StepInv ==
  /\ pc \in {"bootlimit", "enable"} => ~pm
  /\ pc = "enable" => Low(expectedPackageLimit_)
  /\ pc = "failsafe" => pm /\ hwpEnabledByTurboMac_
  /\ pc \in {"limit", "release", "unguard"} => captured_ /\ ~Unrestricted
  /\ pc \in {"bootlimit", "enable", "failsafe"} => captured_
  /\ pc \in {"enable", "failsafe", "release", "unguard"} =>
       expectedPackageLimit_ = installed
  /\ pc \in {"release", "unguard"} => limit = expectedPackageLimit_
  /\ pc = "unguard" => AllReleased
  /\ pc = "unlimit" /\ captured_ /\ hwpRestored /\ pm =>
       ~Unrestricted /\ ~Released

\* Where the guard may be off.
GuardInv ==
  ~guardRefused /\ ~AllGuarded =>
    /\ captured_ /\ limit = expectedPackageLimit_ /\ AllReleased
    /\ \/ pc \in {"idle", "limit"} /\ state_ = "Armed"
       \/ pc = "guard"

Protected == pm /\ Unrestricted => AllGuarded /\ Low(limit)

ReleasedInv == Released => limit = installed

\* What a restoration or a poll that succeeded left behind, and so what a
\* passive driver has.
AllFailSafe == \A c \in online : req[c] = "failsafe"

PassiveInv ==
  /\ pc \in {"hwp", "unlimit", "poll"} /\ guardRestored => AllGuarded
  /\ pc = "unlimit" /\ hwpRestored /\ hwpEnabledByTurboMac_ => AllFailSafe
  /\ supported_ /\ state_ = "Passive" /\ pc = "idle" =>
       AllGuarded /\ (hwpEnabledByTurboMac_ => AllFailSafe)

\* What was captured is what was found, or what an earlier restoration that
\* failed left behind, which is lower.
FoundInv ==
  /\ NoHigher(limit, Apple)
  /\ captured_ => NoHigher(capturedPackageLimit_, Apple)

Untouched ==
  /\ HwpInv /\ StepInv /\ GuardInv /\ Protected /\ ReleasedInv
  /\ PassiveInv /\ FoundInv

DriverInv == ~touched => Untouched

\* Only the environment touches the package behind the driver's back.
LEMMA TouchedStep ==
  ASSUME [Next]_vars, ~touched'
  PROVE  touched' = touched
<1> USE DEF hwVars, hwpVars, savedVars, capVars, runVars, histVars
<1>1. CASE Restoring
  BY <1>1 DEF Restoring, RestoreGuard, RestoreHWP, FinishRestore
<1>2. CASE Arming
  BY <1>2 DEF Arming, InstallBootstrapLimit, EnableHWP, BootstrapFailSafe,
      InstallRequest, ReleaseHWP, ClearGuard
<1>3. CASE Polling
  BY <1>3 DEF Polling, WatchdogFired, PollGuard, PollHWP
<1>4. CASE Client
  BY <1>4 DEF Client, Open, Close, UnknownCommand, Refuse, ReadStatus,
      ArmInvalid, ArmNotPermitted, Arm, Update, Disarm
<1>5. CASE RejectInvalid \/ Start \/ Stop
  BY <1>5 DEF RejectInvalid, Start, Stop
<1>6. CASE Environment
  BY <1>6 DEF Environment, OutsideGuard, OutsideHotplug, OutsideLimit,
      OutsideRequest, OutsideEnable, OutsideLock, Outside
<1> QED
  BY <1>1, <1>2, <1>3, <1>4, <1>5, <1>6 DEF Next, vars

\* The readback of a write of the guard tells whether it is set everywhere.
LEMMA SetGuardResult ==
  ASSUME TypeOK, NEW ok, SetGuard(ok), online' = online
  PROVE  (ok => AllGuarded') /\ (~ok => guardRefused')
<1>1. PICK took \in SUBSET online :
        /\ ok = (took = online)
        /\ WriteGuard(took, TRUE)
        /\ guardRefused' = (guardRefused \/ ~ok)
  BY DEF SetGuard
<1>2. took = online => AllGuarded'
  BY <1>1 DEF WriteGuard, AllGuarded, TypeOK, PackageType
<1> QED BY <1>1, <1>2

\* So does that of ensurePassiveGuardLocked, which may have nothing to write.
LEMMA EnsureGuardResult ==
  ASSUME TypeOK, NEW ok, EnsurePassiveGuard(ok), online' = online
  PROVE  ok => AllGuarded'
<1>1. CASE AllGuarded
  BY <1>1 DEF EnsurePassiveGuard, AllGuarded
<1>2. CASE ~AllGuarded
  BY <1>2, SetGuardResult DEF EnsurePassiveGuard
<1> QED BY <1>1, <1>2

\* And that of ensureHWPFailSafeLocked of the requests.
LEMMA EnsureFailSafeResult ==
  ASSUME TypeOK, NEW ok, NEW active, NEW override,
         EnsureFailSafe(ok, active, override), online' = online
  PROVE  ok => AllFailSafe'
<1> SUFFICES ASSUME ok PROVE AllFailSafe' OBVIOUS
<1>1. PICK took \in SUBSET online :
        /\ ok = (took = online)
        /\ WriteRequests(took, Everywhere("failsafe"))
  BY DEF EnsureFailSafe
<1>2. took = online => AllFailSafe'
  BY <1>1 DEF WriteRequests, Everywhere, AllFailSafe, TypeOK, PackageType
<1> QED BY <1>1, <1>2

\* An action that only begins a restoration, ends the driver with nothing
\* captured, or looks again whether HWP is enabled disturbs nothing.
LEMMA QuietStep ==
  ASSUME TypeOK, Untouched,
         UNCHANGED <<hwVars, capVars, histVars, savedVars, supported_, state_>>,
         UNCHANGED <<hwpEnabledByTurboMac_, guardRestored, hwpRestored>>,
         hwpEnabled_' \in {hwpEnabled_, pm},
         \/ pc' = pc
         \/ pc = "idle" /\ pc' = "guard"
         \/ pc = "idle" /\ pc' = "stopped" /\ ~captured_
  PROVE  Untouched'
<1> USE DEF Untouched, hwVars, capVars, histVars, savedVars
<1>1. HwpInv' BY DEF HwpInv
<1>2. StepInv' BY DEF StepInv, Unrestricted, Released, AllReleased, Low
<1>3. GuardInv' BY DEF GuardInv, AllGuarded, AllReleased
<1>4. Protected' BY DEF Protected, Unrestricted, AllGuarded, Low
<1>5. ReleasedInv' BY DEF ReleasedInv, Released
<1>6. PassiveInv' BY DEF PassiveInv, AllGuarded, AllFailSafe
<1>7. FoundInv' BY DEF FoundInv
<1> QED BY <1>1, <1>2, <1>3, <1>4, <1>5, <1>6, <1>7

\* Each action preserves the invariant, from what the handler's earlier steps
\* left behind.
LEMMA InvStep ==
  ASSUME TypeOK, TypeOK', DriverInv, [Next]_vars
  PROVE  DriverInv'
<1> SUFFICES ASSUME ~touched', touched' = touched, Untouched PROVE Untouched'
  BY TouchedStep DEF DriverInv
<1> USE DriverAssumption
    DEF Untouched, hwVars, hwpVars, savedVars, capVars, runVars, histVars
<1>0. CASE UNCHANGED vars
  BY <1>0, QuietStep DEF vars
<1>1. CASE RestoreGuard
  <2> USE <1>1 DEF RestoreGuard, WriteAppleGuard, EnsurePassiveGuard, SetGuard,
      WriteGuard, Takes
  <2>1. HwpInv'
    BY DEF HwpInv, TypeOK, PackageType, HwpType
  <2>2. StepInv'
    BY DEF StepInv, HwpInv, GuardInv, Protected, Unrestricted, Released,
        AllReleased, Low, TypeOK, PackageType
  <2>3. GuardInv'
    <3>1. ASSUME NEW ok \in BOOLEAN, SetGuard(ok) PROVE GuardInv'
      BY <3>1, SetGuardResult DEF GuardInv
    <3>2. CASE UNCHANGED <<guard, guardRefused>> /\ (AllGuarded \/ ~captured_)
      <4>1. AllGuarded' = AllGuarded
        BY <3>2 DEF AllGuarded
      <4>2. ~guardRefused => AllGuarded
        BY <3>2 DEF GuardInv
      <4> QED BY <3>2, <4>1, <4>2 DEF GuardInv
    <3>3. PICK ok \in BOOLEAN : WriteAppleGuard(ok)
      OBVIOUS
    <3> QED
      BY <3>3, <3>1, <3>2 DEF WriteAppleGuard, EnsurePassiveGuard
  <2>4. Protected'
    BY DEF Protected, StepInv, HwpInv, Unrestricted, AllGuarded, Low, TypeOK,
        PackageType
  <2>5. ReleasedInv'
    BY DEF ReleasedInv, StepInv, HwpInv, Released, TypeOK, PackageType
  <2>6. PassiveInv'
    <3>1. PICK ok \in BOOLEAN : guardRestored' = ok /\ WriteAppleGuard(ok)
      OBVIOUS
    <3>2. ok => AllGuarded'
      BY <3>1, SetGuardResult, EnsureGuardResult
    <3> QED BY <3>1, <3>2 DEF PassiveInv
  <2>7. FoundInv'
    BY DEF FoundInv, NoHigher, TypeOK, LimitType, Limits
  <2> QED BY <2>1, <2>2, <2>3, <2>4, <2>5, <2>6, <2>7
<1>2. CASE RestoreHWP
  <2> USE <1>2 DEF RestoreHWP, RestoreRequests, WriteSafeRequests,
      EnsureFailSafe, WriteCaptured, WriteRequests, Everywhere, Takes
  <2>1. HwpInv'
    BY DEF HwpInv, TypeOK, PackageType, HwpType
  <2>2. StepInv'
    BY DEF StepInv, HwpInv, GuardInv, Protected, Unrestricted, Released,
        AllReleased, Low, TypeOK, PackageType
  <2>3. GuardInv'
    BY DEF GuardInv, StepInv, TypeOK, PackageType, AllGuarded, AllReleased
  <2>4. Protected'
    BY DEF Protected, StepInv, HwpInv, Unrestricted, AllGuarded, Low, TypeOK,
        PackageType
  <2>5. ReleasedInv'
    BY DEF ReleasedInv, StepInv, HwpInv, Released, TypeOK, PackageType
  <2>6. PassiveInv'
    BY DEF PassiveInv, AllGuarded, AllFailSafe, TypeOK, PackageType
  <2>7. FoundInv'
    BY DEF FoundInv, NoHigher, TypeOK, LimitType, Limits
  <2> QED BY <2>1, <2>2, <2>3, <2>4, <2>5, <2>6, <2>7
<1>3. CASE FinishRestore
  <2> USE <1>3 DEF FinishRestore, RestoreLimits, FinishState, Return, Takes
  <2>1. HwpInv'
    BY DEF HwpInv, TypeOK, PackageType, HwpType
  <2>2. StepInv'
    BY DEF StepInv, HwpInv, GuardInv, Protected, Unrestricted, Released,
        AllReleased, Low, TypeOK, PackageType
  <2>3. GuardInv'
    BY DEF GuardInv, StepInv, TypeOK, PackageType, AllGuarded, AllReleased
  <2>4. Protected'
    BY DEF Protected, StepInv, HwpInv, Unrestricted, AllGuarded, Low, TypeOK,
        PackageType
  <2>5. ReleasedInv'
    BY DEF ReleasedInv, StepInv, HwpInv, Released, TypeOK, PackageType
  <2>6. PassiveInv'
    BY DEF PassiveInv, AllGuarded, AllFailSafe, TypeOK, PackageType
  <2>7. FoundInv'
    BY DEF FoundInv, NoHigher, TypeOK, LimitType, Limits
  <2> QED BY <2>1, <2>2, <2>3, <2>4, <2>5, <2>6, <2>7
<1>4. CASE InstallBootstrapLimit
  <2> USE <1>4 DEF InstallBootstrapLimit, BootstrapLimit, Install, Fail,
      BeginRestore, Takes, Min2, Max2
  <2>1. HwpInv'
    BY DEF HwpInv, TypeOK, PackageType, HwpType
  <2>2. StepInv'
    BY DEF StepInv, HwpInv, GuardInv, Protected, Unrestricted, Released,
        AllReleased, Low, TypeOK, PackageType
  <2>3. GuardInv'
    BY DEF GuardInv, StepInv, TypeOK, PackageType, AllGuarded, AllReleased
  <2>4. Protected'
    BY DEF Protected, StepInv, HwpInv, Unrestricted, AllGuarded, Low, TypeOK,
        PackageType
  <2>5. ReleasedInv'
    BY DEF ReleasedInv, StepInv, HwpInv, Released, TypeOK, PackageType
  <2>6. PassiveInv'
    BY DEF PassiveInv, AllGuarded, AllFailSafe, TypeOK, PackageType
  <2>7. FoundInv'
    BY DEF FoundInv, StepInv, NoHigher, TypeOK, LimitType, Limits
  <2> QED BY <2>1, <2>2, <2>3, <2>4, <2>5, <2>6, <2>7
<1>5. CASE EnableHWP
  <2> USE <1>5 DEF EnableHWP, EnablePackage, Fail, BeginRestore, Takes
  <2>1. HwpInv'
    BY DEF HwpInv, TypeOK, PackageType, HwpType
  <2>2. StepInv'
    BY DEF StepInv, HwpInv, GuardInv, Protected, Unrestricted, Released,
        AllReleased, Low, TypeOK, PackageType
  <2>3. GuardInv'
    BY DEF GuardInv, StepInv, TypeOK, PackageType, AllGuarded, AllReleased
  <2>4. Protected'
    BY DEF Protected, StepInv, VerifyLimits, Unrestricted, AllGuarded, Low
  <2>5. ReleasedInv'
    BY DEF ReleasedInv, StepInv, HwpInv, Released, TypeOK, PackageType
  <2>6. PassiveInv'
    BY DEF PassiveInv, AllGuarded, AllFailSafe, TypeOK, PackageType
  <2>7. FoundInv'
    BY DEF FoundInv, NoHigher, TypeOK, LimitType, Limits
  <2> QED BY <2>1, <2>2, <2>3, <2>4, <2>5, <2>6, <2>7
<1>6. CASE BootstrapFailSafe
  <2> USE <1>6 DEF BootstrapFailSafe, CaptureHWP, EnsureFailSafe,
      WriteRequests, Everywhere, Fail, BeginRestore, Takes
  <2>1. HwpInv'
    BY DEF HwpInv, StepInv
  <2>2. StepInv'
    BY DEF StepInv, HwpInv, VerifyLimits, Unrestricted, Released, AllReleased,
        TypeOK, PackageType
  <2>3. GuardInv'
    BY DEF GuardInv, StepInv, TypeOK, PackageType, AllGuarded, AllReleased
  <2>4. Protected'
    BY DEF Protected, StepInv, HwpInv, Unrestricted, AllGuarded, Low, TypeOK,
        PackageType
  <2>5. ReleasedInv'
    BY DEF ReleasedInv, StepInv, HwpInv, Released, TypeOK, PackageType
  <2>6. PassiveInv'
    BY DEF PassiveInv, AllGuarded, AllFailSafe, TypeOK, PackageType
  <2>7. FoundInv'
    BY DEF FoundInv, NoHigher, TypeOK, LimitType, Limits
  <2> QED BY <2>1, <2>2, <2>3, <2>4, <2>5, <2>6, <2>7
<1>7. CASE InstallRequest
  <2> USE <1>7 DEF InstallRequest, Install, Fail, BeginRestore, Takes
  <2>1. HwpInv'
    BY DEF HwpInv, TypeOK, PackageType, HwpType
  <2>2. StepInv'
    BY DEF StepInv, HwpInv, GuardInv, Protected, Unrestricted, Released,
        AllReleased, Low, TypeOK, PackageType
  <2>3. GuardInv'
    BY DEF GuardInv, StepInv, TypeOK, PackageType, AllGuarded, AllReleased
  <2>4. Protected'
    BY DEF Protected, StepInv, HwpInv, Unrestricted, AllGuarded, Low, TypeOK,
        PackageType
  <2>5. ReleasedInv'
    BY DEF ReleasedInv, StepInv, HwpInv, Released, TypeOK, PackageType
  <2>6. PassiveInv'
    BY DEF PassiveInv, AllGuarded, AllFailSafe, TypeOK, PackageType
  <2>7. FoundInv'
    BY DEF FoundInv, StepInv, NoHigher, TypeOK, LimitType, Limits
  <2> QED BY <2>1, <2>2, <2>3, <2>4, <2>5, <2>6, <2>7
<1>8. CASE ReleaseHWP
  <2> USE <1>8 DEF ReleaseHWP, WriteCaptured, WriteRequests, Everywhere, Fail,
      BeginRestore, Takes
  <2>1. HwpInv'
    BY DEF HwpInv, TypeOK, PackageType, HwpType
  <2>2. StepInv'
    BY DEF StepInv, HwpInv, GuardInv, Protected, Unrestricted, Released,
        AllReleased, Low, TypeOK, PackageType
  <2>3. GuardInv'
    BY DEF GuardInv, StepInv, TypeOK, PackageType, AllGuarded, AllReleased
  <2>4. Protected'
    BY DEF Protected, StepInv, HwpInv, Unrestricted, AllGuarded, Low, TypeOK,
        PackageType
  <2>5. ReleasedInv'
    BY DEF ReleasedInv, StepInv, HwpInv, Released, TypeOK, PackageType
  <2>6. PassiveInv'
    BY DEF PassiveInv, AllGuarded, AllFailSafe, TypeOK, PackageType
  <2>7. FoundInv'
    BY DEF FoundInv, NoHigher, TypeOK, LimitType, Limits
  <2> QED BY <2>1, <2>2, <2>3, <2>4, <2>5, <2>6, <2>7
<1>9. CASE ClearGuard
  <2> USE <1>9 DEF ClearGuard, WriteGuard, Fail, BeginRestore, Takes
  <2>1. HwpInv'
    BY DEF HwpInv, TypeOK, PackageType, HwpType
  <2>2. StepInv'
    BY DEF StepInv, HwpInv, GuardInv, Protected, Unrestricted, Released,
        AllReleased, Low, TypeOK, PackageType
  <2>3. GuardInv'
    BY DEF GuardInv, StepInv, TypeOK, PackageType, AllGuarded, AllReleased
  <2>4. Protected'
    BY DEF Protected, StepInv, HwpInv, Unrestricted, AllGuarded, Low, TypeOK,
        PackageType
  <2>5. ReleasedInv'
    BY DEF ReleasedInv, StepInv, HwpInv, Released, TypeOK, PackageType
  <2>6. PassiveInv'
    BY DEF PassiveInv, AllGuarded, AllFailSafe, TypeOK, PackageType
  <2>7. FoundInv'
    BY DEF FoundInv, NoHigher, TypeOK, LimitType, Limits
  <2> QED BY <2>1, <2>2, <2>3, <2>4, <2>5, <2>6, <2>7
<1>10. CASE WatchdogFired
  BY <1>10, QuietStep DEF WatchdogFired, WatchdogExpired, NextPoll, Fail,
      BeginRestore
<1>11. CASE PollGuard
  <2> USE <1>11 DEF PollGuard, InitializeHWP, EnsurePassiveGuard, SetGuard,
      WriteGuard, Takes, AllGuarded
  <2>1. HwpInv'
    BY DEF HwpInv, TypeOK, PackageType, HwpType
  <2>2. StepInv'
    BY DEF StepInv, HwpInv, GuardInv, Protected, Unrestricted, Released,
        AllReleased, Low, TypeOK, PackageType
  <2>3. GuardInv'
    BY DEF GuardInv, StepInv, TypeOK, PackageType, AllGuarded, AllReleased
  <2>4. Protected'
    BY DEF Protected, StepInv, HwpInv, Unrestricted, AllGuarded, Low, TypeOK,
        PackageType
  <2>5. ReleasedInv'
    BY DEF ReleasedInv, StepInv, HwpInv, Released, TypeOK, PackageType
  <2>6. PassiveInv'
    <3>1. guardRestored' => AllGuarded'
      BY EnsureGuardResult
    <3> QED BY <3>1 DEF PassiveInv
  <2>7. FoundInv'
    BY DEF FoundInv, NoHigher, TypeOK, LimitType, Limits
  <2> QED BY <2>1, <2>2, <2>3, <2>4, <2>5, <2>6, <2>7
<1>12. CASE PollHWP
  <2> USE <1>12 DEF PollHWP, PollFailSafe, PollAgain, EnsureFailSafe,
      WriteRequests, Everywhere, Takes
  <2>1. HwpInv'
    BY DEF HwpInv, TypeOK, PackageType, HwpType
  <2>2. StepInv'
    BY DEF StepInv, HwpInv, GuardInv, Protected, Unrestricted, Released,
        AllReleased, Low, TypeOK, PackageType
  <2>3. GuardInv'
    BY DEF GuardInv, StepInv, TypeOK, PackageType, AllGuarded, AllReleased
  <2>4. Protected'
    BY DEF Protected, StepInv, HwpInv, Unrestricted, AllGuarded, Low, TypeOK,
        PackageType
  <2>5. ReleasedInv'
    BY DEF ReleasedInv, StepInv, HwpInv, Released, TypeOK, PackageType
  <2>6. PassiveInv'
    <3>1. PICK ok \in BOOLEAN :
            /\ PollFailSafe(ok)
            /\ state_' = IF guardRestored /\ ok THEN state_ ELSE "Failsafe"
      OBVIOUS
    <3>2. ok /\ hwpEnabledByTurboMac_ => AllFailSafe'
      <4>1. CASE VerifyFailSafe /\ req' = req
        BY <4>1 DEF VerifyFailSafe, AllFailSafe
      <4>2. CASE EnsureFailSafe(ok, hwpFailSafeActive_, hwpOverrideActive_)
        BY <4>2, EnsureFailSafeResult
      <4> QED BY <3>1, <4>1, <4>2 DEF PollFailSafe
    <3>3. AllGuarded' = AllGuarded
      BY DEF AllGuarded
    <3> QED BY <3>1, <3>2, <3>3 DEF PassiveInv
  <2>7. FoundInv'
    BY DEF FoundInv, NoHigher, TypeOK, LimitType, Limits
  <2> QED BY <2>1, <2>2, <2>3, <2>4, <2>5, <2>6, <2>7
<1>13. CASE RejectInvalid
  BY <1>13, QuietStep DEF RejectInvalid, BeginRestore
<1>14. CASE Open
  BY <1>14, QuietStep DEF Open
<1>15. CASE Close
  BY <1>15, QuietStep DEF Close, BeginRestore
<1>16. CASE UnknownCommand
  BY <1>16, QuietStep DEF UnknownCommand, Refuse
<1>17. CASE ReadStatus
  BY <1>17, QuietStep DEF ReadStatus, InitializeHWP
<1>18. ASSUME NEW r \in LimitRequests, ArmInvalid(r)
       PROVE  Untouched'
  BY <1>18, QuietStep DEF ArmInvalid, Refuse
<1>19. ASSUME NEW r \in LimitRequests, ArmNotPermitted(r)
       PROVE  Untouched'
  BY <1>19, QuietStep DEF ArmNotPermitted, InitializeHWP
<1>20. ASSUME NEW r \in LimitRequests, Arm(r)
       PROVE  Untouched'
  <2> USE <1>20 DEF Arm, InitializeHWP, CaptureHWP, LimitRequests
  <2>1. HwpInv'
    BY DEF HwpInv, Permitted, MaximumRestricted
  <2>2. StepInv'
    BY DEF StepInv, HwpInv, Permitted, MaximumRestricted, Ready, Unrestricted
  <2>3. GuardInv'
    BY DEF GuardInv, StepInv, TypeOK, PackageType, AllGuarded, AllReleased
  <2>4. Protected'
    BY DEF Protected, StepInv, HwpInv, Unrestricted, AllGuarded, Low, TypeOK,
        PackageType
  <2>5. ReleasedInv'
    BY DEF ReleasedInv, StepInv, HwpInv, Released, TypeOK, PackageType
  <2>6. PassiveInv'
    BY DEF PassiveInv, AllGuarded, AllFailSafe, TypeOK, PackageType
  <2>7. FoundInv'
    BY DEF FoundInv, NoHigher, TypeOK, LimitType, Limits
  <2> QED BY <2>1, <2>2, <2>3, <2>4, <2>5, <2>6, <2>7
<1>21. ASSUME NEW r \in LimitRequests, Update(r)
       PROVE  Untouched'
  <2> USE <1>21 DEF Update, BeginRestore, Fail, LimitRequests
  <2>1. HwpInv'
    BY DEF HwpInv, TypeOK, PackageType, HwpType
  <2>2. StepInv'
    BY DEF StepInv, VerifyArmedState, VerifyOverride, Unrestricted, Released,
        AllReleased
  <2>3. GuardInv'
    BY DEF GuardInv, StepInv, TypeOK, PackageType, AllGuarded, AllReleased
  <2>4. Protected'
    BY DEF Protected, StepInv, HwpInv, Unrestricted, AllGuarded, Low, TypeOK,
        PackageType
  <2>5. ReleasedInv'
    BY DEF ReleasedInv, StepInv, HwpInv, Released, TypeOK, PackageType
  <2>6. PassiveInv'
    BY DEF PassiveInv, AllGuarded, AllFailSafe, TypeOK, PackageType
  <2>7. FoundInv'
    BY DEF FoundInv, NoHigher, TypeOK, LimitType, Limits
  <2> QED BY <2>1, <2>2, <2>3, <2>4, <2>5, <2>6, <2>7
<1>22. ASSUME NEW w \in BOOLEAN, Disarm(w)
       PROVE  Untouched'
  BY <1>22, QuietStep DEF Disarm, BeginRestore, Ready
<1>23. CASE Start
  <2> USE <1>23 DEF Start, EnsurePassiveGuard, SetGuard, WriteGuard, Takes,
      AllGuarded, Everywhere
  <2>1. HwpInv'
    BY DEF HwpInv, TypeOK, PackageType, HwpType
  <2>2. StepInv'
    BY DEF StepInv, HwpInv, GuardInv, Protected, Unrestricted, Released,
        AllReleased, Low, TypeOK, PackageType
  <2>3. GuardInv'
    BY DEF GuardInv, StepInv, TypeOK, PackageType, AllGuarded, AllReleased
  <2>4. Protected'
    BY DEF Protected, StepInv, HwpInv, Unrestricted, AllGuarded, Low, TypeOK,
        PackageType
  <2>5. ReleasedInv'
    BY DEF ReleasedInv, StepInv, HwpInv, Released, TypeOK, PackageType
  <2>6. PassiveInv'
    <3>1. supported_' => AllGuarded'
      BY EnsureGuardResult
    <3> QED BY <3>1 DEF PassiveInv
  <2>7. FoundInv'
    BY DEF FoundInv, NoHigher, TypeOK, LimitType, Limits
  <2> QED BY <2>1, <2>2, <2>3, <2>4, <2>5, <2>6, <2>7
<1>24. CASE Stop
  BY <1>24, QuietStep DEF Stop, BeginRestore
<1>25. CASE Environment
  BY <1>25 DEF Environment, OutsideGuard, OutsideHotplug, OutsideLimit,
      OutsideRequest, OutsideEnable, OutsideLock, Outside
<1> QED
  BY <1>0, <1>1, <1>2, <1>3, <1>4, <1>5, <1>6, <1>7, <1>8, <1>9, <1>10, <1>11,
      <1>12, <1>13, <1>14, <1>15, <1>16, <1>17, <1>18, <1>19, <1>20, <1>21,
      <1>22, <1>23, <1>24, <1>25 DEF Next, Restoring, Arming, Polling, Client

\* The invariant holds throughout.
THEOREM DriverInvariant == Spec => []DriverInv
<1>1. Init => DriverInv
  <2> SUFFICES ASSUME Init PROVE Untouched
    BY DEF DriverInv
  <2> USE DriverAssumption DEF Init, Everywhere
  <2>1. HwpInv BY DEF HwpInv
  <2>2. StepInv /\ GuardInv BY DEF StepInv, GuardInv, AllGuarded
  <2>3. Protected /\ ReleasedInv
    BY DEF Protected, Unrestricted, ReleasedInv, Released
  <2>4. PassiveInv BY DEF PassiveInv
  <2>5. FoundInv BY DEF FoundInv, NoHigher, Limits
  <2> QED BY <2>1, <2>2, <2>3, <2>4, <2>5 DEF Untouched
<1>2. TypeOK /\ TypeOK' /\ DriverInv /\ [Next]_vars => DriverInv'
  BY InvStep
<1> QED
  BY <1>1, <1>2, DriverTypes, PTL DEF Spec

\* BootstrapProtected: the request of power-on is never in effect without the
\* bootstrap limit and Apple's guard (arm, bootstrapHWPLocked, restoreLocked).
THEOREM DriverBootstrapProtected == Spec => []BootstrapProtected
<1>1. DriverInv => BootstrapProtected
  BY DEF DriverInv, Untouched, Protected, BootstrapProtected, Unrestricted, Low
<1> QED
  BY <1>1, DriverInvariant, PTL

\* ReleasedUnderLimits: a released HWP maximum is only in effect under the
\* limits the driver verified last (applyHWPMaximumLocked, restoreLocked).
THEOREM DriverReleasedUnderLimits == Spec => []ReleasedUnderLimits
<1>1. DriverInv => ReleasedUnderLimits
  BY DEF DriverInv, Untouched, ReleasedInv, ReleasedUnderLimits, Released
<1> QED
  BY <1>1, DriverInvariant, PTL

\* GuardOffOnlyReleased: Apple's guard is off only while all that the driver
\* installed is in force (arm, restoreLocked).
THEOREM DriverGuardOffOnlyReleased == Spec => []GuardOffOnlyReleased
<1>1. DriverInv => GuardOffOnlyReleased
  BY DEF DriverInv, Untouched, GuardInv, GuardOffOnlyReleased, AllReleased
<1> QED
  BY <1>1, DriverInvariant, PTL

\* PassiveMeansSafe: a driver that says it is passive has the guard set, and
\* its own fail-safe request if it enabled HWP (restoreLocked, watchdogFired).
THEOREM DriverPassiveMeansSafe == Spec => []PassiveMeansSafe
<1>1. DriverInv => PassiveMeansSafe
  BY DEF DriverInv, Untouched, PassiveInv, PassiveMeansSafe, AllFailSafe
<1> QED
  BY <1>1, DriverInvariant, PTL

\* NeverAboveFound: no limit the driver writes is above what it found at boot
\* (installLimitsLocked, restoreLocked).
THEOREM DriverNeverAboveFound == Spec => []NeverAboveFound
<1>1. DriverInv => NeverAboveFound
  BY DEF DriverInv, Untouched, FoundInv, NeverAboveFound
<1> QED
  BY <1>1, DriverInvariant, PTL

-----------------------------------------------------------------------------
(* The driver implements FailSafe *)

\* While the driver arms, the guard is still set: it goes off last.
IsArming == \/ pc \in {"bootlimit", "enable", "failsafe", "release", "unguard"}
            \/ pc = "limit" /\ state_ # "Armed"

ArmingInv == ~touched /\ IsArming => AllGuarded

\* The steps that arm leave the guard alone until ClearGuard, and arm begins
\* with a guard that is set.
LEMMA ArmingStep ==
  ASSUME TypeOK, ArmingInv, [Next]_vars
  PROVE  ArmingInv'
<1> SUFFICES ASSUME ~touched', touched' = touched PROVE ArmingInv'
  BY TouchedStep DEF ArmingInv
<1> USE DEF ArmingInv, IsArming, AllGuarded, hwVars, hwpVars, savedVars, capVars, runVars, histVars
<1>0. CASE UNCHANGED vars
  BY <1>0 DEF vars
<1>1. CASE Restoring
  BY <1>1 DEF Restoring, RestoreGuard, RestoreHWP, FinishRestore, Return
<1>2. CASE Arming
  BY <1>2 DEF Arming, InstallBootstrapLimit, EnableHWP, BootstrapFailSafe,
      InstallRequest, ReleaseHWP, ClearGuard, Install, Fail, BeginRestore
<1>3. CASE Polling
  BY <1>3 DEF Polling, WatchdogFired, PollGuard, PollHWP, Fail, BeginRestore
<1>4. CASE Client
  <2>1. CASE Open \/ Close \/ UnknownCommand \/ ReadStatus
    BY <1>4, <2>1 DEF Open, Close, UnknownCommand, ReadStatus, Refuse, BeginRestore
  <2>2. ASSUME NEW r \in LimitRequests,
               ArmInvalid(r) \/ ArmNotPermitted(r) \/ Arm(r) \/ Update(r)
        PROVE  ArmingInv'
    BY <2>2 DEF ArmInvalid, ArmNotPermitted, Arm, Update, Refuse, Permitted,
        Fail, BeginRestore
  <2>3. ASSUME NEW w \in BOOLEAN, Disarm(w) PROVE ArmingInv'
    BY <2>3 DEF Disarm, BeginRestore
  <2> QED BY <1>4, <2>1, <2>2, <2>3 DEF Client
<1>5. CASE RejectInvalid \/ Start \/ Stop
  BY <1>5 DEF RejectInvalid, Start, Stop, BeginRestore
<1>6. CASE Environment
  BY <1>6 DEF Environment, OutsideGuard, OutsideHotplug, OutsideLimit,
      OutsideRequest, OutsideEnable, OutsideLock, Outside
<1> QED
  BY <1>0, <1>1, <1>2, <1>3, <1>4, <1>5, <1>6 DEF Next

\* A write of the guard is FailSafe's Guard, whether it takes everywhere or not.
LEMMA SetGuardRefines ==
  ASSUME TypeOK, NEW ok, SetGuard(ok),
         UNCHANGED <<online, limit, pm, req, installed, touched>>
  PROVE  Protection!Guard
<1>1. PICK took \in SUBSET online :
        /\ ok = (took = online)
        /\ WriteGuard(took, TRUE)
        /\ guardRefused' = (guardRefused \/ ~ok)
  BY DEF SetGuard
<1>2. Protection!Some(guard, guard', {TRUE})
  BY <1>1 DEF Protection!Some, WriteGuard, TypeOK, PackageType
<1>3. Protection!GuardFirst'
  BY SetGuardResult DEF Protection!GuardFirst, Protection!Guarded, AllGuarded
<1> QED
  BY <1>1, <1>2, <1>3 DEF Protection!Guard

\* A write of the requests that restricts them is Restrict.
LEMMA WriteRequestsRefines ==
  ASSUME TypeOK, NEW took \in SUBSET online, NEW target, WriteRequests(took, target),
         \A c \in took : target[c] \in {"restricted", "failsafe"},
         pm, Protection!GuardFirst,
         UNCHANGED <<online, limit, guard, pm, installed, guardRefused, touched>>
  PROVE  Protection!Restrict
<1>1. Protection!Some(req, req', {"restricted", "failsafe"})
  BY DEF Protection!Some, WriteRequests, TypeOK, PackageType
<1> QED
  BY <1>1 DEF Protection!Restrict

\* So ensureHWPFailSafeLocked restricts, or writes nothing.
LEMMA EnsureFailSafeRefines ==
  ASSUME TypeOK, NEW ok, NEW active, NEW override,
         EnsureFailSafe(ok, active, override), Protection!GuardFirst,
         UNCHANGED <<online, limit, guard, pm, installed, guardRefused, touched>>
  PROVE  Protection!Restrict \/ UNCHANGED req
<1>1. CASE ~(hwpEnabledByTurboMac_ /\ hwpEnabled_ /\ pm)
  BY <1>1 DEF EnsureFailSafe
<1>2. CASE hwpEnabledByTurboMac_ /\ hwpEnabled_ /\ pm
  <2>1. PICK took \in SUBSET online : WriteRequests(took, Everywhere("failsafe"))
    BY <1>2 DEF EnsureFailSafe
  <2>2. \A c \in took : Everywhere("failsafe")[c] \in {"restricted", "failsafe"}
    BY DEF Everywhere, TypeOK, PackageType
  <2> QED BY <1>2, <2>1, <2>2, WriteRequestsRefines
<1> QED BY <1>1, <1>2

\* Limits that were verified, and are under what was captured, are an Install.
LEMMA InstallRefines ==
  ASSUME TypeOK, TypeOK', Untouched, captured_, pm => ~Unrestricted,
         installed' = limit', NoHigher(limit', capturedPackageLimit_),
         UNCHANGED <<online, guard, pm, req, guardRefused, touched>>
  PROVE  Protection!Install
<1>1. Protection!AsFound(limit')
  BY DriverAssumption DEF Untouched, FoundInv, NoHigher, Protection!AsFound, TypeOK,
      LimitType, Limits
<1>2. pm => ~Protection!InEffect("default")
  BY DEF Unrestricted, Protection!InEffect
<1> QED
  BY <1>1, <1>2 DEF Protection!Install

\* Every step of the driver is a step of FailSafe, or changes nothing of it.
LEMMA ProtectionStep ==
  ASSUME TypeOK, TypeOK', DriverInv, ArmingInv, [Next]_vars
  PROVE  [Protection!Next]_(Protection!vars)
<1> USE DEF hwVars, hwpVars, savedVars, capVars, runVars, histVars
<1>0. CASE touched'
  BY <1>0 DEF Protection!Next, Protection!Outside, TypeOK, HandlerType
<1> SUFFICES ASSUME ~touched', touched' = touched, Untouched, ~touched
             PROVE  [Protection!Next]_(Protection!vars)
  BY <1>0, TouchedStep DEF DriverInv
<1> DEFINE Same == UNCHANGED Protection!vars
<1>s. UNCHANGED <<hwVars, guardRefused, installed>> => Same
  BY DEF Protection!vars
<1>g. pc \notin {"idle", "limit", "guard"} => Protection!GuardFirst
  BY DEF Untouched, GuardInv, AllGuarded, Protection!GuardFirst, Protection!Guarded
<1>1. CASE RestoreGuard
  <2> USE <1>1 DEF RestoreGuard
  <2>1. PICK ok \in BOOLEAN : WriteAppleGuard(ok)
    OBVIOUS
  <2>2. CASE SetGuard(ok)
    BY <2>2, SetGuardRefines DEF Protection!Next
  <2>3. CASE UNCHANGED <<guard, guardRefused>>
    BY <2>3, <1>s
  <2> QED BY <2>1, <2>2, <2>3 DEF WriteAppleGuard, EnsurePassiveGuard
<1>2. CASE RestoreHWP
  <2> USE <1>2 DEF RestoreHWP
  <2>1. PICK ok \in BOOLEAN : WriteSafeRequests(ok)
    BY DEF RestoreRequests
  <2>2. CASE UNCHANGED req
    BY <2>2, <1>s
  <2>3. CASE hwpEnabledByTurboMac_
    BY <2>1, <2>2, <2>3, <1>g, EnsureFailSafeRefines DEF WriteSafeRequests, Protection!Next
  <2>4. CASE ~hwpEnabledByTurboMac_ /\ captured_ /\ hwpCaptured_
    <3>1. PICK took \in SUBSET (online \cap capturedHWPPresent_) :
            WriteRequests(took, capturedHWPRequests_)
      BY <2>1, <2>4 DEF WriteSafeRequests, WriteCaptured
    <3>2. \A c \in took : capturedHWPRequests_[c] \in {"restricted", "failsafe"}
      BY <2>4, <3>1 DEF Untouched, HwpInv
    <3>3. pm /\ took \in SUBSET online
      BY <2>4, <3>1 DEF Untouched, HwpInv
    <3> QED BY <3>1, <3>2, <3>3, <1>g, WriteRequestsRefines DEF Protection!Next
  <2> QED BY <2>1, <2>2, <2>3, <2>4 DEF WriteSafeRequests
<1>3. CASE FinishRestore
  <2> USE <1>3 DEF FinishRestore
  <2>1. CASE UNCHANGED limit
    BY <2>1, <1>s
  <2>2. CASE limit' # limit
    <3>1. captured_ /\ hwpRestored /\ limit' = capturedPackageLimit_
      BY <2>2 DEF RestoreLimits
    <3>2. Protection!AsFound(limit')
      BY <3>1 DEF Untouched, FoundInv, NoHigher, Protection!AsFound
    <3>3. ~Protection!InEffect("released") /\ (pm => ~Protection!InEffect("default"))
      BY <3>1 DEF Untouched, StepInv, HwpInv, Unrestricted, Released, Protection!InEffect
    <3> QED BY <3>2, <3>3, <1>g DEF Protection!GiveBack, Protection!Next
  <2> QED BY <2>1, <2>2
<1>4. CASE InstallBootstrapLimit
  <2> USE <1>4 DEF InstallBootstrapLimit
  <2>1. \/ UNCHANGED <<limit, installed>>
        \/ installed' = limit' /\ NoHigher(limit', capturedPackageLimit_)
    BY DEF Install
  <2>2. captured_ /\ ~pm
    BY DEF Untouched, StepInv
  <2> QED BY <2>1, <2>2, <1>s, InstallRefines DEF Protection!Next
<1>5. CASE EnableHWP
  <2> USE <1>5 DEF EnableHWP
  <2>1. CASE UNCHANGED pm
    BY <2>1, <1>s
  <2>2. CASE pm' # pm
    <3>1. VerifyLimits /\ AllGuarded /\ ~pm
      BY <2>2
    <3>2. pm' = TRUE
      BY <3>1, <2>2 DEF TypeOK, PackageType
    <3>3. Protection!Low(limit)
      BY <3>1 DEF VerifyLimits, Untouched, StepInv, Low, Protection!Low
    <3> QED
      BY <3>1, <3>2, <3>3 DEF AllGuarded, Protection!Guarded, Protection!Enable,
          Protection!Next
  <2> QED BY <2>1, <2>2
<1>6. CASE BootstrapFailSafe
  <2> USE <1>6 DEF BootstrapFailSafe
  <2>1. PICK ok \in BOOLEAN : EnsureFailSafe(ok, hwpFailSafeActive_, FALSE)
    OBVIOUS
  <2>2. Protection!Restrict \/ UNCHANGED req
    BY <2>1, <1>g, EnsureFailSafeRefines
  <2> QED BY <2>2, <1>s DEF Protection!Next
<1>7. CASE InstallRequest
  <2> USE <1>7 DEF InstallRequest
  <2>1. \/ UNCHANGED <<limit, installed>>
        \/ installed' = limit' /\ NoHigher(limit', capturedPackageLimit_)
    BY DEF Install
  <2>2. captured_ /\ ~Unrestricted
    BY DEF Untouched, StepInv
  <2> QED BY <2>1, <2>2, <1>s, InstallRefines DEF Protection!Next
<1>8. CASE ReleaseHWP
  <2> USE <1>8 DEF ReleaseHWP
  <2>1. CASE UNCHANGED req
    BY <2>1, <1>s
  <2>2. CASE hwpCaptured_
    <3>1. PICK took \in SUBSET (online \cap capturedHWPPresent_) :
            WriteRequests(took, Everywhere("released"))
      BY <2>2 DEF WriteCaptured
    <3>2. Protection!Some(req, req', {"released"})
      BY <3>1 DEF Protection!Some, WriteRequests, Everywhere, TypeOK, PackageType
    <3>3. pm /\ limit = installed /\ ~Protection!InEffect("default")
      BY <2>2 DEF Untouched, HwpInv, StepInv, Unrestricted, Protection!InEffect
    <3>4. Protection!Guarded
      BY DEF ArmingInv, IsArming, AllGuarded, Protection!Guarded
    <3> QED BY <3>2, <3>3, <3>4 DEF Protection!Release, Protection!Next
  <2> QED BY <2>1, <2>2
<1>9. CASE ClearGuard
  <2> USE <1>9 DEF ClearGuard
  <2>1. PICK took \in SUBSET online : WriteGuard(took, FALSE)
    OBVIOUS
  <2>2. Protection!Some(guard, guard', {FALSE})
    BY <2>1 DEF Protection!Some, WriteGuard, TypeOK, PackageType
  <2>3. limit = installed /\ Protection!OnlyReleased
    BY DEF Untouched, StepInv, AllReleased, Protection!OnlyReleased
  <2>4. Protection!Guarded
    BY DEF ArmingInv, IsArming, AllGuarded, Protection!Guarded
  <2> QED BY <2>2, <2>3, <2>4 DEF Protection!Unguard, Protection!Next
<1>10. CASE PollGuard \/ Start
  <2>1. UNCHANGED <<online, limit, pm, req, installed, touched>>
    BY <1>10 DEF PollGuard, Start
  <2>2. UNCHANGED <<guard, guardRefused>> \/ \E ok : SetGuard(ok)
    BY <1>10 DEF PollGuard, Start, EnsurePassiveGuard
  <2>3. CASE UNCHANGED <<guard, guardRefused>>
    BY <2>1, <2>3 DEF Protection!vars
  <2>4. CASE \E ok : SetGuard(ok)
    BY <2>1, <2>4, SetGuardRefines DEF Protection!Next
  <2> QED BY <2>2, <2>3, <2>4
<1>11. CASE PollHWP
  <2> USE <1>11 DEF PollHWP
  <2>1. PICK ok \in BOOLEAN : PollFailSafe(ok)
    OBVIOUS
  <2>2. CASE UNCHANGED req
    BY <2>2, <1>s
  <2>3. CASE EnsureFailSafe(ok, hwpFailSafeActive_, hwpOverrideActive_)
    BY <2>2, <2>3, <1>g, EnsureFailSafeRefines DEF Protection!Next
  <2> QED BY <2>1, <2>2, <2>3 DEF PollFailSafe
<1>12. CASE Client \/ RejectInvalid \/ Stop \/ WatchdogFired \/ UNCHANGED vars
  <2>1. UNCHANGED <<hwVars, guardRefused, installed>>
    BY <1>12 DEF Client, Open, Close, UnknownCommand, Refuse, ReadStatus, ArmInvalid,
        ArmNotPermitted, Arm, Update, Disarm, RejectInvalid, Stop, WatchdogFired, vars
  <2> QED BY <2>1, <1>s
<1>13. CASE Environment
  BY <1>13 DEF Environment, OutsideGuard, OutsideHotplug, OutsideLimit,
      OutsideRequest, OutsideEnable, OutsideLock, Outside
<1> QED
  BY <1>1, <1>2, <1>3, <1>4, <1>5, <1>6, <1>7, <1>8, <1>9, <1>10, <1>11, <1>12,
      <1>13 DEF Next, Restoring, Arming, Polling

\* The driver implements FailSafe: whatever step of a handler fails, and across
\* unloading and loading, the protections of the package are given up and
\* taken back in that order (arm, update, restoreLocked, watchdogFired).
THEOREM DriverImplementsFailSafe == Spec => ProtectionSpec
<1>1. Init => Protection!Init
  BY DriverAssumption DEF Init, Everywhere, Protection!Init
<1>2. Init => ArmingInv
  BY DEF Init, ArmingInv, IsArming
<1> QED
  BY <1>1, <1>2, ArmingStep, ProtectionStep, DriverTypes, DriverInvariant, PTL
     DEF Spec, ProtectionSpec, Protection!Spec

\* What FailSafe says suffices: whatever follows its order keeps the package
\* safe.  So the order of the handlers (arm, restoreLocked) is the reason why
\* the driver does, and not what it remembers in captured_ and state_.
THEOREM FailSafeKeepsPackageSafe == ProtectionSpec => []Protection!PackageSafe
<1> DEFINE Inv == /\ touched \in BOOLEAN
                  /\ ~touched =>
                       /\ Protection!PackageSafe
                       /\ ~pm => \A c \in online : req[c] = "default"
                       /\ online \subseteq CPUs
<1> USE DEF Protection!PackageSafe, Protection!InEffect, Protection!Guarded,
        Protection!OnlyReleased, Protection!Low, Protection!AsFound
<1>1. Protection!Init => Inv
  <2> SUFFICES ASSUME Protection!Init PROVE Inv
    OBVIOUS
  <2> USE DEF Protection!Init
  <2>1. pm => \A c \in online : req[c] = "restricted"
    OBVIOUS
  <2>2. ~pm => \A c \in online : req[c] = "default"
    OBVIOUS
  <2>3. Protection!Guarded
    OBVIOUS
  <2>4. Protection!AsFound(limit)
    BY DriverAssumption DEF Limits
  <2> QED BY <2>1, <2>2, <2>3, <2>4
<1>2. Inv /\ [Protection!Next]_(Protection!vars) => Inv'
  <2> SUFFICES ASSUME Inv, [Protection!Next]_(Protection!vars) PROVE Inv'
    OBVIOUS
  <2>0. CASE UNCHANGED Protection!vars
    BY <2>0 DEF Protection!vars
  <2>1. CASE Protection!Enable
    BY <2>1 DEF Protection!Enable
  <2>2. CASE Protection!Install
    BY <2>2 DEF Protection!Install
  <2>3. CASE Protection!Release
    BY <2>3 DEF Protection!Release, Protection!Some
  <2>4. CASE Protection!Unguard
    BY <2>4 DEF Protection!Unguard, Protection!Some
  <2>5. CASE Protection!Guard
    BY <2>5 DEF Protection!Guard, Protection!Some, Protection!GuardFirst
  <2>6. CASE Protection!Restrict
    BY <2>6 DEF Protection!Restrict, Protection!Some, Protection!GuardFirst
  <2>7. CASE Protection!GiveBack
    BY <2>7 DEF Protection!GiveBack, Protection!GuardFirst
  <2>8. CASE Protection!Outside
    BY <2>8 DEF Protection!Outside
  <2> QED
    BY <2>0, <2>1, <2>2, <2>3, <2>4, <2>5, <2>6, <2>7, <2>8 DEF Protection!Next
<1>3. Inv => Protection!PackageSafe
  OBVIOUS
<1> QED
  BY <1>1, <1>2, <1>3, PTL DEF ProtectionSpec, Protection!Spec
=============================================================================
