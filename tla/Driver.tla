------------------------------- MODULE Driver -------------------------------
(***************************************************************************)
(* The macOS kernel extension (TurboMac/TurboMac.cpp): the fail-safe       *)
(* boundary between the daemon and the model-specific registers of the     *)
(* package.  Every handler runs under lock_, so handlers do not interleave *)
(* with each other; but the package runs on while a handler writes one     *)
(* register after another, and macOS may change registers in between.  So  *)
(* a handler is a sequence of steps, one per group of registers written,   *)
(* and pc says where in it the driver is.                                  *)
(*                                                                         *)
(* A limit is a pair <<PL1, PL2>> in watts.  req[c] is the HWP request in  *)
(* effect on a CPU: its own, or the package's where it defers to that.     *)
(* Capabilities are sane, and a rendezvous reaches every CPU that is       *)
(* online.  Time is counted in watchdog polls.                             *)
(***************************************************************************)
EXTENDS Integers

CONSTANTS
  CPUs,             \* the logical CPUs there may be
  Apple,            \* the package limits at boot
  Asked,            \* the limits the daemon may ask for
  FloorMW,          \* floorMW_
  MaximumMW,        \* capabilityMaximumMW_
  BootstrapMW,      \* kHWPBootstrapLimitMW
  WatchdogPolls,    \* kWatchdogTimeoutMS, in polls of kWatchdogPollMS
  NativeHWP,        \* HWP was enabled before the driver ever ran
  MaxFaults         \* bound on writes that do not take and outside changes

Limits   == Nat \X Nat
\* A request in effect: the power-on default (highest maximum), one macOS
\* restricted, the driver's conservative one, the driver's released maximum.
Requests == {"default", "restricted", "failsafe", "released"}
Reasons  == {"Requested", "InvalidRequest", "ReadbackMismatch", "ClientClosed",
             "Watchdog", "DriverStop"}
PCs      == {"idle", "stopped",
             "bootlimit", "enable", "failsafe", "limit", "release", "unguard",
             "guard", "hwp", "unlimit", "poll"}

ASSUME DriverAssumption ==
  /\ CPUs # {}
  /\ Apple \in Limits /\ Asked \subseteq Limits
  /\ FloorMW \in Nat \ {0} /\ BootstrapMW \in Nat /\ MaximumMW \in Nat
  /\ WatchdogPolls \in Nat \ {0} /\ MaxFaults \in Nat
  /\ NativeHWP \in BOOLEAN

VARIABLES
  \* The package.
  online,           \* the logical CPUs a rendezvous reaches
  limit, locked,    \* MSR_PKG_POWER_LIMIT and its lock bit
  guard,            \* bidirectional PROCHOT enable, per CPU
  pm,               \* IA32_PM_ENABLE.HWP_ENABLE
  req,              \* the HWP request in effect, per CPU
  \* The driver.
  supported_, state_, captured_, capturedPackageLimit_, expectedPackageLimit_,
  hwpEnabled_, hwpEnabledByTurboMac_,
  hwpCaptured_, capturedHWPPresent_, capturedHWPRequests_,
  hwpOverrideActive_, hwpFailSafeActive_,
  clientReserved_,
  heartbeat,        \* polls since lastHeartbeat_
  timer,            \* watchdog_ has a timeout set
  \* The handler being run.
  pc, request,      \* the limits being installed
  reason,           \* the argument of restoreLocked
  rejecting,        \* a command was refused; rejectInvalid is about to restore
  guardRestored, hwpRestored,
  \* History.
  faults,           \* how many writes did not take, or registers were changed
  touched,          \* something outside the driver changed the package
  guardRefused,     \* a write that sets the guard did not take
  installed         \* the limits installLimitsLocked verified last

hwVars   == <<online, limit, locked, guard, pm, req>>
savedVars == <<hwpCaptured_, capturedHWPPresent_, capturedHWPRequests_>>
hwpVars  == <<hwpEnabled_, hwpEnabledByTurboMac_, savedVars,
              hwpOverrideActive_, hwpFailSafeActive_>>
capVars  == <<captured_, capturedPackageLimit_, expectedPackageLimit_>>
runVars  == <<pc, request, reason, rejecting, guardRestored, hwpRestored>>
histVars == <<faults, touched, guardRefused, installed>>
vars     == <<hwVars, hwpVars, capVars, runVars, histVars, supported_, state_,
              clientReserved_, heartbeat, timer>>

-----------------------------------------------------------------------------
(* Registers *)

Min2(a, b) == IF a <= b THEN a ELSE b
Max2(a, b) == IF a >= b THEN a ELSE b

\* One limit is no higher than another, in PL1 and in PL2.
NoHigher(a, b) == a[1] <= b[1] /\ a[2] <= b[2]

AllGuarded   == \A c \in online : guard[c]
AllUnguarded == \A c \in online : ~guard[c]

\* A write that does not take uses up one of the faults.
Takes(ok) ==
  /\ ok \/ faults < MaxFaults
  /\ faults' = IF ok THEN faults ELSE faults + 1

\* powerControlOnCPU: the CPUs of took got the new guard bit.
WriteGuard(took, value) ==
  guard' = [c \in CPUs |-> IF c \in took THEN value ELSE guard[c]]

\* hwpRequestOnCPU: the CPUs of took got their target.
WriteRequests(took, target) ==
  req' = [c \in CPUs |-> IF c \in took THEN target[c] ELSE req[c]]

Everywhere(r) == [c \in CPUs |-> r]

\* validateRequestLocked: the ceiling is what was captured, or in force, and
\* the capability.
UnderCeiling(limits, ceiling) ==
  /\ limits[1] <= Min2(ceiling[1], MaximumMW)
  /\ limits[2] <= Min2(ceiling[2], MaximumMW)

\* tm_validate_limit_request; version, size, watchdog_timeout_ms and the
\* sequence number are right iff wellFormed.
ValidRequest(r, ceiling) ==
  /\ r.wellFormed
  /\ FloorMW <= r.limits[1] /\ r.limits[1] <= r.limits[2]
  /\ UnderCeiling(r.limits, ceiling)

LimitRequests ==
  [limits : Asked, mode : {"release", "bootstrap"}, wellFormed : BOOLEAN]

\* hwpMaximumRestrictedLocked.
MaximumRestricted ==
  online # {} /\ \A c \in online : req[c] \in {"restricted", "failsafe"}

\* verifyLimitsLocked.
VerifyLimits == limit = expectedPackageLimit_ /\ ~locked

\* verifyHWPOverrideLocked: every request as released, on the CPUs there were.
VerifyOverride ==
  /\ hwpCaptured_ /\ hwpOverrideActive_
  /\ online = capturedHWPPresent_
  /\ \A c \in online : req[c] = "released"

\* verifyArmedStateLocked.
VerifyArmedState == AllUnguarded /\ VerifyLimits /\ VerifyOverride

\* initializeHWPLocked: look again whether HWP is enabled.  It cannot be
\* disabled, so where the code skips this for hwpEnabled_ nothing is lost.
InitializeHWP == hwpEnabled_' = pm

\* captureHWPStateLocked; what it keeps of a CPU that is not there is not used.
CaptureHWP ==
  /\ hwpCaptured_' = TRUE
  /\ capturedHWPPresent_' = online /\ capturedHWPRequests_' = req

\* verifyHWPFailSafeLocked.
VerifyFailSafe ==
  /\ hwpEnabledByTurboMac_ /\ hwpEnabled_ /\ hwpFailSafeActive_ /\ pm
  /\ \A c \in online : req[c] = "failsafe"

-----------------------------------------------------------------------------
(* Restoration *)

\* restoreLocked begins: the timer is cancelled, and the guard comes first.
BeginRestore(why) == pc' = "guard" /\ reason' = why /\ timer' = FALSE

\* The CPUs of took got the guard bit set; ok is the verdict of the readback.
SetGuard(ok) ==
  \E took \in SUBSET online :
    /\ ok = (took = online)
    /\ WriteGuard(took, TRUE)
    /\ Takes(ok)
    /\ guardRefused' = (guardRefused \/ ~ok)

\* ensurePassiveGuardLocked.
EnsurePassiveGuard(ok) ==
  IF AllGuarded THEN ok = TRUE /\ UNCHANGED <<guard, faults, guardRefused>>
                ELSE SetGuard(ok)

\* Mutant of WriteAppleGuard: the guard is left for the passive poll.
GuardLater(ok) == ok = TRUE /\ UNCHANGED <<guard, faults, guardRefused>>

WriteAppleGuard(ok) ==
  \/ captured_ /\ SetGuard(ok)
  \/ ~captured_ /\ supported_ /\ EnsurePassiveGuard(ok)
  \/ ~captured_ /\ ~supported_ /\ ok = FALSE /\ UNCHANGED <<guard, faults, guardRefused>>

RestoreGuard ==
  /\ pc = "guard"
  /\ \E ok \in BOOLEAN : guardRestored' = ok /\ WriteAppleGuard(ok)
  /\ pc' = "hwp"
  /\ UNCHANGED <<online, limit, locked, pm, req, hwpVars, capVars, request,
                 reason, rejecting, hwpRestored, touched, installed,
                 supported_, state_, clientReserved_, heartbeat, timer>>

\* ensureHWPFailSafeLocked; active and override are the flags it finds.
EnsureFailSafe(ok, active, override) ==
  /\ hwpFailSafeActive_' = (ok \/ active)
  /\ hwpOverrideActive_' = (~ok /\ override)
  /\ IF hwpEnabledByTurboMac_ /\ hwpEnabled_ /\ pm
     THEN \E took \in SUBSET online :
            /\ ok = (took = online)
            /\ WriteRequests(took, Everywhere("failsafe"))
            /\ Takes(ok)
     ELSE ok = FALSE /\ UNCHANGED <<req, faults>>

\* writeHWPRequestsLocked: the CPUs that are both online and captured are
\* written, and it succeeds if those are all there are, on either side.
WriteCaptured(ok, target) ==
  \E took \in SUBSET (online \cap capturedHWPPresent_) :
    /\ ok = (took = online /\ took = capturedHWPPresent_)
    /\ WriteRequests(took, target)
    /\ Takes(took = online \cap capturedHWPPresent_)

\* restoreHWPLocked if something was captured; else ensureHWPFailSafeLocked.
WriteSafeRequests(ok) ==
  IF hwpEnabledByTurboMac_
  THEN EnsureFailSafe(ok, ~captured_ /\ hwpFailSafeActive_,
                      ~captured_ /\ hwpOverrideActive_)
  ELSE /\ UNCHANGED hwpFailSafeActive_
       /\ IF captured_ /\ hwpCaptured_
          THEN WriteCaptured(ok, capturedHWPRequests_) /\ hwpOverrideActive_' = FALSE
          ELSE ok = TRUE /\ UNCHANGED <<req, hwpOverrideActive_, faults>>

RestoreRequests(ok) == WriteSafeRequests(ok)

RestoreHWP ==
  /\ pc = "hwp"
  /\ \E ok \in BOOLEAN : hwpRestored' = ok /\ RestoreRequests(ok)
  /\ pc' = "unlimit"
  /\ UNCHANGED <<online, limit, locked, guard, pm, hwpEnabled_,
                 hwpEnabledByTurboMac_, savedVars, capVars, request, reason,
                 rejecting, guardRestored, touched, guardRefused, installed,
                 supported_, state_, clientReserved_, heartbeat, timer>>

\* Mutants of RestoreLimits: the low limit is given up in any case; the
\* package gets its maximum instead of what was captured.
RestoreLimitsAnyway(ok) ==
  IF captured_ /\ ~locked
  THEN /\ limit' \in {limit, capturedPackageLimit_}
       /\ ok = (limit' = capturedPackageLimit_)
       /\ Takes(ok)
  ELSE ok = ~captured_ /\ UNCHANGED <<limit, faults>>

RestoreMaximum(ok) ==
  IF captured_ /\ hwpRestored /\ ~locked
  THEN /\ limit' \in {limit, <<MaximumMW, MaximumMW>>}
       /\ ok = (limit' = <<MaximumMW, MaximumMW>>)
       /\ Takes(ok)
  ELSE ok = ~captured_ /\ UNCHANGED <<limit, faults>>

\* Apple's limits come back, unless the HWP requests could not be verified;
\* ok tells whether they did.
RestoreLimits(ok) ==
  IF captured_ /\ hwpRestored /\ ~locked
  THEN /\ limit' \in {limit, capturedPackageLimit_}
       /\ ok = (limit' = capturedPackageLimit_)
       /\ Takes(ok)
  ELSE ok = ~captured_ /\ UNCHANGED <<limit, faults>>

\* restoreLocked returns, to the end of the handler that called it; the end
\* of the driver releases the timer.
Return ==
  /\ pc' = IF reason = "DriverStop" THEN "stopped" ELSE "idle"
  /\ timer' = (supported_ /\ reason # "DriverStop")

\* Mutant of FinishState: the guard's readback is not looked at.
StateIgnoringGuard(limitsRestored) ==
  IF hwpRestored /\ limitsRestored /\ reason = "Requested" THEN "Passive" ELSE "Failsafe"

FinishState(limitsRestored) ==
  IF guardRestored /\ hwpRestored /\ limitsRestored /\ reason = "Requested"
  THEN "Passive" ELSE "Failsafe"

\* The end of restoreLocked, and of the handler that called it.
FinishRestore ==
  /\ pc = "unlimit"
  /\ \E ok \in BOOLEAN : RestoreLimits(ok) /\ state_' = FinishState(ok)
  /\ IF captured_
     THEN /\ captured_' = FALSE /\ hwpCaptured_' = FALSE
          /\ capturedHWPPresent_' = {}
          /\ expectedPackageLimit_' = <<0, 0>>
          /\ heartbeat' = 0
     ELSE UNCHANGED <<captured_, hwpCaptured_, capturedHWPPresent_,
                      expectedPackageLimit_, heartbeat>>
  /\ Return
  /\ clientReserved_' = (clientReserved_ /\ reason # "ClientClosed")
  /\ UNCHANGED <<online, locked, guard, pm, req, hwpEnabled_,
                 hwpEnabledByTurboMac_, capturedHWPRequests_,
                 hwpOverrideActive_, hwpFailSafeActive_, capturedPackageLimit_,
                 request, reason, rejecting, guardRestored, hwpRestored,
                 touched, guardRefused, installed, supported_>>

-----------------------------------------------------------------------------
(* Arming *)

\* The step of a handler that fails restores everything.
Fail == BeginRestore("ReadbackMismatch")

\* installLimitsLocked: the limits are written and read back, and then next;
\* or the handler fails.
Install(target, next) ==
  \E wrote \in BOOLEAN :
    LET allowed == ~locked /\ NoHigher(target, capturedPackageLimit_)
        ok      == allowed /\ (wrote \/ limit = target)
    IN  /\ wrote => allowed
        /\ Takes(wrote \/ ~allowed)
        /\ limit' = IF wrote THEN target ELSE limit
        /\ expectedPackageLimit_' = IF ok THEN target ELSE expectedPackageLimit_
        /\ installed' = IF ok THEN target ELSE installed
        /\ IF ok THEN next ELSE Fail

\* Mutant of BootstrapLimit: HWP is enabled under the limits asked for.
RequestedLimit(r) == r

\* The limits HWP is enabled under.
BootstrapLimit(r) == LET w == Min2(r[1], Max2(FloorMW, BootstrapMW)) IN <<w, w>>

InstallBootstrapLimit ==
  /\ pc = "bootlimit"
  /\ Install(BootstrapLimit(request), pc' = "enable" /\ UNCHANGED <<reason, timer>>)
  /\ UNCHANGED <<online, locked, guard, pm, req, hwpVars, captured_,
                 capturedPackageLimit_, request, rejecting, guardRestored,
                 hwpRestored, touched, guardRefused, supported_, state_,
                 clientReserved_, heartbeat>>

\* enableHWPPackageLocked: the write of IA32_PM_ENABLE may take and its
\* readback still fail.
EnablePackage ==
  \E wrote, seen \in BOOLEAN :
    /\ pm' = wrote
    /\ hwpEnabled_' = (wrote /\ seen)
    /\ Takes(wrote /\ seen)

\* bootstrapHWPLocked as far as that.
EnableHWP ==
  /\ pc = "enable"
  /\ IF VerifyLimits /\ AllGuarded /\ ~pm /\ ~hwpEnabled_
     THEN /\ hwpEnabledByTurboMac_' = TRUE
          /\ EnablePackage
          /\ IF hwpEnabled_' THEN pc' = "failsafe" /\ UNCHANGED <<reason, timer>>
                             ELSE Fail
     ELSE UNCHANGED <<pm, hwpEnabledByTurboMac_, hwpEnabled_, faults>> /\ Fail
  /\ UNCHANGED <<online, limit, locked, guard, req, savedVars,
                 hwpOverrideActive_, hwpFailSafeActive_, capVars, request,
                 rejecting, guardRestored, hwpRestored, touched, guardRefused,
                 installed, supported_, state_, clientReserved_, heartbeat>>

\* The rest of bootstrapHWPLocked: captureHWPStateLocked, then
\* ensureHWPFailSafeLocked, and the limits once more.
BootstrapFailSafe ==
  /\ pc = "failsafe"
  /\ CaptureHWP
  /\ \E ok \in BOOLEAN :
       /\ EnsureFailSafe(ok, hwpFailSafeActive_, FALSE)
       /\ IF ok /\ VerifyLimits
          THEN /\ pc' = IF BootstrapLimit(request) = request THEN "release" ELSE "limit"
               /\ UNCHANGED <<reason, timer>>
          ELSE Fail
  /\ UNCHANGED <<online, limit, locked, guard, pm, hwpEnabled_,
                 hwpEnabledByTurboMac_, capVars, request, rejecting,
                 guardRestored, hwpRestored, touched, guardRefused, installed,
                 supported_, state_, clientReserved_, heartbeat>>

\* The limits asked for: the last step of update, the one before the release
\* in arm.
InstallRequest ==
  /\ pc = "limit"
  /\ Install(request,
             IF state_ = "Armed" THEN pc' = "idle" /\ timer' = TRUE /\ UNCHANGED reason
                                 ELSE pc' = "release" /\ UNCHANGED <<timer, reason>>)
  /\ heartbeat' = IF state_ = "Armed" /\ pc' = "idle" THEN 0 ELSE heartbeat
  /\ UNCHANGED <<online, locked, guard, pm, req, hwpVars, captured_,
                 capturedPackageLimit_, request, rejecting, guardRestored,
                 hwpRestored, touched, guardRefused, supported_, state_,
                 clientReserved_>>

\* applyHWPMaximumLocked.
ReleaseHWP ==
  /\ pc = "release"
  /\ \E ok \in BOOLEAN :
       /\ IF hwpCaptured_ THEN WriteCaptured(ok, Everywhere("released"))
                          ELSE ok = FALSE /\ UNCHANGED <<req, faults>>
       /\ hwpOverrideActive_' = (ok \/ hwpOverrideActive_)
       /\ hwpFailSafeActive_' = (~ok /\ hwpFailSafeActive_)
       /\ IF ok THEN pc' = "unguard" /\ UNCHANGED <<reason, timer>> ELSE Fail
  /\ UNCHANGED <<online, limit, locked, guard, pm, hwpEnabled_,
                 hwpEnabledByTurboMac_, savedVars, capVars, request, rejecting,
                 guardRestored, hwpRestored, touched, guardRefused, installed,
                 supported_, state_, clientReserved_, heartbeat>>

\* setPowerControlGuardLocked(false); the driver is armed.
ClearGuard ==
  /\ pc = "unguard"
  /\ \E took \in SUBSET online :
       /\ WriteGuard(took, FALSE)
       /\ Takes(took = online)
       /\ IF took = online
          THEN /\ pc' = "idle" /\ state_' = "Armed"
               /\ heartbeat' = 0 /\ timer' = TRUE
               /\ UNCHANGED reason
          ELSE Fail /\ UNCHANGED <<state_, heartbeat>>
  /\ UNCHANGED <<online, limit, locked, pm, req, hwpVars, capVars, request,
                 rejecting, guardRestored, hwpRestored, touched, guardRefused,
                 installed, supported_, clientReserved_>>

-----------------------------------------------------------------------------
(* The client's commands *)

Ready == pc = "idle" /\ clientReserved_ /\ ~rejecting

\* newUserClient: one client at a time.
Open ==
  /\ pc = "idle" /\ ~clientReserved_
  /\ clientReserved_' = TRUE
  /\ UNCHANGED <<hwVars, hwpVars, capVars, runVars, histVars, supported_,
                 state_, heartbeat, timer>>

\* clientDisconnected: the client closed, or died.
Close ==
  /\ pc = "idle" /\ clientReserved_
  /\ BeginRestore("ClientClosed")
  /\ UNCHANGED <<hwVars, hwpVars, capVars, request, rejecting, guardRestored,
                 hwpRestored, histVars, supported_, state_, clientReserved_,
                 heartbeat>>

\* A command that is none, or whose argument is not the right one: refused
\* with kIOReturnBadArgument before or after the driver saw it.
Refuse ==
  /\ rejecting' = TRUE
  /\ UNCHANGED <<hwVars, hwpVars, capVars, pc, reason, request, guardRestored,
                 hwpRestored, histVars, supported_, state_, clientReserved_,
                 heartbeat, timer>>

UnknownCommand == Ready /\ Refuse

\* rejectInvalid, after a command returned kIOReturnBadArgument.
RejectInvalid ==
  /\ pc = "idle" /\ rejecting
  /\ BeginRestore("InvalidRequest")
  /\ rejecting' = FALSE
  /\ UNCHANGED <<hwVars, hwpVars, capVars, request, guardRestored, hwpRestored,
                 histVars, supported_, state_, clientReserved_, heartbeat>>

\* arm refuses a request that is not well-formed, or above the limits in
\* force.
ArmInvalid(r) ==
  /\ Ready /\ supported_ /\ ~captured_ /\ state_ # "Armed"
  /\ ~ValidRequest(r, limit)
  /\ Refuse

\* The rest of what arm asks for; hwpEnabled_ has just been read again.
Permitted(r) ==
  /\ ~locked /\ AllGuarded
  /\ r.mode = IF pm THEN "release" ELSE "bootstrap"
  /\ pm => MaximumRestricted

ArmNotPermitted(r) ==
  /\ Ready /\ supported_ /\ ~captured_ /\ state_ # "Armed"
  /\ ValidRequest(r, limit) /\ ~Permitted(r)
  /\ InitializeHWP
  /\ UNCHANGED <<hwVars, hwpEnabledByTurboMac_, savedVars, hwpOverrideActive_,
                 hwpFailSafeActive_, capVars, runVars, histVars, supported_,
                 state_, clientReserved_, heartbeat, timer>>

\* arm captures what it will restore.
Arm(r) ==
  /\ Ready /\ supported_ /\ ~captured_ /\ state_ # "Armed"
  /\ ValidRequest(r, limit) /\ Permitted(r)
  /\ InitializeHWP
  /\ captured_' = TRUE /\ capturedPackageLimit_' = limit
  /\ request' = r.limits
  /\ IF pm
     THEN /\ CaptureHWP
          /\ hwpOverrideActive_' = FALSE
          /\ pc' = "limit"
     ELSE /\ pc' = "bootlimit"
          /\ UNCHANGED <<savedVars, hwpOverrideActive_>>
  /\ UNCHANGED <<hwVars, hwpEnabledByTurboMac_, hwpFailSafeActive_,
                 expectedPackageLimit_, reason, rejecting, guardRestored,
                 hwpRestored, histVars, supported_, state_, clientReserved_,
                 heartbeat, timer>>

\* update: what is in force is verified before anything is written.
Update(r) ==
  /\ Ready /\ captured_ /\ state_ = "Armed"
  /\ LET valid == ValidRequest(r, capturedPackageLimit_) /\ r.mode = "release"
     IN  /\ rejecting' = ~valid
         /\ \/ ~valid /\ BeginRestore("InvalidRequest") /\ UNCHANGED request
            \/ valid /\ ~VerifyArmedState /\ Fail /\ UNCHANGED request
            \/ /\ valid /\ VerifyArmedState
               /\ pc' = "limit" /\ request' = r.limits
               /\ UNCHANGED <<reason, timer>>
  /\ UNCHANGED <<hwVars, hwpVars, capVars, guardRestored, hwpRestored,
                 histVars, supported_, state_, clientReserved_, heartbeat>>

\* disarm, of a request that is well-formed or not.
Disarm(wellFormed) ==
  /\ Ready
  /\ BeginRestore(IF wellFormed THEN "Requested" ELSE "InvalidRequest")
  /\ rejecting' = ~wellFormed
  /\ UNCHANGED <<hwVars, hwpVars, capVars, request, guardRestored, hwpRestored,
                 histVars, supported_, state_, clientReserved_, heartbeat>>

\* copyCapabilities and copyHWPStatus look again whether HWP is enabled.
ReadStatus ==
  /\ Ready /\ state_ # "Armed" /\ ~hwpEnabled_
  /\ InitializeHWP
  /\ UNCHANGED <<hwVars, hwpEnabledByTurboMac_, savedVars, hwpOverrideActive_,
                 hwpFailSafeActive_, capVars, runVars, histVars, supported_,
                 state_, clientReserved_, heartbeat, timer>>

-----------------------------------------------------------------------------
(* The timer *)

\* watchdogExpiredLocked, at the poll that is due now.
WatchdogExpired == heartbeat + 1 >= WatchdogPolls

\* Mutant of NextPoll: the timer, which fires once, is not set again.
LastPoll == timer' = FALSE

NextPoll == timer' = TRUE

\* watchdogFired while armed.
WatchdogFired ==
  /\ pc = "idle" /\ timer /\ captured_ /\ state_ = "Armed"
  /\ \/ WatchdogExpired /\ BeginRestore("Watchdog") /\ UNCHANGED heartbeat
     \/ ~WatchdogExpired /\ ~VerifyArmedState /\ Fail /\ UNCHANGED heartbeat
     \/ /\ ~WatchdogExpired /\ VerifyArmedState
        /\ heartbeat' = heartbeat + 1 /\ NextPoll /\ UNCHANGED <<pc, reason>>
  /\ UNCHANGED <<hwVars, hwpVars, capVars, request, rejecting, guardRestored,
                 hwpRestored, histVars, supported_, state_, clientReserved_>>

\* watchdogFired while not armed: first the guard,
PollGuard ==
  /\ pc = "idle" /\ timer /\ supported_ /\ ~(captured_ /\ state_ = "Armed")
  /\ InitializeHWP
  /\ EnsurePassiveGuard(guardRestored')
  /\ pc' = "poll" /\ timer' = FALSE
  /\ UNCHANGED <<online, limit, locked, pm, req, hwpEnabledByTurboMac_,
                 savedVars, hwpOverrideActive_, hwpFailSafeActive_, capVars,
                 request, reason, rejecting, hwpRestored, touched, installed,
                 supported_, state_, clientReserved_, heartbeat>>

\* Mutant of PollFailSafe: hwpFailSafeActive_ is trusted.
PollFlag(ok) ==
  IF ~hwpEnabledByTurboMac_ \/ hwpFailSafeActive_
  THEN ok = TRUE /\ UNCHANGED <<req, hwpFailSafeActive_, hwpOverrideActive_, faults>>
  ELSE EnsureFailSafe(ok, hwpFailSafeActive_, hwpOverrideActive_)

PollFailSafe(ok) ==
  IF ~hwpEnabledByTurboMac_ \/ VerifyFailSafe
  THEN ok = TRUE /\ UNCHANGED <<req, hwpFailSafeActive_, hwpOverrideActive_, faults>>
  ELSE EnsureFailSafe(ok, hwpFailSafeActive_, hwpOverrideActive_)

\* Mutant of PollAgain: a poll that failed is the last.
PollIfSafe(ok) == timer' = ok

PollAgain(ok) == timer' = TRUE

\* then the HWP requests.
PollHWP ==
  /\ pc = "poll"
  /\ \E ok \in BOOLEAN :
       /\ PollFailSafe(ok)
       /\ state_' = IF guardRestored /\ ok THEN state_ ELSE "Failsafe"
       /\ PollAgain(guardRestored /\ ok)
  /\ pc' = "idle"
  /\ UNCHANGED <<online, limit, locked, guard, pm, hwpEnabled_,
                 hwpEnabledByTurboMac_, savedVars, capVars, request, reason,
                 rejecting, guardRestored, hwpRestored, touched, guardRefused,
                 installed, supported_, clientReserved_, heartbeat>>

-----------------------------------------------------------------------------
(* Loading and unloading *)

\* init and start: a new driver object, which knows nothing of an earlier one.
Start ==
  /\ pc = "stopped"
  /\ pc' = "idle"
  /\ EnsurePassiveGuard(supported_')
  /\ timer' = supported_'
  /\ state_' = "Passive"
  /\ captured_' = FALSE /\ capturedPackageLimit_' = <<0, 0>>
  /\ expectedPackageLimit_' = <<0, 0>>
  /\ hwpEnabled_' = pm /\ hwpEnabledByTurboMac_' = FALSE
  /\ hwpCaptured_' = FALSE /\ capturedHWPPresent_' = {}
  /\ capturedHWPRequests_' = Everywhere("default")
  /\ hwpOverrideActive_' = FALSE /\ hwpFailSafeActive_' = FALSE
  /\ clientReserved_' = FALSE /\ heartbeat' = 0
  /\ UNCHANGED <<online, limit, locked, pm, req, request, reason, rejecting,
                 guardRestored, hwpRestored, touched, installed>>

\* stop; IOKit has stopped the client before.
Stop ==
  /\ pc = "idle" /\ ~clientReserved_ /\ ~rejecting
  /\ IF captured_ \/ hwpEnabledByTurboMac_
     THEN BeginRestore("DriverStop")
     ELSE pc' = "stopped" /\ timer' = FALSE /\ UNCHANGED reason
  /\ UNCHANGED <<hwVars, hwpVars, capVars, request, rejecting, guardRestored,
                 hwpRestored, histVars, supported_, state_, clientReserved_,
                 heartbeat>>

-----------------------------------------------------------------------------
(* What else changes the package: macOS, firmware, other drivers *)

Outside ==
  /\ faults < MaxFaults /\ faults' = faults + 1
  /\ touched' = TRUE
  /\ UNCHANGED <<hwpVars, capVars, runVars, guardRefused, installed,
                 supported_, state_, clientReserved_, heartbeat, timer>>

OutsideGuard(c) ==
  /\ guard' = [guard EXCEPT ![c] = ~@]
  /\ Outside /\ UNCHANGED <<online, limit, locked, pm, req>>

OutsideLimit(l) ==
  /\ ~locked /\ limit' = l
  /\ Outside /\ UNCHANGED <<online, locked, guard, pm, req>>

OutsideLock ==
  /\ ~locked /\ locked' = TRUE
  /\ Outside /\ UNCHANGED <<online, limit, guard, pm, req>>

OutsideRequest(c, r) ==
  /\ pm /\ req' = [req EXCEPT ![c] = r]
  /\ Outside /\ UNCHANGED <<online, limit, locked, guard, pm>>

\* macOS enables HWP itself, with its own request everywhere.
OutsideEnable(r) ==
  /\ ~pm /\ pm' = TRUE /\ req' = Everywhere(r)
  /\ Outside /\ UNCHANGED <<online, limit, locked, guard>>

\* A CPU goes offline, or comes back with the registers of its power-on.
OutsideHotplug(c) ==
  /\ \/ /\ c \in online /\ online # {c}
        /\ online' = online \ {c}
        /\ UNCHANGED <<guard, req>>
     \/ /\ c \notin online
        /\ online' = online \cup {c}
        /\ guard' = [guard EXCEPT ![c] = TRUE]
        /\ req' = [req EXCEPT ![c] = "default"]
  /\ Outside /\ UNCHANGED <<limit, locked, pm>>

-----------------------------------------------------------------------------
Init ==
  /\ online = CPUs /\ limit = Apple /\ locked = FALSE
  /\ guard = [c \in CPUs |-> TRUE]
  /\ pm = NativeHWP
  /\ req = Everywhere(IF NativeHWP THEN "restricted" ELSE "default")
  /\ supported_ = FALSE /\ state_ = "Passive" /\ captured_ = FALSE
  /\ capturedPackageLimit_ = <<0, 0>> /\ expectedPackageLimit_ = <<0, 0>>
  /\ hwpEnabled_ = FALSE /\ hwpEnabledByTurboMac_ = FALSE
  /\ hwpCaptured_ = FALSE /\ capturedHWPPresent_ = {}
  /\ capturedHWPRequests_ = Everywhere("default")
  /\ hwpOverrideActive_ = FALSE /\ hwpFailSafeActive_ = FALSE
  /\ clientReserved_ = FALSE /\ heartbeat = 0 /\ timer = FALSE
  /\ pc = "stopped" /\ request = <<0, 0>> /\ reason = "Requested"
  /\ rejecting = FALSE /\ guardRestored = FALSE /\ hwpRestored = FALSE
  /\ faults = 0 /\ touched = FALSE /\ guardRefused = FALSE
  /\ installed = <<0, 0>>

Restoring == RestoreGuard \/ RestoreHWP \/ FinishRestore

Arming == \/ InstallBootstrapLimit \/ EnableHWP \/ BootstrapFailSafe
          \/ InstallRequest \/ ReleaseHWP \/ ClearGuard

Polling == WatchdogFired \/ PollGuard \/ PollHWP

Client ==
  \/ Open \/ Close \/ UnknownCommand \/ ReadStatus
  \/ \E r \in LimitRequests : ArmInvalid(r) \/ ArmNotPermitted(r) \/ Arm(r) \/ Update(r)
  \/ \E wellFormed \in BOOLEAN : Disarm(wellFormed)

Environment ==
  \/ \E c \in CPUs : OutsideGuard(c) \/ OutsideHotplug(c)
  \/ \E l \in Asked \cup {Apple} : OutsideLimit(l)
  \/ \E c \in CPUs, r \in {"default", "restricted"} : OutsideRequest(c, r)
  \/ \E r \in {"default", "restricted"} : OutsideEnable(r)
  \/ OutsideLock

Next == Restoring \/ Arming \/ Polling \/ RejectInvalid \/ Client \/ Start \/ Stop
        \/ Environment

\* A handler that has begun goes on, the timer fires, and a call that was
\* refused reaches rejectInvalid.  Nobody is bound to call the driver.
Fairness ==
  /\ WF_vars(Restoring) /\ WF_vars(Arming) /\ WF_vars(RejectInvalid)
  /\ WF_vars(Polling)

Spec     == Init /\ [][Next]_vars
FairSpec == Spec /\ Fairness

-----------------------------------------------------------------------------
(* Properties *)

Armed == captured_ /\ state_ = "Armed"

PackageType ==
  /\ online \in SUBSET CPUs /\ locked \in BOOLEAN /\ pm \in BOOLEAN
  /\ guard \in [CPUs -> BOOLEAN] /\ req \in [CPUs -> Requests]

LimitType ==
  /\ limit \in Limits /\ request \in Limits /\ installed \in Limits
  /\ capturedPackageLimit_ \in Limits /\ expectedPackageLimit_ \in Limits

HwpType ==
  /\ hwpEnabled_ \in BOOLEAN /\ hwpEnabledByTurboMac_ \in BOOLEAN
  /\ hwpCaptured_ \in BOOLEAN /\ capturedHWPPresent_ \in SUBSET CPUs
  /\ capturedHWPRequests_ \in [CPUs -> Requests]
  /\ hwpOverrideActive_ \in BOOLEAN /\ hwpFailSafeActive_ \in BOOLEAN

DriverType ==
  /\ supported_ \in BOOLEAN /\ state_ \in {"Passive", "Armed", "Failsafe"}
  /\ captured_ \in BOOLEAN /\ clientReserved_ \in BOOLEAN /\ timer \in BOOLEAN

HandlerType ==
  /\ pc \in PCs /\ reason \in Reasons /\ rejecting \in BOOLEAN
  /\ guardRestored \in BOOLEAN /\ hwpRestored \in BOOLEAN
  /\ touched \in BOOLEAN /\ guardRefused \in BOOLEAN

CounterType == heartbeat \in 0..WatchdogPolls - 1 /\ faults \in 0..MaxFaults

\* The type invariant; the watchdog never waits for as long as its timeout.
TypeOK ==
  /\ PackageType /\ LimitType /\ HwpType /\ DriverType /\ HandlerType
  /\ CounterType

\* The power-on HWP request, which lets a CPU go as fast as it can, is in
\* effect only under the bootstrap limit and Apple's guard (arm,
\* bootstrapHWPLocked, restoreLocked), whichever of the steps after that
\* fails, and across unloading and loading the driver.
BootstrapProtected ==
  ~touched /\ pm /\ (\E c \in online : req[c] = "default") =>
    /\ AllGuarded
    /\ limit[1] <= Max2(FloorMW, BootstrapMW) /\ limit[2] <= Max2(FloorMW, BootstrapMW)

\* A CPU whose HWP maximum is released runs under the limits the client
\* asked for and the driver verified, also when taking the release back
\* failed and the driver has forgotten what it captured (restoreLocked).
ReleasedUnderLimits ==
  ~touched /\ (\E c \in online : req[c] = "released") => limit = installed

\* Apple's guard is off on a CPU only while what the driver installed is all
\* in force: it is cleared last (arm) and set first (restoreLocked).
GuardOffOnlyReleased ==
  ~touched /\ ~guardRefused /\ ~AllGuarded =>
    /\ captured_ /\ limit = expectedPackageLimit_
    /\ \A c \in online : req[c] = "released"

\* A driver that says it is passive has the guard set everywhere, and the
\* fail-safe request too if it enabled HWP (restoreLocked, watchdogFired).
PassiveMeansSafe ==
  ~touched /\ supported_ /\ state_ = "Passive" /\ pc = "idle" =>
    /\ AllGuarded
    /\ hwpEnabledByTurboMac_ => \A c \in online : req[c] = "failsafe"

\* The driver never sets a limit above the one it found (installLimitsLocked,
\* restoreLocked).
NeverAboveFound == ~touched => NoHigher(limit, Apple)

\* A heartbeat that is missed is followed by another or by a restoration
\* (watchdogFired).
HeartbeatOrRestore == heartbeat > 0 ~> heartbeat = 0

\* An armed driver whose registers were changed stops being armed, if they
\* are not changed back (watchdogFired, update).
TamperingAnswered == Armed /\ ~VerifyArmedState ~> ~Armed \/ VerifyArmedState

\* Apple's guard comes back on every CPU once the driver is not armed
\* (restoreLocked, watchdogFired).
GuardComesBack == supported_ /\ ~AllGuarded ~> AllGuarded \/ Armed \/ pc = "stopped"

\* As does the fail-safe request, if the driver enabled HWP and the client is
\* not calling it all the time.
FailSafeComesBack ==
  <>[][~Client]_vars =>
    (hwpEnabledByTurboMac_ /\ pm ~>
       (\A c \in online : req[c] = "failsafe") \/ Armed \/ pc = "stopped")

\* The driver gives up the protections of the package, and takes them back,
\* as FailSafe says: whatever step of arm, update, restoreLocked or
\* watchdogFired fails.
Protection == INSTANCE FailSafe
                WITH LowMW <- Max2(FloorMW, BootstrapMW), refused <- guardRefused
ProtectionSpec == Protection!Spec

\* README.md on disarm: it means that the captured Apple limits are restored.
AppleLimitRestored ==
  ~touched /\ supported_ /\ state_ = "Passive" /\ pc = "idle" => limit = Apple
=============================================================================
