--------------------------- MODULE SettingsProofs ----------------------------
(***************************************************************************)
(* Gpu and Settings are safe, for every instance: the GPU's mode changes   *)
(* (gpu.py), and the threads of main.py that change the configuration and  *)
(* ask for those changes.  Each part has an inductive invariant made of    *)
(* named conjuncts, one lemma for each with a step for every action, and a *)
(* theorem that puts them together.                                        *)
(***************************************************************************)
EXTENDS Gpu, Settings, TLAPS

(* Gpu *)

OnPanel == fbcon /\ active = "DIS" /\ power = "Pwr"

\* Where the console and the panel are at each step of a change, as long as
\* everything that was undone has been put back.
ConsoleInv ==
  /\ gpuPc \in {"check", "unbind"} => done = {}
  /\ gpuPc \in {"OFF", "verify", "wait"} => "switcheroo" \in done
  /\ restored =>
       /\ gpuPc \in {"idle", "check", "power"} => power = "Off" \/ OnPanel
       /\ gpuPc \in {"unbind", "cap"} => OnPanel
       /\ gpuPc = "IGD" => active = "DIS" /\ power = "Pwr"
       /\ gpuPc = "revert" /\ "switcheroo" \notin done =>
            "fbcon" \notin done /\ (power = "Off" \/ OnPanel)
       /\ gpuPc = "idle" /\ appliedMode \in {"auto", "low"} => OnPanel

\* Who may still be reading when the mode is off.
ReaderInv ==
  /\ reader # "late"
  /\ appliedMode = "off" => reader = "idle" \/ res.already

\* What the last result was given for.
ResultInv ==
  /\ gpuPc \in {"revert", "power", "cap"} => want # "off"
  /\ OffMeansOff /\ OkMeansInForce

GpuInv == GpuTypeOK /\ ConsoleInv /\ ReaderInv /\ ResultInv

\* A daemon that starts, with the dGPU on or already off, is well typed.
LEMMA GpuTypeInit == GpuInit => GpuTypeOK
  BY DEF GpuInit, GpuTypeOK, FirstMode, NoResult, Modes

\* The types of what a mode change keeps: where it is, what it wants and has done.
CtlTypeOK ==
  /\ gpuPc \in {"idle", "check", "unbind", "IGD", "OFF", "verify", "wait",
             "revert", "power", "cap"}
  /\ want \in Modes /\ appliedMode \in Modes \cup {"none"}
  /\ done \in SUBSET {"fbcon", "switcheroo", "failed"}
  /\ res \in [ok : BOOLEAN, mode : Modes, already : BOOLEAN]

\* Every step of apply_mode, of a telemetry read or of a crash leaves the state
\* of the mode change well typed.
LEMMA CtlTypeStep ==
  GpuTypeOK /\ [GpuNext]_gpuVars => CtlTypeOK'
<1> SUFFICES ASSUME GpuTypeOK, [GpuNext]_gpuVars PROVE CtlTypeOK'
  OBVIOUS
<1> USE DEF GpuTypeOK, CtlTypeOK, Modes, busy, devVars, gpuCtlVars
<1>1. CASE \E m \in Modes : Begin(m)
  BY <1>1 DEF Begin
<1>2. CASE CheckSwitcheroo
  <2>f. UNCHANGED <<reader, present, fbcon, active, power, d0, limit, restored>> /\ gpuPc = "check"
    BY <1>2 DEF CheckSwitcheroo
  <2>1. CASE Fail
    BY <2>f, <2>1 DEF Fail
  <2>2. CASE power = "Off" /\ Finish(TRUE, "off", TRUE)
    BY <2>f, <2>2 DEF Finish
  <2>3. CASE power = "Pwr" /\ Goto("unbind")
    BY <2>f, <2>3 DEF Goto
  <2> QED
    BY <1>2, <2>1, <2>2, <2>3 DEF CheckSwitcheroo
<1>3. CASE VerifyImmediate
  BY <1>3 DEF VerifyImmediate, Verified, Fail, Goto
<1>4. CASE VerifyAfterWait
  <2>f. UNCHANGED <<reader, present, fbcon, active, power, d0, limit, restored>>
    BY <1>4 DEF VerifyAfterWait
  <2>1. CASE Fail
    BY <2>f, <2>1 DEF Fail
  <2>2. CASE Finish(TRUE, "off", FALSE)
    BY <2>f, <2>2 DEF Finish
  <2> QED
    BY <1>4, <2>1, <2>2 DEF VerifyAfterWait
<1>5. CASE \E ok \in BOOLEAN : UnbindFbcon(ok)
  BY <1>5 DEF UnbindFbcon, Fail
<1>6. CASE \E ok \in BOOLEAN : SwitchToIgd(ok)
  BY <1>6 DEF SwitchToIgd
<1>7. CASE \E ok \in BOOLEAN : PowerOff(ok)
  BY <1>7 DEF PowerOff, Fail, Goto
<1>8. CASE \E ok \in BOOLEAN : SetCapDpm(ok)
  BY <1>8 DEF SetCapDpm
<1>9. CASE \E ok \in PowerOnWrites : Revert(ok)
  BY <1>9 DEF Revert, PowerOn, PowerOnWrites, Goto
<1>10. CASE \E ok \in PowerOnWrites : ApplyOnPower(ok)
  BY <1>10 DEF ApplyOnPower, PowerOn, PowerOnWrites, Goto
<1>11. CASE ReadBegin
  BY <1>11 DEF ReadBegin, ReadTests
<1>12. CASE ReadAmdgpu
  BY <1>12 DEF ReadAmdgpu
<1>13. CASE Probe
  BY <1>13 DEF Probe
<1>14. CASE GpuCrash
  BY <1>14 DEF GpuCrash, FirstMode, NoResult
<1>15. CASE UNCHANGED gpuVars
  BY <1>15 DEF gpuVars
<1> QED
  BY <1>1, <1>2, <1>3, <1>4, <1>5, <1>6, <1>7, <1>8, <1>9, <1>10, <1>11, <1>12, <1>13,
     <1>14, <1>15 DEF GpuNext, Change

\* The types of what the hardware is in.
DevTypeOK ==
  /\ reader \in {"idle", "reading", "late"}
  /\ active \in {"DIS", "IGD"} /\ power \in {"Pwr", "Off"}
  /\ limit \in Modes \cup {"firmware", "partial"}
  /\ fbcon \in BOOLEAN /\ d0 \in BOOLEAN /\ restored \in BOOLEAN
  /\ found \in BOOLEAN /\ present \in BOOLEAN

\* The same for the hardware and the telemetry reader.
LEMMA DevTypeStep ==
  GpuTypeOK /\ [GpuNext]_gpuVars => DevTypeOK'
<1> SUFFICES ASSUME GpuTypeOK, [GpuNext]_gpuVars PROVE DevTypeOK'
  OBVIOUS
<1> USE DEF GpuTypeOK, DevTypeOK, Modes, busy, devVars, gpuCtlVars
<1>1. CASE \E m \in Modes : Begin(m)
  BY <1>1 DEF Begin
<1>2. CASE CheckSwitcheroo
  BY <1>2 DEF CheckSwitcheroo, Fail, Finish, Goto
<1>3. CASE VerifyImmediate
  BY <1>3 DEF VerifyImmediate, Verified, Fail, Goto
<1>4. CASE VerifyAfterWait
  BY <1>4 DEF VerifyAfterWait, Verified, Fail, Finish
<1>5. CASE \E ok \in BOOLEAN : UnbindFbcon(ok)
  <2> PICK ok \in BOOLEAN : UnbindFbcon(ok)
    BY <1>5
  <2>1. CASE ok
    BY <2>1 DEF UnbindFbcon, Fail
  <2>2. CASE ~ok
    BY <2>2 DEF UnbindFbcon, Fail
  <2> QED
    BY <2>1, <2>2
<1>6. CASE \E ok \in BOOLEAN : SwitchToIgd(ok)
  BY <1>6 DEF SwitchToIgd
<1>7. CASE \E ok \in BOOLEAN : PowerOff(ok)
  <2> PICK ok \in BOOLEAN : PowerOff(ok)
    BY <1>7
  <2>1. CASE ok
    BY <2>1 DEF PowerOff, Fail, Goto
  <2>2. CASE ~ok
    BY <2>2 DEF PowerOff, Fail, Goto
  <2> QED
    BY <2>1, <2>2
<1>8. CASE \E ok \in BOOLEAN : SetCapDpm(ok)
  BY <1>8 DEF SetCapDpm
<1>9. CASE \E ok \in PowerOnWrites : Revert(ok)
  <2> PICK ok \in PowerOnWrites : Revert(ok)
    BY <1>9
  <2>1. CASE PowerOn(ok)
    BY <2>1 DEF Revert, PowerOn, PowerOnWrites, Goto
  <2>2. CASE UNCHANGED <<fbcon, active, power, d0, restored>>
    BY <2>2 DEF Revert, Goto
  <2>3. CASE /\ fbcon' = (fbcon \/ "bind" \in ok)
             /\ restored' = (restored /\ "bind" \in ok)
             /\ UNCHANGED <<active, power, d0>>
    BY <2>3 DEF Revert, PowerOnWrites, Goto
  <2> QED
    BY <2>1, <2>2, <2>3 DEF Revert
<1>10. CASE \E ok \in PowerOnWrites : ApplyOnPower(ok)
  <2> PICK ok \in PowerOnWrites : ApplyOnPower(ok)
    BY <1>10
  <2>1. CASE PowerOn(ok)
    BY <2>1 DEF ApplyOnPower, PowerOn, PowerOnWrites, Goto
  <2>2. CASE UNCHANGED <<fbcon, active, power, d0, restored>>
    BY <2>2 DEF ApplyOnPower, Goto
  <2> QED
    BY <2>1, <2>2 DEF ApplyOnPower
<1>11. CASE ReadBegin
  BY <1>11 DEF ReadBegin, ReadTests
<1>12. CASE ReadAmdgpu
  BY <1>12 DEF ReadAmdgpu
<1>13. CASE Probe
  BY <1>13 DEF Probe
<1>14. CASE GpuCrash
  BY <1>14 DEF GpuCrash, FirstMode, NoResult
<1>15. CASE UNCHANGED gpuVars
  BY <1>15 DEF gpuVars
<1> QED
  BY <1>1, <1>2, <1>3, <1>4, <1>5, <1>6, <1>7, <1>8, <1>9, <1>10, <1>11, <1>12, <1>13,
     <1>14, <1>15 DEF GpuNext, Change

\* Together: the type invariant of gpu.py is inductive.
LEMMA GpuTypeStep == GpuTypeOK /\ [GpuNext]_gpuVars => GpuTypeOK'
  BY CtlTypeStep, DevTypeStep DEF GpuTypeOK, CtlTypeOK, DevTypeOK

\* apply_mode and its revert of a failed off keep track of the console: whoever
\* reaches mode auto or low has undone what done says was started.
LEMMA ConsoleStep ==
  GpuTypeOK /\ ConsoleInv /\ [GpuNext]_gpuVars => ConsoleInv'
<1> SUFFICES ASSUME GpuTypeOK, ConsoleInv, [GpuNext]_gpuVars PROVE ConsoleInv'
  OBVIOUS
<1> USE DEF GpuTypeOK, ConsoleInv, OnPanel, Modes, busy, devVars, gpuCtlVars
<1>1. CASE \E m \in Modes : Begin(m)
  BY <1>1 DEF Begin
<1>2. CASE CheckSwitcheroo
  <2>f. UNCHANGED <<reader, present, fbcon, active, power, d0, limit, restored>> /\ gpuPc = "check"
    BY <1>2 DEF CheckSwitcheroo
  <2>1. CASE Fail
    BY <2>f, <2>1 DEF Fail
  <2>2. CASE power = "Off" /\ Finish(TRUE, "off", TRUE)
    BY <2>f, <2>2 DEF Finish
  <2>3. CASE power = "Pwr" /\ Goto("unbind")
    BY <2>f, <2>3 DEF Goto
  <2> QED
    BY <1>2, <2>1, <2>2, <2>3 DEF CheckSwitcheroo
<1>3. CASE VerifyImmediate
  BY <1>3 DEF VerifyImmediate, Verified, Fail, Goto
<1>4. CASE VerifyAfterWait
  BY <1>4 DEF VerifyAfterWait, Verified, Fail, Finish
<1>5. CASE \E ok \in BOOLEAN : UnbindFbcon(ok)
  <2> PICK ok \in BOOLEAN : UnbindFbcon(ok)
    BY <1>5
  <2>1. CASE ok
    BY <2>1 DEF UnbindFbcon, Fail
  <2>2. CASE ~ok
    BY <2>2 DEF UnbindFbcon, Fail
  <2> QED
    BY <2>1, <2>2
<1>6. CASE \E ok \in BOOLEAN : SwitchToIgd(ok)
  BY <1>6 DEF SwitchToIgd
<1>7. CASE \E ok \in BOOLEAN : PowerOff(ok)
  BY <1>7 DEF PowerOff, Fail, Goto
<1>8. CASE \E ok \in BOOLEAN : SetCapDpm(ok)
  BY <1>8 DEF SetCapDpm
<1>9. CASE \E ok \in PowerOnWrites : Revert(ok)
  BY <1>9 DEF Revert, PowerOn, PowerOnWrites, Goto
<1>10. CASE \E ok \in PowerOnWrites : ApplyOnPower(ok)
  BY <1>10 DEF ApplyOnPower, PowerOn, PowerOnWrites, Goto
<1>11. CASE ReadBegin
  BY <1>11 DEF ReadBegin, ReadTests
<1>12. CASE ReadAmdgpu
  BY <1>12 DEF ReadAmdgpu
<1>13. CASE Probe
  BY <1>13 DEF Probe
<1>14. CASE GpuCrash
  BY <1>14 DEF GpuCrash, FirstMode, NoResult
<1>15. CASE UNCHANGED gpuVars
  BY <1>15 DEF gpuVars
<1> QED
  BY <1>1, <1>2, <1>3, <1>4, <1>5, <1>6, <1>7, <1>8, <1>9, <1>10, <1>11, <1>12, <1>13,
     <1>14, <1>15 DEF GpuNext, Change

\* A telemetry read tests mode and busy under no lock, but none that passed its
\* tests is still under way when the mode becomes off, unless off was found
\* already in force.
LEMMA ReaderStep ==
  GpuTypeOK /\ ReaderInv /\ ResultInv /\ [GpuNext]_gpuVars => ReaderInv'
<1> SUFFICES ASSUME GpuTypeOK, ReaderInv, ResultInv, [GpuNext]_gpuVars PROVE ReaderInv'
  OBVIOUS
<1> USE DEF GpuTypeOK, ReaderInv, ResultInv, Modes, busy, devVars, gpuCtlVars
<1>1. CASE \E m \in Modes : Begin(m)
  BY <1>1 DEF Begin
<1>2. CASE CheckSwitcheroo
  BY <1>2 DEF CheckSwitcheroo, Fail, Finish, Goto
<1>3. CASE VerifyImmediate
  BY <1>3 DEF VerifyImmediate, Verified, Fail, Goto
<1>4. CASE VerifyAfterWait
  BY <1>4 DEF VerifyAfterWait, Verified, Fail, Finish
<1>5. CASE \E ok \in BOOLEAN : UnbindFbcon(ok)
  BY <1>5 DEF UnbindFbcon, Fail
<1>6. CASE \E ok \in BOOLEAN : SwitchToIgd(ok)
  BY <1>6 DEF SwitchToIgd
<1>7. CASE \E ok \in BOOLEAN : PowerOff(ok)
  BY <1>7 DEF PowerOff, Fail, Goto
<1>8. CASE \E ok \in BOOLEAN : SetCapDpm(ok)
  BY <1>8 DEF SetCapDpm
<1>9. CASE \E ok \in PowerOnWrites : Revert(ok)
  BY <1>9 DEF Revert, PowerOn, PowerOnWrites, Goto
<1>10. CASE \E ok \in PowerOnWrites : ApplyOnPower(ok)
  BY <1>10 DEF ApplyOnPower, PowerOn, PowerOnWrites, Goto
<1>11. CASE ReadBegin
  BY <1>11 DEF ReadBegin, ReadTests
<1>12. CASE ReadAmdgpu
  BY <1>12 DEF ReadAmdgpu
<1>13. CASE Probe
  BY <1>13 DEF Probe
<1>14. CASE GpuCrash
  BY <1>14 DEF GpuCrash, FirstMode, NoResult
<1>15. CASE UNCHANGED gpuVars
  BY <1>15 DEF gpuVars
<1> QED
  BY <1>1, <1>2, <1>3, <1>4, <1>5, <1>6, <1>7, <1>8, <1>9, <1>10, <1>11, <1>12, <1>13,
     <1>14, <1>15 DEF GpuNext, Change

\* The result of the last change stays true of the hardware: a read that wakes
\* the dGPU cannot follow a verified off, and limits change in SetCapDpm only.
LEMMA ResultStep ==
  GpuTypeOK /\ ReaderInv /\ ResultInv /\ [GpuNext]_gpuVars => ResultInv'
<1> SUFFICES ASSUME GpuTypeOK, ReaderInv, ResultInv, [GpuNext]_gpuVars PROVE ResultInv'
  OBVIOUS
<1> USE DEF GpuTypeOK, ReaderInv, ResultInv, OffMeansOff, OkMeansInForce, Modes, busy, devVars, gpuCtlVars
<1>1. CASE \E m \in Modes : Begin(m)
  BY <1>1 DEF Begin
<1>2. CASE CheckSwitcheroo
  BY <1>2 DEF CheckSwitcheroo, Fail, Finish, Goto
<1>3. CASE VerifyImmediate
  BY <1>3 DEF VerifyImmediate, Verified, Fail, Goto
<1>4. CASE VerifyAfterWait
  BY <1>4 DEF VerifyAfterWait, Verified, Fail, Finish
<1>5. CASE \E ok \in BOOLEAN : UnbindFbcon(ok)
  BY <1>5 DEF UnbindFbcon, Fail
<1>6. CASE \E ok \in BOOLEAN : SwitchToIgd(ok)
  BY <1>6 DEF SwitchToIgd
<1>7. CASE \E ok \in BOOLEAN : PowerOff(ok)
  BY <1>7 DEF PowerOff, Fail, Goto
<1>8. CASE \E ok \in BOOLEAN : SetCapDpm(ok)
  <2> PICK ok \in BOOLEAN : SetCapDpm(ok)
    BY <1>8
  <2>1. CASE ok
    BY <2>1 DEF SetCapDpm
  <2>2. CASE ~ok
    BY <2>2 DEF SetCapDpm
  <2> QED
    BY <2>1, <2>2
<1>9. CASE \E ok \in PowerOnWrites : Revert(ok)
  BY <1>9 DEF Revert, PowerOn, PowerOnWrites, Goto
<1>10. CASE \E ok \in PowerOnWrites : ApplyOnPower(ok)
  BY <1>10 DEF ApplyOnPower, PowerOn, PowerOnWrites, Goto
<1>11. CASE ReadBegin
  BY <1>11 DEF ReadBegin, ReadTests
<1>12. CASE ReadAmdgpu
  BY <1>12 DEF ReadAmdgpu
<1>13. CASE Probe
  BY <1>13 DEF Probe
<1>14. CASE GpuCrash
  BY <1>14 DEF GpuCrash, FirstMode, NoResult
<1>15. CASE UNCHANGED gpuVars
  BY <1>15 DEF gpuVars
<1> QED
  BY <1>1, <1>2, <1>3, <1>4, <1>5, <1>6, <1>7, <1>8, <1>9, <1>10, <1>11, <1>12, <1>13,
     <1>14, <1>15 DEF GpuNext, Change

\* Whatever writes fail or are refused, whenever a telemetry read comes in
\* between and wherever the daemon dies: the console comes back with mode auto or
\* low, ok means what it says, and a dGPU that is off is left untouched (gpu.py,
\* apply_mode, _apply_off, _apply_on and read).
THEOREM GpuIsSafe == GpuSpec => GpuSafe
<1> DEFINE Touch == ReadAmdgpu => appliedMode # "off" \/ res.already
<1>1. GpuInit => GpuInv
  <2> SUFFICES ASSUME GpuInit PROVE GpuInv
    OBVIOUS
  <2>1. GpuTypeOK
    BY GpuTypeInit
  <2>2. ConsoleInv
    BY DEF GpuInit, ConsoleInv, OnPanel, FirstMode
  <2>3. ReaderInv /\ ResultInv
    BY DEF GpuInit, ReaderInv, ResultInv, OffMeansOff, OkMeansInForce, NoResult, busy
  <2> QED
    BY <2>1, <2>2, <2>3 DEF GpuInv
<1>2. GpuInv /\ [GpuNext]_gpuVars => GpuInv'
  BY GpuTypeStep, ConsoleStep, ReaderStep, ResultStep DEF GpuInv
<1>3. GpuInv => GpuTypeOK /\ ConsoleRestored /\ OffMeansOff /\ OkMeansInForce
  BY DEF GpuInv, ConsoleInv, ResultInv, ConsoleRestored, OnPanel, busy
<1>4. GpuInv /\ [GpuNext]_gpuVars => [Touch]_gpuVars
  BY DEF GpuInv, ReaderInv, ReadAmdgpu
<1> HIDE DEF Touch
<1>5. GpuSpec => [](GpuTypeOK /\ ConsoleRestored /\ OffMeansOff /\ OkMeansInForce)
  BY <1>1, <1>2, <1>3, PTL DEF GpuSpec
<1>6. GpuSpec => [][Touch]_gpuVars
  BY <1>1, <1>2, <1>4, PTL DEF GpuSpec
<1> QED
  BY <1>5, <1>6 DEF GpuSafe, OffNeverTouched, Touch

-----------------------------------------------------------------------------
(* Settings *)

\* What is kept of one thread of the daemon.
ThreadRecords ==
  [at : {"idle", "side", "mode", "gate", "read", "lock", "apply", "applied"},
   mode : ConfigModes \cup {NoMode}, out : Outcomes, flag : BOOLEAN]

\* The threads; one that waits for Gpu.lock or has passed it has a mode to
\* apply, and not the None of a config.set without gpu.mode.
ThreadInv ==
  /\ th \in [Threads -> ThreadRecords]
  /\ \A t \in Threads :
       th[t].at \in {"gate", "lock", "apply", "applied"} => th[t].mode \in ConfigModes

\* The types of everything else.
RestTypeOK ==
  /\ config \in SettingsConfigs /\ disk \in SettingsConfigs
  /\ gpu_mode \in ConfigModes \cup {NoMode} /\ lock \in Threads \cup {NoOne}
  /\ gpu_thread \in Background
  /\ gpu_retry_left \in 0..Retries /\ gpu_retry_next \in BOOLEAN
  /\ loaded \subseteq SettingsConfigs /\ settingsOps \in 0..MaxSettingsOps

\* Why set_gpu stores the mode that was reached: while the last change was a
\* request that overlapped no other, at most one request has still to store its
\* mode, that mode is the hardware's, and once none has the configuration has it.
StoredInv ==
  last_change = "request" =>
    /\ \A c, d \in Clients : th[c].at = "applied" /\ th[d].at = "applied" => c = d
    /\ \A c \in Clients : th[c].at = "applied" => th[c].mode = gpu_mode
    /\ (\A c \in Clients : th[c].at # "applied") => config.gpu = gpu_mode

\* Who is inside Gpu.apply_mode is who holds Gpu.lock.
LockInv == \A t \in Threads : th[t].at = "apply" <=> lock = t

SettingsInv == ThreadInv /\ RestTypeOK /\ DiskIsMemory /\ AcceptedIsLive /\ StoredInv

\* The record of a thread at rest, and of a background thread that has begun.
LEMMA RecordFacts ==
  /\ Idle \in ThreadRecords /\ Idle.at = "idle" /\ Idle.mode = NoMode
  /\ \A f \in BOOLEAN : Started(f) \in ThreadRecords /\ Started(f).at = "read"
  BY DEF Idle, Started, ThreadRecords, Outcomes

\* What _side_effects does to the threads: the request goes on, and at most one
\* thread, at rest until now, begins in the background.
LEMMA SideEffectsThreads ==
  ASSUME ThreadInv, NEW c \in Clients, SideEffects(c)
  PROVE  /\ th' \in [Threads -> ThreadRecords]
         /\ th'[c].at = "mode"
         /\ \A t \in Threads \ {c} :
              \/ th'[t] = th[t]
              \/ t \in Background /\ th[t] = Idle /\ th'[t] = Started(TRUE)
<1> DEFINE r == [th[c] EXCEPT !.at = "mode", !.flag = FALSE]
<1>1. c \in Threads /\ c \notin Background
  BY SettingsAssumption DEF Threads
<1>2. th \in [Threads -> ThreadRecords] /\ r \in ThreadRecords /\ r.at = "mode"
  BY <1>1 DEF ThreadInv, ThreadRecords
<1>3. CASE th' = [th EXCEPT ![c].at = "mode", ![c].flag = FALSE]
  <2>1. th' = [th EXCEPT ![c] = r]
    BY <1>1, <1>2, <1>3
  <2> HIDE DEF r
  <2> QED
    BY <1>1, <1>2, <2>1
<1>4. CASE \E b \in Background :
             /\ th[b] = Idle
             /\ th' = [th EXCEPT ![c].at = "mode", ![c].flag = FALSE, ![b] = Started(TRUE)]
  <2> PICK b \in Background :
             /\ th[b] = Idle
             /\ th' = [th EXCEPT ![c].at = "mode", ![c].flag = FALSE, ![b] = Started(TRUE)]
    BY <1>4
  <2>1. th' = [th EXCEPT ![c] = r, ![b] = Started(TRUE)]
    BY <1>1, <1>2
  <2> HIDE DEF r
  <2>2. b \in Threads /\ b # c /\ Started(TRUE) \in ThreadRecords
    BY <1>1, RecordFacts DEF Threads
  <2>3. th' \in [Threads -> ThreadRecords]
    BY <1>1, <1>2, <2>1, <2>2
  <2>4. th'[c] = r /\ th'[b] = Started(TRUE)
    BY <1>1, <1>2, <2>1, <2>2
  <2>5. \A t \in Threads \ {c, b} : th'[t] = th[t]
    BY <1>1, <1>2, <2>1, <2>2
  <2> QED
    BY <1>2, <2>3, <2>4, <2>5
<1> QED
  BY <1>3, <1>4 DEF SideEffects

\* What _maybe_retry_gpu does to the threads: at most one begins.
LEMMA RetryThreads ==
  ASSUME ThreadInv, MaybeRetryGpu
  PROVE  /\ th' \in [Threads -> ThreadRecords]
         /\ \A t \in Threads :
              \/ th'[t] = th[t]
              \/ t \in Background /\ th[t] = Idle /\ th'[t] = Started(FALSE)
<1>1. CASE UNCHANGED th
  BY <1>1 DEF ThreadInv
<1>2. CASE \E b \in Background : th[b] = Idle /\ th' = [th EXCEPT ![b] = Started(FALSE)]
  BY <1>2, RecordFacts DEF ThreadInv, Threads
<1> QED
  BY <1>1, <1>2 DEF MaybeRetryGpu

\* Every step of main.py keeps the threads' invariant.
LEMMA ThreadStepInv ==
  ThreadInv /\ RestTypeOK /\ [SettingsNext]_settingsVars => ThreadInv'
<1> SUFFICES ASSUME ThreadInv, RestTypeOK, [SettingsNext]_settingsVars PROVE ThreadInv'
  OBVIOUS
<1> USE DEF cfgVars, gpuStateVars, histVars, Threads
<1>0. \A t \in Threads, r \in ThreadRecords :
        /\ r.at \in {"gate", "lock", "apply", "applied"} => r.mode \in ConfigModes
        /\ th' = [th EXCEPT ![t] = r]
        => ThreadInv'
  BY DEF ThreadInv
<1>1. CASE \E c \in Clients, v \in Values, withCap, saved \in BOOLEAN,
         m \in ConfigModes \cup {NoMode} : SetConfig(c, v, withCap, m, saved)
  <2> PICK c \in Clients, v \in Values, withCap \in BOOLEAN, saved \in BOOLEAN,
          m \in ConfigModes \cup {NoMode} : SetConfig(c, v, withCap, m, saved)
    BY <1>1
  <2> DEFINE r == [Idle EXCEPT !.at = "side", !.mode = m, !.flag = withCap]
  <2>1. r \in ThreadRecords /\ r.at = "side"
    BY RecordFacts DEF ThreadRecords
  <2>2. th' = [th EXCEPT ![c] = r]
    BY DEF SetConfig
  <2> HIDE DEF r
  <2> QED
    BY <1>0, <2>1, <2>2
<1>2. CASE \E c \in Clients, m \in ConfigModes : GpuSet(c, m)
  <2> PICK c \in Clients, m \in ConfigModes : GpuSet(c, m)
    BY <1>2
  <2> DEFINE r == [Idle EXCEPT !.at = "gate", !.mode = m]
  <2>1. r \in ThreadRecords /\ r.mode \in ConfigModes
    BY RecordFacts DEF ThreadRecords
  <2>2. th' = [th EXCEPT ![c] = r]
    BY DEF GpuSet
  <2> HIDE DEF r
  <2> QED
    BY <1>0, <2>1, <2>2
<1>3. CASE \E c \in Clients : SideEffects(c)
  BY <1>3, SideEffectsThreads, RecordFacts DEF ThreadInv
<1>4. CASE \E c \in Clients : CompareMode(c)
  <2> PICK c \in Clients : CompareMode(c)
    BY <1>4
  <2> DEFINE r == IF th[c].mode \in {NoMode, config.gpu} THEN Idle
                  ELSE [Idle EXCEPT !.at = "gate", !.mode = th[c].mode]
  <2>0. th[c] \in ThreadRecords
    BY DEF ThreadInv
  <2>1. r \in ThreadRecords /\ (r.at = "idle" \/ r.mode \in ConfigModes)
    BY <2>0, RecordFacts DEF ThreadRecords
  <2>2. th' = [th EXCEPT ![c] = r]
    BY DEF CompareMode
  <2> HIDE DEF r
  <2> QED
    BY <1>0, <2>1, <2>2
<1>5. CASE \E c \in Clients : SetGpuGate(c)
  <2> PICK c \in Clients : SetGpuGate(c)
    BY <1>5
  <2> DEFINE r == [th[c] EXCEPT !.at = "lock"]
  <2>0. th[c] \in ThreadRecords /\ th[c].mode \in ConfigModes
    BY DEF ThreadInv, SetGpuGate
  <2>1. r \in ThreadRecords /\ r.mode \in ConfigModes
    BY <2>0 DEF ThreadRecords
  <2>2. th' = [th EXCEPT ![c] = Idle] \/ th' = [th EXCEPT ![c] = r]
    BY DEF SetGpuGate
  <2> HIDE DEF r
  <2> QED
    BY <1>0, <2>1, <2>2, RecordFacts
<1>6. CASE \E c \in Clients, saved \in BOOLEAN : Persist(c, saved)
  BY <1>0, <1>6, RecordFacts DEF Persist
<1>7. CASE \E t \in Threads : Acquire(t)
  BY <1>7 DEF Acquire, ThreadInv, ThreadRecords
<1>8. CASE \E t \in Threads, out \in Outcomes : ApplyMode(t, out)
  BY <1>8 DEF ApplyMode, ThreadInv, ThreadRecords, ConfigModes
<1>9. CASE \E b \in Background : ReadMode(b)
  <2> PICK b \in Background : ReadMode(b)
    BY <1>9
  <2> DEFINE r == [th[b] EXCEPT !.at = "lock", !.mode = config.gpu]
  <2>0. th[b] \in ThreadRecords /\ config.gpu \in ConfigModes
    BY DEF ThreadInv, RestTypeOK, SettingsConfigs
  <2>1. r \in ThreadRecords /\ r.mode \in ConfigModes
    BY <2>0 DEF ThreadRecords
  <2>2. th' = [th EXCEPT ![b] = r]
    BY DEF ReadMode
  <2> HIDE DEF r
  <2> QED
    BY <1>0, <2>1, <2>2
<1>10. CASE \E b \in Background : AfterApply(b)
  BY <1>0, <1>10, RecordFacts DEF AfterApply
<1>11. CASE MaybeRetryGpu
  BY <1>11, RetryThreads, RecordFacts DEF ThreadInv
<1>12. CASE ReloadLoad
  BY <1>12 DEF ReloadLoad, ThreadInv
<1>13. CASE ReloadSet
  BY <1>13 DEF ReloadSet, ThreadInv
<1>14. CASE \E new \in SettingsConfigs : HandEdit(new)
  BY <1>14 DEF HandEdit, ThreadInv
<1>15. CASE SettingsRestart
  <2> PICK b \in Background :
         th' = [t \in Threads |-> IF t = b THEN Started(TRUE) ELSE Idle]
    BY <1>15 DEF SettingsRestart
  <2> QED
    BY RecordFacts DEF ThreadInv
<1>16. CASE UNCHANGED settingsVars
  BY <1>16 DEF settingsVars, ThreadInv
<1> QED
  BY <1>1, <1>2, <1>3, <1>4, <1>5, <1>6, <1>7, <1>8, <1>9, <1>10, <1>11, <1>12,
     <1>13, <1>14, <1>15, <1>16 DEF SettingsNext, ClientStep, BackgroundStep, ThreadStep, Threads

\* Every step of main.py keeps the other types; the retries left stay within
\* GPU_RETRIES.
LEMMA RestTypeStep ==
  ThreadInv /\ RestTypeOK /\ [SettingsNext]_settingsVars => RestTypeOK'
<1> SUFFICES ASSUME ThreadInv, RestTypeOK, [SettingsNext]_settingsVars PROVE RestTypeOK'
  OBVIOUS
<1> USE DEF RestTypeOK, SettingsConfigs, SettingsOp, Threads, cfgVars, gpuStateVars, histVars
<1>1. CASE \E c \in Clients, v \in Values, withCap, saved \in BOOLEAN,
         m \in ConfigModes \cup {NoMode} : SetConfig(c, v, withCap, m, saved)
  BY <1>1, SettingsAssumption DEF SetConfig, Store
<1>2. CASE \E c \in Clients, m \in ConfigModes : GpuSet(c, m)
  BY <1>2, SettingsAssumption DEF GpuSet
<1>3. CASE \E c \in Clients : SideEffects(c)
  BY <1>3 DEF SideEffects
<1>4. CASE \E c \in Clients : CompareMode(c)
  BY <1>4 DEF CompareMode
<1>5. CASE \E c \in Clients : SetGpuGate(c)
  <2> PICK c \in Clients : SetGpuGate(c)
    BY <1>5
  <2>1. gpu_retry_left' \in 0..Retries
    BY SettingsAssumption DEF SetGpuGate
  <2> QED
    BY <2>1 DEF SetGpuGate
<1>6. CASE \E c \in Clients, saved \in BOOLEAN : Persist(c, saved)
  BY <1>6 DEF Persist, Store, ThreadInv
<1>7. CASE \E t \in Threads : Acquire(t)
  BY <1>7 DEF Acquire
<1>8. CASE \E t \in Threads, out \in Outcomes : ApplyMode(t, out)
  BY <1>8 DEF ApplyMode, ThreadInv, ThreadRecords, ConfigModes
<1>9. CASE \E b \in Background : ReadMode(b)
  BY <1>9 DEF ReadMode
<1>10. CASE \E b \in Background : AfterApply(b)
  <2> PICK b \in Background : AfterApply(b)
    BY <1>10
  <2>1. gpu_retry_left' \in 0..Retries
    BY SettingsAssumption DEF AfterApply
  <2>2. gpu_retry_next' \in BOOLEAN
    BY DEF AfterApply
  <2> QED
    BY <2>1, <2>2 DEF AfterApply
<1>11. CASE MaybeRetryGpu
  <2>0. gpu_retry_left' \in {gpu_retry_left, gpu_retry_left - 1} /\ gpu_retry_left > 0
    BY <1>11 DEF MaybeRetryGpu, RetryPending, RetryLeft
  <2>1. gpu_retry_left' \in 0..Retries
    BY <2>0, SettingsAssumption
  <2>2. gpu_retry_next' \in BOOLEAN /\ gpu_thread' \in Background
    BY <1>11 DEF MaybeRetryGpu
  <2> QED
    BY <1>11, <2>1, <2>2 DEF MaybeRetryGpu
<1>12. CASE ReloadLoad
  BY <1>12, SettingsAssumption DEF ReloadLoad
<1>13. CASE ReloadSet
  BY <1>13 DEF ReloadSet
<1>14. CASE \E new \in SettingsConfigs : HandEdit(new)
  BY <1>14, SettingsAssumption DEF HandEdit
<1>15. CASE SettingsRestart
  <2>1. gpu_mode' \in ConfigModes \cup {NoMode}
    BY <1>15 DEF SettingsRestart, ConfigModes
  <2>2. gpu_retry_left' \in 0..Retries /\ settingsOps' \in 0..MaxSettingsOps
    BY <1>15, SettingsAssumption DEF SettingsRestart
  <2>3. gpu_thread' \in Background
    BY <1>15 DEF SettingsRestart
  <2> QED
    BY <1>15, <2>1, <2>2, <2>3 DEF SettingsRestart
<1>16. CASE UNCHANGED settingsVars
  BY <1>16 DEF settingsVars
<1> QED
  BY <1>1, <1>2, <1>3, <1>4, <1>5, <1>6, <1>7, <1>8, <1>9, <1>10, <1>11, <1>12,
     <1>13, <1>14, <1>15, <1>16 DEF SettingsNext, ClientStep, BackgroundStep, ThreadStep, Threads

\* set_config, set_gpu, reload_config and a restart: file and memory stay the
\* same but for a failed save, a hand edit and a lost race.
LEMMA DiskStep ==
  RestTypeOK /\ DiskIsMemory /\ [SettingsNext]_settingsVars => DiskIsMemory'
<1> SUFFICES ASSUME RestTypeOK, DiskIsMemory, [SettingsNext]_settingsVars PROVE DiskIsMemory'
  OBVIOUS
<1> USE DEF DiskIsMemory, cfgVars, gpuStateVars, histVars
<1>1. CASE \E c \in Clients, v \in Values, withCap, saved \in BOOLEAN,
         m \in ConfigModes \cup {NoMode} : SetConfig(c, v, withCap, m, saved)
  BY <1>1 DEF SetConfig, Store
<1>2. CASE \E c \in Clients, m \in ConfigModes : GpuSet(c, m)
  BY <1>2 DEF GpuSet
<1>3. CASE \E c \in Clients : SideEffects(c)
  BY <1>3 DEF SideEffects
<1>4. CASE \E c \in Clients : CompareMode(c)
  BY <1>4 DEF CompareMode
<1>5. CASE \E c \in Clients : SetGpuGate(c)
  BY <1>5 DEF SetGpuGate
<1>6. CASE \E c \in Clients, saved \in BOOLEAN : Persist(c, saved)
  BY <1>6 DEF Persist, Store
<1>7. CASE \E t \in Threads : Acquire(t)
  BY <1>7 DEF Acquire
<1>8. CASE \E t \in Threads, out \in Outcomes : ApplyMode(t, out)
  BY <1>8 DEF ApplyMode
<1>9. CASE \E b \in Background : ReadMode(b)
  BY <1>9 DEF ReadMode
<1>10. CASE \E b \in Background : AfterApply(b)
  BY <1>10 DEF AfterApply
<1>11. CASE MaybeRetryGpu
  BY <1>11 DEF MaybeRetryGpu, RetryPending, RetryLeft
<1>12. CASE ReloadLoad
  BY <1>12 DEF ReloadLoad
<1>13. CASE ReloadSet
  BY <1>13 DEF ReloadSet
<1>14. CASE \E new \in SettingsConfigs : HandEdit(new)
  BY <1>14 DEF HandEdit
<1>15. CASE SettingsRestart
  BY <1>15 DEF SettingsRestart
<1>16. CASE UNCHANGED settingsVars
  BY <1>16 DEF settingsVars
<1> QED
  BY <1>1, <1>2, <1>3, <1>4, <1>5, <1>6, <1>7, <1>8, <1>9, <1>10, <1>11, <1>12,
     <1>13, <1>14, <1>15, <1>16 DEF SettingsNext, ClientStep, BackgroundStep, ThreadStep, Threads

\* None of them takes back a setting that was accepted.
LEMMA LiveStep ==
  RestTypeOK /\ DiskIsMemory /\ AcceptedIsLive /\ [SettingsNext]_settingsVars => AcceptedIsLive'
<1> SUFFICES ASSUME RestTypeOK, DiskIsMemory, AcceptedIsLive, [SettingsNext]_settingsVars PROVE AcceptedIsLive'
  OBVIOUS
<1> USE DEF RestTypeOK, DiskIsMemory, AcceptedIsLive, SettingsConfigs, cfgVars, gpuStateVars, histVars
<1>1. CASE \E c \in Clients, v \in Values, withCap, saved \in BOOLEAN,
         m \in ConfigModes \cup {NoMode} : SetConfig(c, v, withCap, m, saved)
  BY <1>1 DEF SetConfig, Store
<1>2. CASE \E c \in Clients, m \in ConfigModes : GpuSet(c, m)
  BY <1>2 DEF GpuSet
<1>3. CASE \E c \in Clients : SideEffects(c)
  BY <1>3 DEF SideEffects
<1>4. CASE \E c \in Clients : CompareMode(c)
  BY <1>4 DEF CompareMode
<1>5. CASE \E c \in Clients : SetGpuGate(c)
  BY <1>5 DEF SetGpuGate
<1>6. CASE \E c \in Clients, saved \in BOOLEAN : Persist(c, saved)
  BY <1>6 DEF Persist, Store
<1>7. CASE \E t \in Threads : Acquire(t)
  BY <1>7 DEF Acquire
<1>8. CASE \E t \in Threads, out \in Outcomes : ApplyMode(t, out)
  BY <1>8 DEF ApplyMode
<1>9. CASE \E b \in Background : ReadMode(b)
  BY <1>9 DEF ReadMode
<1>10. CASE \E b \in Background : AfterApply(b)
  BY <1>10 DEF AfterApply
<1>11. CASE MaybeRetryGpu
  BY <1>11 DEF MaybeRetryGpu, RetryPending, RetryLeft
<1>12. CASE ReloadLoad
  BY <1>12 DEF ReloadLoad
<1>13. CASE ReloadSet
  BY <1>13 DEF ReloadSet
<1>14. CASE \E new \in SettingsConfigs : HandEdit(new)
  BY <1>14 DEF HandEdit
<1>15. CASE SettingsRestart
  BY <1>15 DEF SettingsRestart
<1>16. CASE UNCHANGED settingsVars
  BY <1>16 DEF settingsVars
<1> QED
  BY <1>1, <1>2, <1>3, <1>4, <1>5, <1>6, <1>7, <1>8, <1>9, <1>10, <1>11, <1>12,
     <1>13, <1>14, <1>15, <1>16 DEF SettingsNext, ClientStep, BackgroundStep, ThreadStep, Threads

\* Every step of requests, background threads and reloads keeps StoredInv.
LEMMA StoredStep ==
  ThreadInv /\ RestTypeOK /\ StoredInv /\ [SettingsNext]_settingsVars => StoredInv'
<1> SUFFICES ASSUME ThreadInv, RestTypeOK, StoredInv, [SettingsNext]_settingsVars PROVE StoredInv'
  OBVIOUS
<1> USE DEF ThreadInv, StoredInv, ThreadRecords, Threads, cfgVars, gpuStateVars, histVars
<1>1. CASE \E c \in Clients, v \in Values, withCap, saved \in BOOLEAN,
         m \in ConfigModes \cup {NoMode} : SetConfig(c, v, withCap, m, saved)
  BY <1>1, RecordFacts DEF SetConfig, Store, RestTypeOK, SettingsConfigs
<1>2. CASE \E c \in Clients, m \in ConfigModes : GpuSet(c, m)
  BY <1>2, RecordFacts DEF GpuSet
<1>3. CASE \E c \in Clients : SideEffects(c)
  <2> PICK c \in Clients : SideEffects(c)
    BY <1>3
  <2>1. UNCHANGED <<config, gpu_mode, lock, last_change>> /\ th[c].at = "side"
    BY DEF SideEffects
  <2>2. \A d \in Clients :
          th[d].at = "applied" \/ th'[d].at = "applied" => th'[d] = th[d]
    BY <2>1, SideEffectsThreads, RecordFacts, SettingsAssumption
  <2> QED
    BY <2>1, <2>2
<1>4. CASE \E c \in Clients : CompareMode(c)
  BY <1>4, RecordFacts DEF CompareMode
<1>5. CASE \E c \in Clients : SetGpuGate(c)
  BY <1>5, RecordFacts DEF SetGpuGate
<1>6. CASE \E c \in Clients, saved \in BOOLEAN : Persist(c, saved)
  BY <1>6, RecordFacts DEF Persist, Store, RestTypeOK, SettingsConfigs
<1>7. CASE \E t \in Threads : Acquire(t)
  BY <1>7 DEF Acquire
<1>8. CASE \E t \in Threads, out \in Outcomes : ApplyMode(t, out)
  BY <1>8 DEF ApplyMode
<1>9. CASE \E b \in Background : ReadMode(b)
  BY <1>9 DEF ReadMode
<1>10. CASE \E b \in Background : AfterApply(b)
  BY <1>10, RecordFacts, SettingsAssumption DEF AfterApply
<1>11. CASE MaybeRetryGpu
  <2>1. UNCHANGED <<config, gpu_mode, lock, last_change>>
    BY <1>11 DEF MaybeRetryGpu
  <2>2. \A d \in Clients :
          th[d].at = "applied" \/ th'[d].at = "applied" => th'[d] = th[d]
    BY <1>11, RetryThreads, RecordFacts, SettingsAssumption
  <2> QED
    BY <2>1, <2>2
<1>12. CASE ReloadLoad
  BY <1>12 DEF ReloadLoad
<1>13. CASE ReloadSet
  BY <1>13 DEF ReloadSet, NoMode
<1>14. CASE \E new \in SettingsConfigs : HandEdit(new)
  BY <1>14 DEF HandEdit
<1>15. CASE SettingsRestart
  BY <1>15 DEF SettingsRestart, NoMode
<1>16. CASE UNCHANGED settingsVars
  BY <1>16 DEF settingsVars
<1> QED
  BY <1>1, <1>2, <1>3, <1>4, <1>5, <1>6, <1>7, <1>8, <1>9, <1>10, <1>11, <1>12,
     <1>13, <1>14, <1>15, <1>16 DEF SettingsNext, ClientStep, BackgroundStep, ThreadStep, Threads

\* No step leaves apply_mode with the lock taken, or enters it without.
LEMMA LockStep ==
  ThreadInv /\ RestTypeOK /\ LockInv /\ [SettingsNext]_settingsVars => LockInv'
<1> SUFFICES ASSUME ThreadInv, RestTypeOK, LockInv, [SettingsNext]_settingsVars PROVE LockInv'
  OBVIOUS
<1> USE DEF ThreadInv, LockInv, ThreadRecords, Threads, cfgVars, gpuStateVars, histVars
<1>1. CASE \E c \in Clients, v \in Values, withCap, saved \in BOOLEAN,
         m \in ConfigModes \cup {NoMode} : SetConfig(c, v, withCap, m, saved)
  BY <1>1, RecordFacts DEF SetConfig, Store
<1>2. CASE \E c \in Clients, m \in ConfigModes : GpuSet(c, m)
  BY <1>2, RecordFacts DEF GpuSet
<1>3. CASE \E c \in Clients : SideEffects(c)
  <2> PICK c \in Clients : SideEffects(c)
    BY <1>3
  <2>1. UNCHANGED <<config, gpu_mode, lock, last_change>> /\ th[c].at = "side"
    BY DEF SideEffects
  <2>2. \A t \in Threads : th'[t].at = "apply" <=> th[t].at = "apply"
    <3> TAKE t \in Threads
    <3>1. CASE t = c
      BY <2>1, <3>1, SideEffectsThreads
    <3>2. CASE t # c
      <4>1. th'[t] = th[t] \/ (th[t] = Idle /\ th'[t] = Started(TRUE))
        BY <3>2, SideEffectsThreads
      <4> QED
        BY <4>1, RecordFacts
    <3> QED
      BY <3>1, <3>2
  <2> QED
    BY <2>1, <2>2
<1>4. CASE \E c \in Clients : CompareMode(c)
  BY <1>4, RecordFacts DEF CompareMode
<1>5. CASE \E c \in Clients : SetGpuGate(c)
  BY <1>5, RecordFacts DEF SetGpuGate
<1>6. CASE \E c \in Clients, saved \in BOOLEAN : Persist(c, saved)
  BY <1>6, RecordFacts DEF Persist, Store
<1>7. CASE \E t \in Threads : Acquire(t)
  BY <1>7, SettingsAssumption DEF Acquire
<1>8. CASE \E t \in Threads, out \in Outcomes : ApplyMode(t, out)
  BY <1>8, SettingsAssumption DEF ApplyMode
<1>9. CASE \E b \in Background : ReadMode(b)
  BY <1>9 DEF ReadMode
<1>10. CASE \E b \in Background : AfterApply(b)
  BY <1>10, RecordFacts DEF AfterApply
<1>11. CASE MaybeRetryGpu
  <2>1. UNCHANGED <<config, gpu_mode, lock, last_change>>
    BY <1>11 DEF MaybeRetryGpu
  <2>2. \A t \in Threads : th'[t].at = "apply" <=> th[t].at = "apply"
    BY <1>11, RetryThreads, RecordFacts, SettingsAssumption
  <2> QED
    BY <2>1, <2>2
<1>12. CASE ReloadLoad
  BY <1>12 DEF ReloadLoad
<1>13. CASE ReloadSet
  BY <1>13 DEF ReloadSet
<1>14. CASE \E new \in SettingsConfigs : HandEdit(new)
  BY <1>14 DEF HandEdit
<1>15. CASE SettingsRestart
  BY <1>15, RecordFacts, SettingsAssumption DEF SettingsRestart
<1>16. CASE UNCHANGED settingsVars
  BY <1>16 DEF settingsVars
<1> QED
  BY <1>1, <1>2, <1>3, <1>4, <1>5, <1>6, <1>7, <1>8, <1>9, <1>10, <1>11, <1>12,
     <1>13, <1>14, <1>15, <1>16 DEF SettingsNext, ClientStep, BackgroundStep, ThreadStep, Threads

\* The daemon starts with its types in order.
LEMMA SettingsTypeInit == SettingsInit => ThreadInv /\ RestTypeOK
<1> SUFFICES ASSUME SettingsInit PROVE ThreadInv /\ RestTypeOK
  OBVIOUS
<1>1. ThreadInv
  BY RecordFacts DEF SettingsInit, ThreadInv
<1>2. gpu_retry_left \in 0..Retries /\ settingsOps \in 0..MaxSettingsOps
  BY SettingsAssumption DEF SettingsInit
<1>3. config \in SettingsConfigs /\ disk \in SettingsConfigs /\ loaded = {}
  BY DEF SettingsInit
<1>4. gpu_mode = NoMode /\ lock = NoOne /\ gpu_thread \in Background /\ gpu_retry_next = FALSE
  BY DEF SettingsInit
<1> QED
  BY <1>1, <1>2, <1>3, <1>4 DEF RestTypeOK

\* For any number of socket clients and background threads, any settings and any
\* number of retries: file, memory and hardware agree on the configuration in
\* force (main.py, set_config, set_gpu, reload_config, _apply_gpu_from_config).
THEOREM SettingsIsSafe == SettingsSpec => []SettingsSafe
<1>1. SettingsInit => SettingsInv
  <2> SUFFICES ASSUME SettingsInit PROVE SettingsInv
    OBVIOUS
  <2>1. ThreadInv /\ RestTypeOK
    BY SettingsTypeInit
  <2>3. DiskIsMemory /\ AcceptedIsLive
    BY DEF SettingsInit, DiskIsMemory, AcceptedIsLive
  <2>4. StoredInv
    BY DEF SettingsInit, StoredInv, NoMode
  <2> QED
    BY <2>1, <2>3, <2>4 DEF SettingsInv
<1>2. SettingsInv /\ [SettingsNext]_settingsVars => SettingsInv'
  BY ThreadStepInv, RestTypeStep, DiskStep, LiveStep, StoredStep DEF SettingsInv
<1>3. SettingsInv => SettingsSafe
  <2> SUFFICES ASSUME SettingsInv PROVE SettingsSafe
    OBVIOUS
  <2>1. SettingsTypeOK
    BY DEF SettingsInv, ThreadInv, ThreadRecords, RestTypeOK, SettingsTypeOK
  <2>2. ReachedIsStored
    BY RecordFacts DEF SettingsInv, StoredInv, ReachedIsStored, Quiet, Threads
  <2> QED
    BY <2>1, <2>2 DEF SettingsInv, SettingsSafe
<1> QED
  BY <1>1, <1>2, <1>3, PTL DEF SettingsSpec

\* Gpu.lock excludes: at most one thread is inside Gpu.apply_mode, and nobody
\* holds the lock outside it (gpu.py, apply_mode).  So the mode change of module
\* Gpu, which runs alone, is the one step that ApplyMode takes here.
THEOREM LockIsHeld == SettingsSpec => []LockInv
<1>1. SettingsInit => ThreadInv /\ RestTypeOK /\ LockInv
  <2> SUFFICES ASSUME SettingsInit PROVE ThreadInv /\ RestTypeOK /\ LockInv
    OBVIOUS
  <2>1. ThreadInv /\ RestTypeOK
    BY SettingsTypeInit
  <2>3. LockInv
    BY RecordFacts, SettingsAssumption DEF SettingsInit, LockInv
  <2> QED
    BY <2>1, <2>3
<1>2. /\ ThreadInv /\ RestTypeOK /\ LockInv
      /\ [SettingsNext]_settingsVars
      => (ThreadInv /\ RestTypeOK /\ LockInv)'
  BY ThreadStepInv, RestTypeStep, LockStep
<1> QED
  BY <1>1, <1>2, PTL DEF SettingsSpec
=============================================================================
