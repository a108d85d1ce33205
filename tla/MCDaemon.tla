------------------------------ MODULE MCDaemon ------------------------------
(***************************************************************************)
(* The parts of the Linux daemon for TLC.  They share no variable, so the  *)
(* behaviours of their composition are the behaviours of the parts, side   *)
(* by side; what each promises is checked with the others at rest.  part,  *)
(* chosen in the beginning, is the one that moves.                         *)
(***************************************************************************)
EXTENDS Gpu, Settings, Fans, SampleLog, BootCheck, Service, Smc, Sampler

CONSTANTS
  Parts,       \* the parts a run is about
  c1, c2, b1, b2, v1, v2, left, right

VARIABLE part

\* Fans: the right fan's maximum is below max_rpm, and the lowest floor lies
\* within CAPTURE_SLACK_RPM of the known minimum.
FanSection(m) ==
  [mode |-> m, t |-> <<2, 4, 6>>, rpm |-> <<2, 4, 5>>, hysteresis |-> 1,
   interval |-> 2, power_floor_w |-> 4, power_floor_rpm |-> 2, max_rpm |-> 5]
BothModes == {FanSection("floor"), FanSection("auto")}
MCFanMin  == [f \in Fans |-> 1]
MCFanMax  == [f \in Fans |-> IF f = left THEN 5 ELSE 4]
MCTemps   == {NoReading, 0, 1, 3, 4, 5, 6}
FewTemps  == {0, 2, 6}
MCPowers  == {NoReading, 4}
NoPower   == {NoReading}

\* Smc: three keys in two orders.
TwoOrders == {<<1, 2, 3>>, <<3, 1, 2>>}

-----------------------------------------------------------------------------
\* The parts that may wait for a request, or a further input, for ever.
MayRest == {"gpu", "settings", "log", "boot", "sampler"}

vars == <<part, gpuVars, settingsVars, fansVars, logVars, bootVars, serviceVars,
          smcVars, samplerVars>>

\* A part at rest is in one of its initial states, the same in every behaviour.
AtRest ==
  /\ part # "gpu" => fbcon /\ present
  /\ part # "settings" => config.gpu = "auto"
  /\ part # "settings" => gpu_thread = CHOOSE b \in Background : TRUE
  /\ part # "fans" => fanConfig.mode = "floor" /\ file = HwMin
  /\ part # "smc" => layout = <<1, 2, 3>>
  /\ part # "sampler" => energy = 0

Init ==
  /\ part \in Parts
  /\ GpuInit /\ SettingsInit /\ FansInit /\ LogInit /\ BootInit /\ ServiceInit
  /\ SmcInit /\ SamplerInit
  /\ AtRest
  /\ config.val = v1                  \* the values are interchangeable

Next ==
  \/ /\ part = "gpu" /\ GpuNext
     /\ UNCHANGED <<part, settingsVars, fansVars, logVars, bootVars, serviceVars,
                    smcVars, samplerVars>>
  \/ /\ part = "settings" /\ SettingsNext
     /\ UNCHANGED <<part, gpuVars, fansVars, logVars, bootVars, serviceVars,
                    smcVars, samplerVars>>
  \/ /\ part = "fans" /\ FansNext
     /\ UNCHANGED <<part, gpuVars, settingsVars, logVars, bootVars, serviceVars,
                    smcVars, samplerVars>>
  \/ /\ part = "log" /\ LogNext
     /\ UNCHANGED <<part, gpuVars, settingsVars, fansVars, bootVars, serviceVars,
                    smcVars, samplerVars>>
  \/ /\ part = "boot" /\ BootNext
     /\ UNCHANGED <<part, gpuVars, settingsVars, fansVars, logVars, serviceVars,
                    smcVars, samplerVars>>
  \/ /\ part = "service" /\ ServiceNext
     /\ UNCHANGED <<part, gpuVars, settingsVars, fansVars, logVars, bootVars,
                    smcVars, samplerVars>>
  \/ /\ part = "smc" /\ SmcNext
     /\ UNCHANGED <<part, gpuVars, settingsVars, fansVars, logVars, bootVars,
                    serviceVars, samplerVars>>
  \/ /\ part = "sampler" /\ SamplerNext
     /\ UNCHANGED <<part, gpuVars, settingsVars, fansVars, logVars, bootVars,
                    serviceVars, smcVars>>
  \/ part \in MayRest /\ UNCHANGED vars

\* The fairness of each part, for the part that moves.
Fairness ==
  /\ WF_gpuVars(part = "gpu" /\ Change) /\ WF_gpuVars(part = "gpu" /\ ReadAmdgpu)
  /\ \A b \in Background : WF_settingsVars(part = "settings" /\ BackgroundStep(b))
  /\ \A c \in Clients : WF_settingsVars(part = "settings" /\ ClientStep(c))
  /\ WF_settingsVars(part = "settings" /\ MaybeRetryGpu)
  /\ WF_settingsVars(part = "settings" /\ ReloadSet)
  /\ WF_seenConfig(part = "fans" /\ TickBegins) /\ WF_seenConfig(part = "fans" /\ TickEnds)
  /\ WF_pending(part = "fans" /\ CallEnds)
  /\ WF_logVars(part = "log" /\ Displace) /\ WF_logVars(part = "log" /\ Writer)
  /\ WF_logVars(part = "log" /\ Worker) /\ WF_logVars(part = "log" /\ Joined)
  /\ WF_smcVars(part = "smc" /\ Reader)

Spec == Init /\ [][Next]_vars /\ Fairness

\* Whatever firmware the reader wakes up to, in the end it reads every key under
\* its name (smc.py, _ensure and scan).  At rest nothing has been read.
KeysReadInTheEnd == part = "smc" => KeysRecover
=============================================================================
