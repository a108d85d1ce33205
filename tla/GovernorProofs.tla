--------------------------- MODULE GovernorProofs ---------------------------
(***************************************************************************)
(* Proofs about Governor, for every value of its constants.                *)
(***************************************************************************)
EXTENDS Governor, TLAPS

\* The clamps of write: what they return is a limit no higher than asked for.
LEMMA ClampFacts ==
  ASSUME NEW w \in Nat
  PROVE  /\ Cap1(w) \in Nat /\ Cap1(w) <= w
         /\ Cap2(w) \in Nat /\ Cap2(w) <= w
BY GovernorAssumption DEF Cap1, Cap2, Min2

\* Rounding down to the RAPL unit gives a natural number.
LEMMA FloorUnitNat ==
  ASSUME NEW w \in Nat
  PROVE  FloorUnit(w) \in Nat
<1>1. w \div Unit \in Nat
  BY GovernorAssumption
<1> QED
  BY <1>1, GovernorAssumption DEF FloorUnit

\* What the configuration promises: positive limits, and a mode.
LEMMA ConfigFacts ==
  ASSUME NEW c \in Configs
  PROVE  /\ c.mode \in Modes
         /\ c.static_cap_w \in Nat /\ c.ceiling_w \in Nat /\ c.floor_w \in Nat
         /\ c.thermal \in BOOLEAN
BY GovernorAssumption

\* The effect of write, whether or not it reaches the hardware: the command is
\* the clamped limits, the reassert timer is in range, and a write that was
\* forced, or left out over limits in force, leaves the command in force
\* unless its readback failed.
WriteEffect(w1, w2, force) ==
  /\ pl1_w' = Cap1(w1) /\ pl2_w' = Cap2(w2)
  /\ since_write' \in 0..ReassertAfter /\ since_write' < ReassertAfter
  /\ readback' \in {"none", "ok", "failed"}
  /\ readback' # "none" => since_write' = 0
  /\ hw_pl1' \in Nat /\ hw_pl2' \in Nat
  /\ (force \/ (pl1_w # None /\ pl2_w # None /\
                hw_pl1 = FloorUnit(pl1_w) /\ hw_pl2 = FloorUnit(pl2_w)))
       /\ readback' # "failed"
     => hw_pl1' = FloorUnit(pl1_w') /\ hw_pl2' = FloorUnit(pl2_w')

LEMMA WriteFacts ==
  ASSUME TypeOK, NEW gap \in Gaps, NEW out \in Outcomes,
         NEW w1 \in Nat, NEW w2 \in Nat, NEW force \in BOOLEAN,
         Write(w1, w2, force, gap, out)
  PROVE  WriteEffect(w1, w2, force)
<1>1. /\ Cap1(w1) \in Nat /\ Cap2(w2) \in Nat
      /\ FloorUnit(Cap1(w1)) \in Nat /\ FloorUnit(Cap2(w2)) \in Nat
  BY ClampFacts, FloorUnitNat
<1>2. gap \in Nat \ {0} /\ ReassertAfter \in Nat \ {0} /\ since_write \in 0..ReassertAfter
      /\ hw_pl1 \in Nat /\ hw_pl2 \in Nat
  BY GovernorAssumption DEF TypeOK
<1>3. out.pl1 \in BOOLEAN /\ out.pl2 \in BOOLEAN /\ out.verified \in BOOLEAN
  BY GovernorAssumption
<1>4. CASE /\ pl1_w' = Cap1(w1) /\ pl2_w' = Cap2(w2) /\ since_write' = 0
           /\ ApplyAndVerify(Cap1(w1), Cap2(w2), out)
  BY <1>1, <1>2, <1>3, <1>4 DEF WriteEffect, ApplyAndVerify, WriteLimits, CompareLimits
<1>5. CASE /\ ~force /\ since_write + gap < ReassertAfter
           /\ Cap1(w1) = pl1_w /\ Cap2(w2) = pl2_w
           /\ since_write' = Aged(since_write, gap, ReassertAfter)
           /\ readback' = "none"
           /\ UNCHANGED <<pl1_w, pl2_w, hw_pl1, hw_pl2>>
  BY <1>1, <1>2, <1>5 DEF WriteEffect, Aged, Min2
<1> QED
  BY <1>2, <1>4, <1>5 DEF Write

\* The limits a step works between.
LEMMA LimitFacts ==
  ASSUME TypeOK
  PROVE  /\ Floor \in Nat /\ Top \in Nat /\ FallbackW \in Nat
         /\ pl1_w # None => FallbackW <= pl1_w
         /\ Cap1(Floor) <= Top
         /\ \A w \in Nat : w <= Top => Cap1(w) = w
<1>1. /\ cfg.static_cap_w \in Nat /\ cfg.ceiling_w \in Nat /\ cfg.floor_w \in Nat
  BY ConfigFacts DEF TypeOK
<1>2. pl1_w \in Nat \cup {None}
  BY DEF TypeOK
<1> QED
  BY <1>1, <1>2, GovernorAssumption
  DEF Floor, Top, FallbackW, Cap1, Min2, Max2, None

\* The thermal trim keeps the effective ceiling between the floor and the top.
LEMMA CeilingFacts ==
  ASSUME TypeOK, NEW gap \in Gaps, NEW temp \in Temps
  PROVE  /\ Ceiling(gap, temp) \in Nat
         /\ Ceiling(gap, temp) <= Top
         /\ Ceiling(gap, temp) < Top => Floor <= Ceiling(gap, temp)
<1>1. Floor \in Nat /\ Top \in Nat
  BY LimitFacts
<1>2. pl1_w \in Nat \cup {None} /\ thermal_cap_w \in Nat \cup {None}
  BY DEF TypeOK
<1>3. /\ Held \in Nat /\ Held <= Top
      /\ Held < Top => Floor <= Held
  BY <1>1, <1>2 DEF Held, Min2, Max2, None
<1>4. TrimFrom \in Nat /\ TrimFrom <= Held
  BY <1>2, <1>3 DEF TrimFrom, Min2, None
<1> QED
  BY <1>1, <1>3, <1>4, GovernorAssumption
  DEF Ceiling, Trims, Recovers, Min2, Max2

\* Where a dynamic step starts: under the ceiling, and above the command only
\* as far as the floor, unless the step comes from OFF or STATIC.
LEMMA StartFacts ==
  ASSUME TypeOK, NEW gap \in Gaps, NEW temp \in Temps
  PROVE  /\ Start(gap, temp) \in Nat
         /\ Start(gap, temp) <= Ceiling(gap, temp)
         /\ state \in DynStates \cup {"FALLBACK"} /\ pl1_w # None
              => Start(gap, temp) <= Max2(pl1_w, Floor)
<1>1. /\ Floor \in Nat /\ FallbackW \in Nat
      /\ pl1_w # None => FallbackW <= pl1_w
  BY LimitFacts
<1>2. Ceiling(gap, temp) \in Nat
  BY CeilingFacts
<1>3. pl1_w \in Nat \cup {None} /\ cfg.static_cap_w \in Nat /\ state \in States
  BY ConfigFacts DEF TypeOK
<1>4. From \in Nat
  BY <1>1, <1>3 DEF From, Resume, None
<1>5. state \in DynStates \cup {"FALLBACK"} /\ pl1_w # None => From <= pl1_w
  BY <1>1, <1>3 DEF From, Resume, None, DynStates
<1> QED
  BY <1>1, <1>2, <1>3, <1>4, <1>5 DEF Start, Min2, Max2, None

\* The ages stay in range.
LEMMA AgeFacts ==
  ASSUME NEW limit \in Nat, NEW gap \in Gaps
  PROVE  /\ \A age \in 0..limit : Aged(age, gap, limit) \in 0..limit
         /\ \A age \in 0..limit \cup {None} :
              AgedOpt(age, gap, limit) \in 0..limit \cup {None}
BY GovernorAssumption DEF Aged, AgedOpt, Min2, None

-----------------------------------------------------------------------------
(* Type correctness *)

\* What Enter does to the state and the command.
LEMMA EnterFacts ==
  ASSUME TypeOK, NEW gap \in Gaps, NEW out \in Outcomes, NEW w \in Nat,
         NEW new \in DynStates, Enter(new, w, gap, out)
  PROVE  /\ state' = new
         /\ \E w2 \in Nat : WriteEffect(w, w2, Resume)
<1>1. w + Burst \in Nat /\ Resume \in BOOLEAN
  BY GovernorAssumption DEF Resume
<1>2. PICK w2 \in Nat : Write(w, w2, Resume, gap, out)
  BY <1>1 DEF Enter
<1>3. WriteEffect(w, w2, Resume)
  BY <1>1, <1>2, WriteFacts
<1> QED
  BY <1>3 DEF Enter

\* One step keeps every variable in its type.
LEMMA TypeStep ==
  ASSUME TypeOK, NEW gap \in Gaps, NEW in \in Inputs, NEW temp \in Temps,
         NEW out \in Outcomes, TickOn(gap, in, temp, out)
  PROVE  TypeOK'
<1> DEFINE WriteTypes ==
      /\ pl1_w' \in Nat \cup {None} /\ pl2_w' \in Nat \cup {None}
      /\ since_write' \in 0..ReassertAfter
      /\ readback' \in {"none", "ok", "failed"}
      /\ hw_pl1' \in Nat /\ hw_pl2' \in Nat
<1>1. ASSUME NEW w1 \in Nat, NEW w2 \in Nat, NEW force,
             WriteEffect(w1, w2, force)
      PROVE  WriteTypes
  BY <1>1, ClampFacts DEF WriteEffect
<1>2. NoWrite(gap) => WriteTypes
  BY AgeFacts, GovernorAssumption DEF NoWrite, TypeOK
<1>3. ASSUME NEW w1 \in Nat, NEW w2 \in Nat, NEW force \in BOOLEAN,
             Write(w1, w2, force, gap, out)
      PROVE  WriteTypes
  BY <1>1, <1>3, WriteFacts
<1>4. ASSUME NEW w \in Nat, NEW new \in DynStates, Enter(new, w, gap, out)
      PROVE  WriteTypes /\ state' \in States
  BY <1>1, <1>4, EnterFacts DEF States
<1>5. /\ cfg.static_cap_w \in Nat /\ Floor \in Nat /\ Top \in Nat
      /\ FallbackW \in Nat
      /\ Ceiling(gap, temp) \in Nat /\ Start(gap, temp) \in Nat
  BY ConfigFacts, LimitFacts, CeilingFacts, StartFacts DEF TypeOK
<1> HIDE DEF WriteTypes
<1>6. /\ AgeCut(gap) => since_cut' \in 0..CutMinInterval
      /\ AgeThermal(gap) => since_thermal' \in 0..ThermalInterval
      /\ AgeBelow(gap) \/ ClearBelow =>
           /\ below_shed' \in 0..EmergencyHold \cup {None}
           /\ below_recover' \in 0..RecoverInterval \cup {None}
  <2>1. AgeCut(gap) => since_cut' \in 0..CutMinInterval
    BY AgeFacts, GovernorAssumption DEF TypeOK, AgeCut
  <2>2. AgeThermal(gap) => since_thermal' \in 0..ThermalInterval
    BY AgeFacts, GovernorAssumption DEF TypeOK, AgeThermal
  <2>3. AgeBelow(gap) => below_shed' \in 0..EmergencyHold \cup {None}
    BY AgeFacts, GovernorAssumption DEF TypeOK, AgeBelow
  <2>4. AgeBelow(gap) => below_recover' \in 0..RecoverInterval \cup {None}
    BY AgeFacts, GovernorAssumption, SMTT(30) DEF TypeOK, AgeBelow
  <2> QED
    BY <2>1, <2>2, <2>3, <2>4 DEF ClearBelow
<1>7. /\ PastReadback(gap) => /\ retry_in' \in 0..BackoffMax \cup {None}
                              /\ backoff_s' \in 0..BackoffMax
      /\ Thermal(gap, temp) => /\ thermal_cap_w' \in Nat \cup {None}
                               /\ since_thermal' \in 0..ThermalInterval
  <2>1. PastReadback(gap) => /\ retry_in' \in 0..BackoffMax \cup {None}
                             /\ backoff_s' \in 0..BackoffMax
    BY GovernorAssumption
    DEF PastReadback, RetryTaken, BackoffAfterReadback, TypeOK
  <2>2. Thermal(gap, temp) => /\ thermal_cap_w' \in Nat \cup {None}
                              /\ since_thermal' \in 0..ThermalInterval
    BY <1>5, AgeFacts, GovernorAssumption DEF Thermal, TypeOK
  <2> QED
    BY <2>1, <2>2
<1>8. Step(gap, in, temp, out) =>
        /\ WriteTypes
        /\ state' \in States
        /\ since_cut' \in 0..CutMinInterval
        /\ since_thermal' \in 0..ThermalInterval
        /\ below_shed' \in 0..EmergencyHold \cup {None}
        /\ below_recover' \in 0..RecoverInterval \cup {None}
        /\ retry_in' \in 0..BackoffMax \cup {None}
        /\ backoff_s' \in 0..BackoffMax
        /\ thermal_cap_w' \in Nat \cup {None}
  <2> DEFINE StepTypes ==
        /\ WriteTypes
        /\ state' \in States
        /\ since_cut' \in 0..CutMinInterval
        /\ since_thermal' \in 0..ThermalInterval
        /\ below_shed' \in 0..EmergencyHold \cup {None}
        /\ below_recover' \in 0..RecoverInterval \cup {None}
        /\ retry_in' \in 0..BackoffMax \cup {None}
        /\ backoff_s' \in 0..BackoffMax
        /\ thermal_cap_w' \in Nat \cup {None}
  <2>1. CASE StepOff(gap, in, temp, out)
    BY <2>1, <1>2, <1>3, <1>5, <1>6 DEF StepOff, TypeOK, States
  <2>2. CASE StepReadbackFailed(gap, in, temp, out)
    <3>1. NextBackoff \in 0..BackoffMax
      BY GovernorAssumption DEF NextBackoff, Min2, TypeOK
    <3> QED
      BY <2>2, <3>1, <1>2, <1>3, <1>5, <1>6
      DEF StepReadbackFailed, TypeOK, States
  <2>3. CASE StepWaiting(gap, in, temp, out)
    <3>1. retry_in' \in 0..BackoffMax \cup {None}
      BY <2>3, GovernorAssumption DEF StepWaiting, Waiting, TypeOK, None
    <3> QED
      BY <2>3, <3>1, <1>2, <1>3, <1>5, <1>6 DEF StepWaiting, TypeOK
  <2>4. CASE StepStatic(gap, in, temp, out)
    BY <2>4, <1>3, <1>5, <1>6, <1>7 DEF StepStatic, TypeOK, States
  <2>5. CASE StepStale(gap, in, temp, out)
    BY <2>5, <1>3, <1>5, <1>6, <1>7 DEF StepStale, Retried, TypeOK, States
  <2>6. CASE StepNoSample(gap, in, temp, out)
    <3>1. (IF Resume THEN NormalIfTop(Start(gap, temp)) ELSE state) \in DynStates
      BY DEF Resume, NormalIfTop, DynStates
    <3> QED
      BY <2>6, <3>1, <1>4, <1>5, <1>6, <1>7 DEF StepNoSample, Dynamic
  <2>7. CASE StepEmergency(gap, in, temp, out)
    BY <2>7, <1>4, <1>5, <1>6, <1>7 DEF StepEmergency, Dynamic, DynStates
  <2>8. CASE StepShed(gap, in, temp, out)
    <3>1. Max2(Floor, Start(gap, temp) - CutStep) \in Nat
      BY <1>5, GovernorAssumption DEF Max2
    <3>2. since_cut' \in 0..CutMinInterval
      BY <2>8, AgeFacts, GovernorAssumption DEF StepShed, TypeOK
    <3> QED
      BY <2>8, <3>1, <3>2, <1>4, <1>5, <1>6, <1>7
      DEF StepShed, Dynamic, DynStates
  <2>9. CASE StepHold(gap, in, temp, out)
    <3>1. below_shed' \in 0..EmergencyHold \cup {None}
      BY <2>9, AgeFacts, GovernorAssumption DEF StepHold, TypeOK
    <3>2. below_recover' \in 0..RecoverInterval \cup {None}
      BY <2>9, AgeFacts, GovernorAssumption DEF StepHold, TypeOK
    <3> QED
      BY <2>9, <3>1, <3>2, <1>4, <1>5, <1>6, <1>7
      DEF StepHold, Dynamic, DynStates
  <2>10. CASE StepRecover(gap, in, temp, out)
    <3>1. Min2(Ceiling(gap, temp), Start(gap, temp) + RecoverStep) \in Nat
      BY <1>5, GovernorAssumption DEF Min2
    <3>2. below_shed' \in 0..EmergencyHold \cup {None}
      BY <2>10, AgeFacts, GovernorAssumption DEF StepRecover, TypeOK
    <3>3. below_recover' \in 0..RecoverInterval \cup {None}
      BY <2>10, AgeFacts, GovernorAssumption DEF StepRecover, TypeOK
    <3>4. \A w \in Nat : NormalIfTop(w) \in DynStates
      BY DEF NormalIfTop, DynStates
    <3> QED
      BY <2>10, <3>1, <3>2, <3>3, <3>4, <1>4, <1>5, <1>6, <1>7
      DEF StepRecover, Dynamic
  <2> QED
    BY <2>1, <2>2, <2>3, <2>4, <2>5, <2>6, <2>7, <2>8, <2>9, <2>10 DEF Step
<1>9. /\ cfg' \in Configs /\ cfg_seen' \in Configs
      /\ since_valid' \in 0..StaleTimeout
      /\ emergency_run' \in 0..3
      /\ calm' \in 0..RecoverInterval \cup {None}
      /\ calm_any' \in 0..RecoverInterval \cup {None}
  <2>1. since_valid' \in 0..StaleTimeout
    BY AgeFacts, GovernorAssumption DEF TickOn, SinceValid, TypeOK
  <2>2. emergency_run' \in 0..3
    BY DEF TickOn, Observe, TypeOK, Min2
  <2> DEFINE Ages == 0..RecoverInterval \cup {None}
  <2>5. /\ AgedOpt(calm, gap, RecoverInterval) \in Ages
        /\ AgedOpt(calm_any, gap, RecoverInterval) \in Ages
        /\ 0 \in Ages /\ None \in Ages
    BY AgeFacts, GovernorAssumption, SMTT(30) DEF TypeOK
  <2> HIDE DEF Ages
  <2>3. calm' \in Ages
    BY <2>5 DEF TickOn, Observe
  <2>4. calm_any' \in Ages
    BY <2>5 DEF TickOn, Observe
  <2> QED
    BY <2>1, <2>2, <2>3, <2>4 DEF TickOn, Observe, TypeOK, Ages
<1> QED
  BY <1>8, <1>9 DEF TickOn, TypeOK, WriteTypes

\* Type correctness of the governor, its timers and the limits in force.
THEOREM GovernorTypes == Spec => []TypeOK
<1>1. Init => TypeOK
  <2> SUFFICES ASSUME Init PROVE TypeOK
    OBVIOUS
  <2>1. FloorUnit(Cap1(cfg.static_cap_w)) \in Nat
    BY ConfigFacts, ClampFacts, FloorUnitNat DEF Init
  <2> QED
    BY <2>1, GovernorAssumption DEF Init, TypeOK, States
<1>2. TypeOK /\ [Next]_vars => TypeOK'
  <2> SUFFICES ASSUME TypeOK, [Next]_vars PROVE TypeOK'
    OBVIOUS
  <2>1. CASE Tick
    BY <2>1, TypeStep DEF Tick
  <2>2. CASE SetConfig
    BY <2>2 DEF SetConfig, TypeOK, govVars, hwVars, histVars
  <2>3. CASE UNCHANGED vars
    BY <2>3 DEF vars, TypeOK, govVars, hwVars, histVars
  <2> QED
    BY <2>1, <2>2, <2>3 DEF Next
<1> QED
  BY <1>1, <1>2, PTL DEF Spec

-----------------------------------------------------------------------------
(* Commands, readbacks and retries *)

\* The part of the invariant that is about writing: it stands on its own.
WriteInv ==
  /\ ReadbackIsFresh /\ Commanded /\ InForceAsCommanded
  /\ RetryWithinBackoff /\ RetryBeforeReassert /\ ReassertedInTime
  /\ FallbackTimers

\* Past the readback check and the wait, no retry is pending any more.
LEMMA RetryGone ==
  ASSUME NEW gap \in Gaps, RetryWithinBackoff, PastReadback(gap)
  PROVE  retry_in' = None
BY DEF RetryWithinBackoff, PastReadback, RetryTaken, Retried

\* A dynamic step preserves WriteInv.
LEMMA DynamicWriteInv ==
  ASSUME TypeOK, WriteInv, NEW gap \in Gaps, NEW out \in Outcomes,
         NEW w \in Nat, NEW new \in DynStates,
         PastReadback(gap), Enter(new, w, gap, out)
  PROVE  WriteInv'
<1>1. PICK w2 \in Nat : state' = new /\ WriteEffect(w, w2, Resume)
  BY EnterFacts
<1>2. retry_in' = None
  BY RetryGone DEF WriteInv
<1>3. Cap1(w) \in Nat /\ Cap2(w2) \in Nat
  BY ClampFacts
<1>4. pl1_w' # None /\ pl2_w' # None
  BY <1>1, <1>3 DEF WriteEffect, None
<1>5. state' \notin {"OFF", "FALLBACK"}
  BY <1>1 DEF DynStates
<1>6. Resume \/ (/\ pl1_w # None /\ pl2_w # None
                 /\ hw_pl1 = FloorUnit(pl1_w) /\ hw_pl2 = FloorUnit(pl2_w))
  BY DEF Resume, WriteInv, InForceAsCommanded, PastReadback, DynStates
<1>7. readback' # "failed" =>
        hw_pl1' = FloorUnit(pl1_w') /\ hw_pl2' = FloorUnit(pl2_w')
  BY <1>1, <1>6 DEF WriteEffect
<1>8. since_write' < ReassertAfter /\ (readback' # "none" => since_write' = 0)
  BY <1>1 DEF WriteEffect
<1> QED
  BY <1>2, <1>4, <1>5, <1>7, <1>8
  DEF WriteInv, ReadbackIsFresh, Commanded, InForceAsCommanded,
      RetryWithinBackoff, RetryBeforeReassert, ReassertedInTime,
      FallbackTimers

\* A forced write of w1 and w2 has the effect the rest of the proof uses.
LEMMA ForcedWrite ==
  ASSUME TypeOK, NEW gap \in Gaps, NEW out \in Outcomes,
         NEW w1 \in Nat, NEW w2 \in Nat, NEW force \in BOOLEAN,
         Write(w1, w2, force, gap, out)
  PROVE  /\ pl1_w' = Cap1(w1) /\ pl2_w' = Cap2(w2)
         /\ pl1_w' # None /\ pl2_w' # None
         /\ since_write' \in Nat /\ since_write' < ReassertAfter
         /\ force => since_write' = 0
         /\ readback' # "none" => since_write' = 0
<1>1. WriteEffect(w1, w2, force)
  BY WriteFacts
<1>2. Cap1(w1) \in Nat /\ Cap2(w2) \in Nat
  BY ClampFacts
<1>3. force => since_write' = 0
  BY DEF Write
<1> QED
  BY <1>1, <1>2, <1>3, GovernorAssumption DEF WriteEffect, None

\* Every step preserves WriteInv.
LEMMA WriteInvStep ==
  ASSUME TypeOK, WriteInv, NEW gap \in Gaps, NEW in \in Inputs,
         NEW temp \in Temps, NEW out \in Outcomes, TickOn(gap, in, temp, out)
  PROVE  WriteInv'
<1> USE DEF WriteInv, ReadbackIsFresh, Commanded, InForceAsCommanded,
            RetryWithinBackoff, RetryBeforeReassert, ReassertedInTime,
            FallbackTimers
<1>1. /\ cfg.static_cap_w \in Nat /\ Floor \in Nat /\ FallbackW \in Nat
      /\ Start(gap, temp) \in Nat /\ Ceiling(gap, temp) \in Nat
  BY ConfigFacts, LimitFacts, StartFacts, CeilingFacts DEF TypeOK
<1>2. /\ gap \in Nat \ {0} /\ BackoffMax \in Nat /\ ReassertAfter \in Nat
      /\ BackoffMax + gap < ReassertAfter
      /\ since_write \in 0..ReassertAfter
      /\ retry_in \in 0..BackoffMax \cup {None}
      /\ backoff_s \in 0..BackoffMax
  BY GovernorAssumption DEF TypeOK
<1>3. AgeBelow(gap) /\ state = "FALLBACK" => below_shed' = None /\ below_recover' = None
  BY DEF AgeBelow, AgedOpt
<1>4. CASE StepOff(gap, in, temp, out)
  <2>1. state' = "OFF" /\ retry_in' = None
    BY <1>4 DEF StepOff
  <2>2. readback' # "none" => since_write' = 0 /\ pl1_w' # None
    BY <1>1, <1>4, ForcedWrite DEF StepOff, NoWrite
  <2> QED
    BY <2>1, <2>2
<1>5. CASE StepReadbackFailed(gap, in, temp, out)
  <2>1. since_write = 0
    BY <1>5 DEF StepReadbackFailed
  <2>2. /\ retry_in' \in Nat /\ retry_in' <= BackoffMax
        /\ retry_in' = backoff_s' /\ state' = "FALLBACK"
    BY <1>2, <1>5, GovernorAssumption DEF StepReadbackFailed, NextBackoff, Min2
  <2>3. retry_in' < ReassertAfter /\ gap + retry_in' < ReassertAfter
    <3>1. \A r \in Nat : r <= BackoffMax =>
            r < ReassertAfter /\ gap + r < ReassertAfter
      BY GovernorAssumption
    <3> QED
      BY <2>2, <3>1
  <2>4. CASE state # "FALLBACK" /\ ClearBelow
             /\ Write(FallbackW, FallbackW, TRUE, gap, out)
    <3>1. pl1_w' # None /\ pl2_w' # None /\ since_write' = 0
      BY <1>1, <2>4, ForcedWrite
    <3>2. since_write' + retry_in' < ReassertAfter
      <4>1. 0 + retry_in' < ReassertAfter
        BY <2>2, <2>3
      <4> QED
        BY <3>1, <4>1
    <3>3. retry_in' <= backoff_s' /\ since_write' < ReassertAfter
      BY <1>2, <2>2, <3>1
    <3> QED
      BY <2>2, <2>4, <3>1, <3>2, <3>3 DEF ClearBelow
  <2>5. CASE state = "FALLBACK" /\ AgeBelow(gap) /\ NoWrite(gap)
    <3>1. since_write' = gap
      BY <1>2, <2>1, <2>5 DEF NoWrite, Aged, Min2
    <3>2. pl1_w' # None /\ pl2_w' # None /\ readback' = "none"
      BY <2>5 DEF NoWrite
    <3>3. since_write' + retry_in' < ReassertAfter
      BY <2>3, <3>1
    <3>4. retry_in' <= backoff_s' /\ since_write' < ReassertAfter
      BY <1>2, <2>2, <3>1
    <3> QED
      BY <1>3, <2>2, <2>5, <3>2, <3>3, <3>4
  <2> QED
    BY <1>5, <2>4, <2>5 DEF StepReadbackFailed
<1>6. CASE StepWaiting(gap, in, temp, out)
  <2>1. /\ state = "FALLBACK" /\ state' = "FALLBACK"
        /\ retry_in \in 0..BackoffMax /\ retry_in > gap
        /\ retry_in' = retry_in - gap /\ backoff_s' = backoff_s
        /\ below_shed' = None /\ below_recover' = None
    BY <1>2, <1>3, <1>6 DEF StepWaiting, Waiting
  <2>2. since_write + retry_in < ReassertAfter /\ retry_in <= backoff_s
    BY <1>2, <2>1 DEF None
  <2>3. CASE Write(Floor, Floor, TRUE, gap, out)
    <3>1. pl1_w' # None /\ pl2_w' # None /\ since_write' = 0
      BY <1>1, <2>3, ForcedWrite
    <3>2. since_write' + retry_in' < ReassertAfter /\ retry_in' <= backoff_s'
      BY <1>2, <2>1, <2>2, <3>1
    <3> QED
      BY <1>2, <2>1, <3>1, <3>2
  <2>4. CASE NoWrite(gap)
    <3>1. since_write' = since_write + gap
      BY <1>2, <2>1, <2>2, <2>4 DEF NoWrite, Aged, Min2
    <3> QED
      BY <1>2, <2>1, <2>2, <2>4, <3>1 DEF NoWrite
  <2> QED
    BY <1>6, <2>3, <2>4 DEF StepWaiting
<1>7. CASE StepStatic(gap, in, temp, out)
  <2>1. retry_in' = None /\ state' = "STATIC"
    BY <1>7, RetryGone DEF StepStatic
  <2>2. WriteEffect(cfg.static_cap_w, cfg.static_cap_w, state # "STATIC")
    BY <1>1, <1>7, WriteFacts DEF StepStatic
  <2>3. pl1_w' # None /\ pl2_w' # None
    BY <1>1, <1>7, ForcedWrite DEF StepStatic
  <2>4. readback # "failed"
    BY <1>7 DEF StepStatic, PastReadback
  <2> QED
    BY <2>1, <2>2, <2>3, <2>4 DEF WriteEffect
<1>8. CASE StepStale(gap, in, temp, out)
  <2>1. retry_in' = None /\ state' = "FALLBACK"
    BY <1>8, RetryGone DEF StepStale
  <2>2. below_shed' = None /\ below_recover' = None
    BY <1>3, <1>8 DEF StepStale, ClearBelow
  <2>3. PICK force \in BOOLEAN : Write(FallbackW, FallbackW, force, gap, out)
    BY <1>8 DEF StepStale, Retried
  <2> QED
    BY <1>1, <2>1, <2>2, <2>3, ForcedWrite
<1> HIDE DEF WriteInv, ReadbackIsFresh, Commanded, InForceAsCommanded,
             RetryWithinBackoff, RetryBeforeReassert, ReassertedInTime,
             FallbackTimers
<1> DEFINE Enters == /\ PastReadback(gap)
                     /\ \E w \in Nat, new \in DynStates : Enter(new, w, gap, out)
<1>9. Enters => WriteInv'
  BY DynamicWriteInv
<1> USE DEF Dynamic
<1>10. CASE StepNoSample(gap, in, temp, out)
  <2>1. (IF Resume THEN NormalIfTop(Start(gap, temp)) ELSE state) \in DynStates
    BY DEF Resume, NormalIfTop, DynStates
  <2> QED
    BY <1>1, <1>9, <1>10, <2>1 DEF StepNoSample
<1>11. CASE StepEmergency(gap, in, temp, out)
  BY <1>1, <1>9, <1>11 DEF StepEmergency, DynStates
<1>12. CASE StepShed(gap, in, temp, out)
  <2>1. Max2(Floor, Start(gap, temp) - CutStep) \in Nat
    BY <1>1, GovernorAssumption DEF Max2
  <2> QED
    BY <1>1, <1>9, <1>12, <2>1 DEF StepShed, DynStates
<1>13. CASE StepHold(gap, in, temp, out)
  BY <1>1, <1>9, <1>13 DEF StepHold, DynStates
<1>14. CASE StepRecover(gap, in, temp, out)
  <2>1. Min2(Ceiling(gap, temp), Start(gap, temp) + RecoverStep) \in Nat
    BY <1>1, GovernorAssumption DEF Min2
  <2>2. \A w \in Nat : NormalIfTop(w) \in DynStates
    BY DEF NormalIfTop, DynStates
  <2> QED
    BY <1>1, <1>9, <1>14, <2>1, <2>2 DEF StepRecover
<1> QED
  BY <1>4, <1>5, <1>6, <1>7, <1>8, <1>10, <1>11, <1>12, <1>13, <1>14
  DEF TickOn, Step

\* WriteInv is an invariant.
LEMMA WriteInvInvariant == Spec => []WriteInv
<1> USE DEF WriteInv, ReadbackIsFresh, Commanded, InForceAsCommanded,
            RetryWithinBackoff, RetryBeforeReassert, ReassertedInTime,
            FallbackTimers
<1>1. Init => WriteInv
  BY DEF Init
<1>2. TypeOK /\ WriteInv /\ [Next]_vars => WriteInv'
  <2> SUFFICES ASSUME TypeOK, WriteInv, [Next]_vars PROVE WriteInv'
    OBVIOUS
  <2>1. CASE Tick
    BY <2>1, WriteInvStep DEF Tick
  <2>2. CASE SetConfig
    BY <2>2 DEF SetConfig, govVars, hwVars, histVars
  <2>3. CASE UNCHANGED vars
    BY <2>3 DEF vars, govVars, hwVars, histVars
  <2> QED
    BY <2>1, <2>2, <2>3 DEF Next
<1> QED
  BY <1>1, <1>2, GovernorTypes, PTL DEF Spec

\* In every governed state but FALLBACK, the limits in force are the limits
\* last commanded, unless a failed readback is about to be handed over.
THEOREM CommandsAreInForce == Spec => []InForceAsCommanded
<1>1. WriteInv => InForceAsCommanded
  BY DEF WriteInv
<1> QED
  BY <1>1, WriteInvInvariant, PTL

\* No governed state goes ReassertAfter without a write, whatever the retries.
THEOREM LimitsReasserted == Spec => []ReassertedInTime
<1>1. WriteInv => ReassertedInTime
  BY DEF WriteInv
<1> QED
  BY <1>1, WriteInvInvariant, PTL

\* A retry is pending only in FALLBACK and waits no longer than its backoff.
THEOREM RetriesBounded == Spec => []RetryWithinBackoff
<1>1. WriteInv => RetryWithinBackoff
  BY DEF WriteInv
<1> QED
  BY <1>1, WriteInvInvariant, PTL

-----------------------------------------------------------------------------
(* The limits that dynamic mode commands *)

\* The limit w behind the PL1 of a dynamic step: the floor, or a limit under
\* the effective ceiling, raised at most by the recover rule.
DynamicLimit(w, gap, in, temp) ==
  /\ pl1_w' = Cap1(w)
  /\ Thermal(gap, temp)
  /\ w = Floor \/ w <= Ceiling(gap, temp)
  /\ \/ w <= Max2(Start(gap, temp), Floor)
     \/ /\ in = "low" /\ below_recover # None
        /\ below_recover + gap >= RecoverInterval
        /\ w <= Start(gap, temp) + RecoverStep
  /\ state' = "NORMAL" /\ in # "invalid" => w >= Top /\ w <= Ceiling(gap, temp)

LEMMA DynamicLimitFacts ==
  ASSUME TypeOK, NEW gap \in Gaps, NEW in \in Inputs, NEW temp \in Temps,
         NEW out \in Outcomes, TickOn(gap, in, temp, out), state' \in DynStates
  PROVE  \E w \in Nat : DynamicLimit(w, gap, in, temp)
<1>1. /\ Floor \in Nat /\ Top \in Nat
      /\ Start(gap, temp) \in Nat /\ Ceiling(gap, temp) \in Nat
      /\ Start(gap, temp) <= Ceiling(gap, temp)
  BY LimitFacts, StartFacts, CeilingFacts
<1>2. ASSUME NEW w \in Nat, NEW new \in DynStates, Enter(new, w, gap, out)
      PROVE  pl1_w' = Cap1(w) /\ state' = new
  BY <1>2, EnterFacts DEF WriteEffect
<1>3. ~StepOff(gap, in, temp, out) /\ ~StepReadbackFailed(gap, in, temp, out)
  BY DEF StepOff, StepReadbackFailed, DynStates
<1>4. ~StepWaiting(gap, in, temp, out)
  BY DEF StepWaiting, Waiting, DynStates
<1>5. ~StepStatic(gap, in, temp, out) /\ ~StepStale(gap, in, temp, out)
  BY DEF StepStatic, StepStale, DynStates
<1>6. CASE StepNoSample(gap, in, temp, out)
  <2>1. (IF Resume THEN NormalIfTop(Start(gap, temp)) ELSE state) \in DynStates
    BY DEF Resume, NormalIfTop, DynStates
  <2>2. DynamicLimit(Start(gap, temp), gap, in, temp)
    BY <1>1, <1>2, <1>6, <2>1 DEF StepNoSample, Dynamic, DynamicLimit, Max2
  <2> QED
    BY <1>1, <2>2
<1>7. CASE StepEmergency(gap, in, temp, out)
  <2>1. pl1_w' = Cap1(Floor) /\ state' = "EMERGENCY"
    BY <1>1, <1>2, <1>7 DEF StepEmergency, DynStates
  <2>2. DynamicLimit(Floor, gap, in, temp)
    BY <1>1, <1>7, <2>1 DEF StepEmergency, Dynamic, DynamicLimit, Max2
  <2> QED
    BY <1>1, <2>2
<1>8. CASE StepShed(gap, in, temp, out)
  <2> DEFINE start == Start(gap, temp)
             cut   == /\ state # "EMERGENCY" /\ start > Floor
                      /\ since_cut + gap >= CutMinInterval
             w     == IF cut THEN Max2(Floor, start - CutStep) ELSE start
             new   == IF state = "EMERGENCY" THEN state ELSE "TRIM"
  <2>1. w \in Nat /\ w <= start
    BY <1>1, GovernorAssumption DEF Max2
  <2>2. new \in DynStates /\ new # "NORMAL"
    BY DEF DynStates
  <2>3. Enter(new, w, gap, out)
    BY <1>8 DEF StepShed
  <2> HIDE DEF w, new
  <2>4. pl1_w' = Cap1(w) /\ state' = new
    BY <1>2, <2>1, <2>2, <2>3
  <2>5. DynamicLimit(w, gap, in, temp)
    BY <1>1, <1>8, <2>1, <2>2, <2>4 DEF StepShed, Dynamic, DynamicLimit, Max2
  <2> QED
    BY <2>1, <2>5
<1>9. CASE StepHold(gap, in, temp, out)
  <2>1. pl1_w' = Cap1(Start(gap, temp)) /\ state' \in {"TRIM", "EMERGENCY"}
    BY <1>1, <1>2, <1>9 DEF StepHold, DynStates
  <2>2. DynamicLimit(Start(gap, temp), gap, in, temp)
    BY <1>1, <1>9, <2>1 DEF StepHold, Dynamic, DynamicLimit, Max2
  <2> QED
    BY <1>1, <2>2
<1>10. CASE StepRecover(gap, in, temp, out)
  <2> DEFINE start == Start(gap, temp)
             raise == /\ in = "low" /\ below_recover # None
                      /\ below_recover + gap >= RecoverInterval
                      /\ start < Ceiling(gap, temp)
             w     == IF raise THEN Min2(Ceiling(gap, temp), start + RecoverStep)
                      ELSE start
  <2>1. /\ w \in Nat /\ w <= Ceiling(gap, temp)
        /\ raise => w <= start + RecoverStep
        /\ ~raise => w = start
    BY <1>1, GovernorAssumption DEF Min2
  <2>2. NormalIfTop(w) \in DynStates /\ (NormalIfTop(w) = "NORMAL" => w >= Top)
    BY DEF NormalIfTop, DynStates
  <2>3. Enter(NormalIfTop(w), w, gap, out)
    BY <1>10 DEF StepRecover
  <2> HIDE DEF w
  <2>4. pl1_w' = Cap1(w) /\ state' = NormalIfTop(w)
    BY <1>2, <2>1, <2>2, <2>3
  <2>5. w <= Max2(start, Floor) \/ raise
    BY <1>1, <2>1 DEF Max2
  <2>6. DynamicLimit(w, gap, in, temp)
    BY <1>10, <2>1, <2>2, <2>4, <2>5 DEF StepRecover, Dynamic, DynamicLimit
  <2> QED
    BY <2>1, <2>6
<1> QED
  BY <1>3, <1>4, <1>5, <1>6, <1>7, <1>8, <1>9, <1>10 DEF TickOn, Step

\* PL1 stays under the effective ceiling, and NORMAL means the top.
CeilingInv == UnderEffectiveCeiling /\ NormalAtTop

LEMMA CeilingStep ==
  ASSUME TypeOK, NEW gap \in Gaps, NEW in \in Inputs, NEW temp \in Temps,
         NEW out \in Outcomes, TickOn(gap, in, temp, out), state' \in DynStates
  PROVE  CeilingInv'
<1>1. PICK w \in Nat : DynamicLimit(w, gap, in, temp)
  BY DynamicLimitFacts
<1>2. /\ Floor \in Nat /\ Top \in Nat /\ Cap1(Floor) <= Top
      /\ \A v \in Nat : v <= Top => Cap1(v) = v
      /\ Cap1(Floor) \in Nat /\ Cap1(Floor) <= Floor
  BY LimitFacts, ClampFacts
<1>3. /\ Ceiling(gap, temp) \in Nat /\ Ceiling(gap, temp) <= Top
      /\ Ceiling(gap, temp) < Top => Floor <= Ceiling(gap, temp)
  BY CeilingFacts
<1>4. Cap1(Max2(cfg_seen.ceiling_w, cfg_seen.static_cap_w))' = Top
  BY DEF TickOn, Observe, Top, Cap1, Min2, Max2
<1>5. pl1_w' = Cap1(w) /\ (w = Floor \/ w <= Ceiling(gap, temp))
  BY <1>1 DEF DynamicLimit
<1>6. /\ pl1_w' <= Top
      /\ Ceiling(gap, temp) < Top => pl1_w' <= Ceiling(gap, temp)
  <2>1. CASE w = Floor
    BY <1>2, <1>3, <1>5, <2>1
  <2>2. CASE w <= Ceiling(gap, temp)
    <3>1. Cap1(w) = w
      BY <1>2, <1>3, <2>2
    <3> QED
      BY <1>2, <1>3, <1>5, <2>2, <3>1
  <2> QED
    BY <1>5, <2>1, <2>2
<1>7. thermal_cap_w' # None =>
        thermal_cap_w' = Ceiling(gap, temp) /\ Ceiling(gap, temp) < Top
  BY <1>1 DEF DynamicLimit, Thermal
<1>8. UnderEffectiveCeiling'
  BY <1>4, <1>6, <1>7 DEF UnderEffectiveCeiling
<1>9. since_valid' = 0 => in # "invalid"
  BY GovernorAssumption DEF TickOn, SinceValid, Aged, Min2, TypeOK
<1>10. state' = "NORMAL" /\ in # "invalid" => pl1_w' = Top
  <2> SUFFICES ASSUME state' = "NORMAL", in # "invalid" PROVE pl1_w' = Top
    OBVIOUS
  <2>1. w >= Top /\ w <= Ceiling(gap, temp)
    BY <1>1 DEF DynamicLimit
  <2>2. w = Top
    BY <1>2, <1>3, <2>1
  <2> QED
    BY <1>2, <1>5, <2>2
<1>11. NormalAtTop'
  BY <1>4, <1>9, <1>10 DEF NormalAtTop
<1> QED
  BY <1>8, <1>11 DEF CeilingInv

LEMMA CeilingInvariant == Spec => []CeilingInv
<1>1. Init => CeilingInv
  BY DEF Init, CeilingInv, UnderEffectiveCeiling, NormalAtTop, DynStates
<1>2. TypeOK /\ CeilingInv /\ [Next]_vars => CeilingInv'
  <2> SUFFICES ASSUME TypeOK, CeilingInv, [Next]_vars PROVE CeilingInv'
    OBVIOUS
  <2>1. CASE Tick /\ state' \in DynStates
    BY <2>1, CeilingStep DEF Tick
  <2>2. CASE state' \notin DynStates
    BY <2>2 DEF CeilingInv, UnderEffectiveCeiling, NormalAtTop, DynStates
  <2>3. CASE SetConfig \/ UNCHANGED vars
    BY <2>3 DEF SetConfig, vars, govVars, hwVars, histVars,
                CeilingInv, UnderEffectiveCeiling, NormalAtTop, Cap1, Min2, Max2
  <2> QED
    BY <2>1, <2>2, <2>3 DEF Next
<1> QED
  BY <1>1, <1>2, GovernorTypes, PTL DEF Spec

\* PL1 never exceeds the ceiling of the configuration the last step ran with,
\* nor the thermal trim (rule 8).
THEOREM CeilingRespected == Spec => []UnderEffectiveCeiling
<1>1. CeilingInv => UnderEffectiveCeiling
  BY DEF CeilingInv
<1> QED
  BY <1>1, CeilingInvariant, PTL

\* After a valid sample, NORMAL means PL1 at the top of its range (rule 4).
THEOREM NormalMeansTop == Spec => []NormalAtTop
<1>1. CeilingInv => NormalAtTop
  BY DEF CeilingInv
<1> QED
  BY <1>1, CeilingInvariant, PTL

-----------------------------------------------------------------------------
(* Emergencies *)

EmergencyInv == EmergencyHidden /\ EmergencyAnswered

\* A dynamic step on an emergency sample ends at the floor, unless it spent
\* itself on a failed readback.
LEMMA EmergencyCut ==
  ASSUME TypeOK, WriteInv, NEW gap \in Gaps, NEW temp \in Temps,
         NEW out \in Outcomes, TickOn(gap, "emergency", temp, out),
         cfg.mode = "dynamic",
         ~StepReadbackFailed(gap, "emergency", temp, out)
  PROVE  pl1_w' <= Floor /\ pl1_w' \in Nat
<1>1. Floor \in Nat /\ Cap1(Floor) \in Nat /\ Cap1(Floor) <= Floor
  BY LimitFacts, ClampFacts
<1>2. CASE StepWaiting(gap, "emergency", temp, out)
  <2>1. CASE pl1_w = None \/ pl1_w > Floor
    <3>1. Write(Floor, Floor, TRUE, gap, out)
      BY <1>2, <2>1 DEF StepWaiting
    <3>2. pl1_w' = Cap1(Floor)
      BY <1>1, <3>1, ForcedWrite
    <3> QED
      BY <1>1, <3>2
  <2>2. CASE ~(pl1_w = None \/ pl1_w > Floor)
    <3>1. pl1_w' = pl1_w
      BY <1>2, <2>2 DEF StepWaiting, NoWrite
    <3>2. pl1_w \in Nat
      BY <2>2 DEF TypeOK
    <3> QED
      BY <1>1, <2>2, <3>1, <3>2
  <2> QED
    BY <2>1, <2>2
<1>3. CASE StepEmergency(gap, "emergency", temp, out)
  <2>1. Enter("EMERGENCY", Floor, gap, out)
    BY <1>3 DEF StepEmergency
  <2>2. pl1_w' = Cap1(Floor)
    BY <1>1, <2>1, EnterFacts DEF WriteEffect, DynStates
  <2> QED
    BY <1>1, <2>2
<1> QED
  BY <1>2, <1>3
  DEF TickOn, Step, StepOff, StepStatic, StepStale, Stale, StepNoSample,
      StepShed, StepHold, StepRecover

LEMMA EmergencyStep ==
  ASSUME TypeOK, WriteInv, EmergencyInv, NEW gap \in Gaps, NEW in \in Inputs,
         NEW temp \in Temps, NEW out \in Outcomes, TickOn(gap, in, temp, out)
  PROVE  EmergencyInv'
<1>1. FloorSeen' = Floor /\ Floor \in Nat
  BY LimitFacts DEF TickOn, Observe, FloorSeen, Floor, Min2
<1>2. CASE cfg.mode # "dynamic" \/ in # "emergency"
  <2>1. emergency_run' = 0
    BY <1>2 DEF TickOn, Observe
  <2> QED
    BY <2>1 DEF EmergencyInv, EmergencyHidden, EmergencyAnswered
<1>3. CASE /\ cfg.mode = "dynamic" /\ in = "emergency"
           /\ ~StepReadbackFailed(gap, in, temp, out)
  <2>1. pl1_w' <= Floor /\ pl1_w' \in Nat
    BY <1>3, EmergencyCut
  <2>2. ~(pl1_w' > FloorSeen') /\ pl1_w' # None /\ pl1_w' <= FloorSeen'
    BY <1>1, <2>1 DEF None
  <2> QED
    BY <2>2 DEF EmergencyInv, EmergencyHidden, EmergencyAnswered, FloorSeen
<1>4. CASE /\ cfg.mode = "dynamic" /\ in = "emergency"
           /\ StepReadbackFailed(gap, in, temp, out)
  <2>1. state' = "FALLBACK" /\ readback = "failed" /\ pl1_w \in Nat
    BY <1>4 DEF StepReadbackFailed, WriteInv, ReadbackIsFresh, TypeOK
  <2>2. \/ state = "FALLBACK" /\ pl1_w' = pl1_w /\ readback' = "none"
        \/ state # "FALLBACK" /\ pl1_w' = Cap1(FallbackW)
    <3>1. FallbackW \in Nat
      BY LimitFacts
    <3> QED
      BY <1>4, <3>1, ForcedWrite DEF StepReadbackFailed, NoWrite
  <2>3. pl1_w' \in Nat /\ pl1_w' <= pl1_w
    <3>1. /\ FallbackW \in Nat /\ FallbackW <= pl1_w
          /\ Cap1(FallbackW) \in Nat /\ Cap1(FallbackW) <= FallbackW
      BY <2>1, LimitFacts, ClampFacts DEF None
    <3> QED
      BY <2>1, <2>2, <3>1
  <2>4. CASE cfg # cfg_seen
    <3>1. emergency_run' = 1
      BY <1>4, <2>4 DEF TickOn, Observe
    <3> QED
      BY <2>1, <3>1 DEF EmergencyInv, EmergencyHidden, EmergencyAnswered
  <2>5. CASE cfg = cfg_seen
    <3>1. /\ emergency_run' = Min2(emergency_run + 1, 3)
          /\ emergency_run \in 0..3
      BY <1>4, <2>5 DEF TickOn, Observe, TypeOK
    <3>2. FloorSeen = Floor
      BY <2>5 DEF FloorSeen, Floor
    <3>3. CASE emergency_run = 0
      <4>1. emergency_run' = 1
        BY <3>1, <3>3 DEF Min2
      <4> QED
        BY <2>1, <4>1 DEF EmergencyInv, EmergencyHidden, EmergencyAnswered
    <3>4. CASE emergency_run = 1
      <4>1. emergency_run' = 2
        BY <3>1, <3>4 DEF Min2
      <4>2. CASE state = "FALLBACK"
        BY <2>1, <2>2, <4>1, <4>2
        DEF EmergencyInv, EmergencyHidden, EmergencyAnswered
      <4>3. CASE state # "FALLBACK"
        <5>1. ~(pl1_w > FloorSeen)
          BY <3>4, <4>3 DEF EmergencyInv, EmergencyHidden
        <5>2. ~(pl1_w' > FloorSeen')
          BY <1>1, <2>1, <2>3, <3>2, <5>1
        <5> QED
          BY <4>1, <5>2 DEF EmergencyInv, EmergencyHidden, EmergencyAnswered
      <4> QED
        BY <4>2, <4>3
    <3>5. CASE emergency_run \in {2, 3}
      <4>1. emergency_run' = 3
        BY <3>1, <3>5 DEF Min2
      <4>2. pl1_w <= Floor
        <5>1. CASE emergency_run = 2
          <6>1. ~(pl1_w > FloorSeen)
            BY <2>1, <5>1 DEF EmergencyInv, EmergencyHidden
          <6> QED
            BY <1>1, <2>1, <3>2, <6>1
        <5>2. CASE emergency_run = 3
          BY <3>2, <5>2 DEF EmergencyInv, EmergencyAnswered, FloorSeen
        <5> QED
          BY <3>5, <5>1, <5>2
      <4>3. pl1_w' <= Floor /\ pl1_w' # None
        BY <1>1, <2>1, <2>3, <4>2 DEF None
      <4>4. EmergencyAnswered'
        BY <1>1, <4>3 DEF EmergencyAnswered, FloorSeen
      <4> QED
        BY <4>1, <4>4 DEF EmergencyInv, EmergencyHidden
    <3> QED
      BY <3>1, <3>3, <3>4, <3>5
  <2> QED
    BY <2>4, <2>5
<1> QED
  BY <1>2, <1>3, <1>4

\* Three emergency samples in a row leave PL1 commanded at the floor or below,
\* however writes fail in between: failed readbacks hide at most two of them.
THEOREM EmergenciesAnswered == Spec => []EmergencyAnswered
<1>1. Init => EmergencyInv
  BY DEF Init, EmergencyInv, EmergencyHidden, EmergencyAnswered
<1>2. TypeOK /\ WriteInv /\ EmergencyInv /\ [Next]_vars => EmergencyInv'
  <2> SUFFICES ASSUME TypeOK, WriteInv, EmergencyInv, [Next]_vars
               PROVE  EmergencyInv'
    OBVIOUS
  <2>1. CASE Tick
    BY <2>1, EmergencyStep DEF Tick
  <2>2. CASE SetConfig \/ UNCHANGED vars
    BY <2>2 DEF SetConfig, vars, govVars, hwVars, histVars,
                EmergencyInv, EmergencyHidden, EmergencyAnswered, FloorSeen
  <2> QED
    BY <2>1, <2>2 DEF Next
<1>3. EmergencyInv => EmergencyAnswered
  BY DEF EmergencyInv
<1> QED
  BY <1>1, <1>2, <1>3, GovernorTypes, WriteInvInvariant, PTL DEF Spec

-----------------------------------------------------------------------------
(* Recovery *)

CalmInv == TimerBehindCalm /\ EmergencyTimer

\* Growing older keeps the order of two ages.
LEMMA AgeOrder ==
  ASSUME NEW limit \in Nat, NEW gap \in Gaps, NEW a \in 0..limit,
         NEW b \in 0..limit, a >= b
  PROVE  /\ Aged(a, gap, limit) \in Nat /\ Aged(b, gap, limit) \in Nat
         /\ Aged(a, gap, limit) >= Aged(b, gap, limit)
BY GovernorAssumption DEF Aged, Min2

\* A step that lets the recover timer run also lets the calm run, at least as
\* far.
LEMMA CalmStep ==
  ASSUME TypeOK, WriteInv, CalmInv, NEW gap \in Gaps, NEW in \in Inputs,
         NEW temp \in Temps, NEW out \in Outcomes, TickOn(gap, in, temp, out)
  PROVE  CalmInv'
<1>1. /\ RecoverInterval \in Nat
      /\ calm \in 0..RecoverInterval \cup {None}
      /\ below_recover \in 0..RecoverInterval \cup {None}
  BY GovernorAssumption DEF TypeOK
<1>2. CASE below_recover' = None
  BY <1>2 DEF CalmInv, TimerBehindCalm, EmergencyTimer
<1>3. state = "FALLBACK" \/ state = "EMERGENCY" => below_recover = None
  BY DEF WriteInv, FallbackTimers, CalmInv, EmergencyTimer
<1>4. below_recover' = AgedOpt(below_recover, gap, RecoverInterval)
        /\ (cfg.mode # "dynamic" \/ in \in {"low", "invalid"})
      => TimerBehindCalm'
  <2> SUFFICES ASSUME below_recover' = AgedOpt(below_recover, gap, RecoverInterval),
                      cfg.mode # "dynamic" \/ in \in {"low", "invalid"},
                      below_recover' # None
               PROVE  calm' # None /\ calm' >= below_recover'
    BY DEF TimerBehindCalm
  <2>1. /\ below_recover # None
        /\ below_recover' = Aged(below_recover, gap, RecoverInterval)
    BY DEF AgedOpt
  <2>2. calm # None /\ calm >= below_recover
    BY <2>1 DEF CalmInv, TimerBehindCalm
  <2>3. calm' = Aged(calm, gap, RecoverInterval)
    BY <2>2 DEF TickOn, Observe, AgedOpt
  <2>4. calm' \in Nat /\ calm' >= below_recover'
    BY <1>1, <2>1, <2>2, <2>3, AgeOrder
  <2> QED
    BY <2>4 DEF None
<1>5. CASE StepOff(gap, in, temp, out) \/ StepStatic(gap, in, temp, out)
  BY <1>4, <1>5 DEF StepOff, StepStatic, AgeBelow, CalmInv, EmergencyTimer
<1>6. CASE \/ StepReadbackFailed(gap, in, temp, out)
           \/ StepWaiting(gap, in, temp, out)
           \/ StepStale(gap, in, temp, out)
           \/ StepEmergency(gap, in, temp, out)
           \/ StepShed(gap, in, temp, out)
           \/ StepHold(gap, in, temp, out)
  BY <1>2, <1>3, <1>6
  DEF StepReadbackFailed, StepWaiting, Waiting, StepStale, StepEmergency,
      StepShed, StepHold, ClearBelow, AgeBelow, AgedOpt
<1>7. CASE StepNoSample(gap, in, temp, out)
  <2>1. below_recover' = AgedOpt(below_recover, gap, RecoverInterval)
    BY <1>7 DEF StepNoSample, AgeBelow
  <2>2. TimerBehindCalm'
    BY <1>4, <1>7, <2>1 DEF StepNoSample
  <2>3. state' = "EMERGENCY" => state = "EMERGENCY"
    BY <1>7 DEF StepNoSample, Enter, NormalIfTop
  <2>4. EmergencyTimer'
    BY <1>3, <2>1, <2>3 DEF EmergencyTimer, AgedOpt
  <2> QED
    BY <2>2, <2>4 DEF CalmInv
<1>8. CASE StepRecover(gap, in, temp, out)
  <2>1. state' # "EMERGENCY"
    BY <1>8 DEF StepRecover, Enter, NormalIfTop
  <2>2. CASE in = "middle"
    BY <1>2, <1>8, <2>2 DEF StepRecover
  <2>3. CASE in = "low" /\ below_recover' = 0
    <3>1. calm' = 0 \/ (calm # None /\ calm' = Aged(calm, gap, RecoverInterval))
      BY <2>3 DEF TickOn, Observe, AgedOpt
    <3>2. calm' \in Nat
      BY <1>1, <3>1, AgeOrder
    <3> QED
      BY <2>1, <2>3, <3>2 DEF CalmInv, TimerBehindCalm, EmergencyTimer, None
  <2>4. CASE /\ in = "low" /\ below_recover # None
             /\ below_recover' = Aged(below_recover, gap, RecoverInterval)
    BY <1>4, <2>1, <2>4 DEF CalmInv, EmergencyTimer, AgedOpt
  <2> QED
    BY <1>8, <2>2, <2>3, <2>4 DEF StepRecover
<1> QED
  BY <1>5, <1>6, <1>7, <1>8 DEF TickOn, Step

\* A raise above the floor is one recover step, after a full interval of calm.
LEMMA RaiseStep ==
  ASSUME TypeOK, WriteInv, CalmInv, NEW gap \in Gaps, NEW in \in Inputs,
         NEW temp \in Temps, NEW out \in Outcomes, TickOn(gap, in, temp, out),
         state \in DynStates \cup {"FALLBACK"}, state' \in DynStates,
         pl1_w' > pl1_w
  PROVE  \/ pl1_w' <= Floor
         \/ /\ calm' >= RecoverInterval
            /\ pl1_w' <= Max2(pl1_w, Floor) + RecoverStep
<1>1. PICK w \in Nat : DynamicLimit(w, gap, in, temp)
  BY DynamicLimitFacts
<1>2. pl1_w \in Nat
  BY DEF TypeOK, WriteInv, Commanded, DynStates
<1>3. /\ Floor \in Nat /\ Start(gap, temp) \in Nat
      /\ Start(gap, temp) <= Max2(pl1_w, Floor)
  BY <1>2, LimitFacts, StartFacts DEF None
<1>4. pl1_w' \in Nat /\ pl1_w' <= w
  BY <1>1, ClampFacts DEF DynamicLimit
<1>5. CASE w <= Max2(Start(gap, temp), Floor)
  BY <1>2, <1>3, <1>4, <1>5 DEF Max2
<1>6. CASE /\ in = "low" /\ below_recover # None
           /\ below_recover + gap >= RecoverInterval
           /\ w <= Start(gap, temp) + RecoverStep
  <2>1. /\ RecoverInterval \in Nat /\ gap \in Nat /\ RecoverStep \in Nat
        /\ calm \in 0..RecoverInterval \cup {None}
        /\ below_recover \in 0..RecoverInterval
    BY <1>6, GovernorAssumption DEF TypeOK
  <2>2. calm # None /\ calm >= below_recover
    BY <1>6 DEF CalmInv, TimerBehindCalm
  <2>3. calm' = Aged(calm, gap, RecoverInterval)
    BY <1>6, <2>2 DEF TickOn, Observe, AgedOpt
  <2>4. calm + gap >= RecoverInterval
    BY <1>6, <2>1, <2>2
  <2>5. calm' >= RecoverInterval
    BY <2>1, <2>2, <2>3, <2>4 DEF Aged, Min2
  <2>6. pl1_w' <= Max2(pl1_w, Floor) + RecoverStep
    BY <1>2, <1>3, <1>4, <1>6, <2>1 DEF Max2
  <2> QED
    BY <2>5, <2>6
<1> QED
  BY <1>1, <1>5, <1>6 DEF DynamicLimit

\* Cut at once, recover slowly: between dynamic steps, or out of FALLBACK, PL1
\* rises above the floor only by one recover step, after recover_interval_s of
\* calm.
THEOREM RecoversSlowly == Spec => RaiseNeedsCalm
<1>1. Init => CalmInv
  BY DEF Init, CalmInv, TimerBehindCalm, EmergencyTimer
<1>2. TypeOK /\ WriteInv /\ CalmInv /\ [Next]_vars => CalmInv'
  <2> SUFFICES ASSUME TypeOK, WriteInv, CalmInv, [Next]_vars PROVE CalmInv'
    OBVIOUS
  <2>1. CASE Tick
    BY <2>1, CalmStep DEF Tick
  <2>2. CASE SetConfig \/ UNCHANGED vars
    BY <2>2 DEF SetConfig, vars, govVars, histVars,
                CalmInv, TimerBehindCalm, EmergencyTimer
  <2> QED
    BY <2>1, <2>2 DEF Next
<1> DEFINE Raise ==
      /\ state \in DynStates \cup {"FALLBACK"}
      /\ state' \in DynStates
      /\ pl1_w' > pl1_w
      => \/ pl1_w' <= Floor
         \/ /\ calm' >= RecoverInterval
            /\ pl1_w' <= Max2(pl1_w, Floor) + RecoverStep
<1>3. TypeOK /\ WriteInv /\ CalmInv /\ [Next]_vars => [Raise]_vars
  <2> SUFFICES ASSUME TypeOK, WriteInv, CalmInv, [Next]_vars,
                      state \in DynStates \cup {"FALLBACK"},
                      state' \in DynStates, pl1_w' > pl1_w
               PROVE  Raise
    OBVIOUS
  <2>1. CASE Tick
    BY <2>1, RaiseStep DEF Tick
  <2>2. CASE SetConfig \/ UNCHANGED vars
    <3>1. pl1_w' = pl1_w /\ pl1_w \in Nat \cup {None}
      BY <2>2 DEF SetConfig, vars, govVars, TypeOK
    <3>2. ~(pl1_w' > pl1_w)
      BY <3>1 DEF None
    <3> QED
      BY <3>2
  <2> QED
    BY <2>1, <2>2 DEF Next
<1> HIDE DEF Raise
<1>4. Spec => [][Raise]_vars
  BY <1>1, <1>2, <1>3, GovernorTypes, WriteInvInvariant, PTL DEF Spec
<1> QED
  BY <1>4 DEF RaiseNeedsCalm, Raise
=============================================================================
