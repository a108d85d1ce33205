------------------------------ MODULE Sampler -------------------------------
(***************************************************************************)
(* What the governor is told (linux/turbomac/daemon/sampler.py, Rapl.power *)
(* and the sampling part of Daemon.tick): trailing windows fed at two      *)
(* rates by reads that fail or are out of range, an energy counter that    *)
(* wraps, and slow data with an age of its own.  A value is the time it    *)
(* was read at, so a window is a set of times, and the mean, median or     *)
(* maximum over a span stand for the values in it.  A step is a tick of    *)
(* the loop, which may come late.                                          *)
(***************************************************************************)
EXTENDS Integers

CONSTANTS
  SlowEvery,           \* SLOW_EVERY
  Periods,             \* what may go by between two ticks
  MeanSpan, AcpwSpan,  \* 1 s and 10 s
  WindowKeep,          \* the windows' 12 s
  TempFresh,           \* TEMP_FRESH_S
  EnergyRange,         \* max_energy_range_uj
  Uses,                \* what the package may use up between two ticks
  Blind,               \* bound: ticks in a row without an energy reading
  Ticks                \* bound

NoSample == -1

ASSUME SamplerAssumption ==
  /\ {SlowEvery, EnergyRange} \subseteq Nat \ {0} /\ Periods \cup Uses \subseteq Nat
  /\ {MeanSpan, AcpwSpan, WindowKeep, TempFresh, Blind} \subseteq Nat
  /\ WindowKeep >= MeanSpan /\ WindowKeep >= AcpwSpan
  /\ \A u \in Uses : u * (Blind + 1) < EnergyRange

VARIABLES
  tick, now,
  input, acpw,  \* Sampler.w
  lastEnergy,   \* Rapl._last, None before the first reading
  pkg,          \* the package energy of the last tick, None if unknown
  latest,       \* pdtr_w of a valid sample, else None
  slow_mono,    \* the time of the slow data, None before the first
  told,         \* gov_input: [pdtr, mean, acpw, temp]
  \* History: when PDTR and ACPW were read well, the energy counter, what was
  \* used since its last reading, ticks without one.
  inputs, acpws, energy, since, blind

samplerVars == <<tick, now, input, acpw, lastEnergy, pkg, latest, slow_mono, told,
          inputs, acpws, energy, since, blind>>

-----------------------------------------------------------------------------
(* Window *)

\* Mutant of Push: only the mean's span is kept.
PushShort(w, t, v) ==
  IF v = NoSample THEN w ELSE {u \in w \cup {v} : u >= t - MeanSpan}

Push(w, t, v) == IF v = NoSample THEN w ELSE {u \in w \cup {v} : u >= t - WindowKeep}

SamplerValues(w, t, span) == {u \in w : u > t - span}

\* energy_delta_w, before it is divided by the time.
EnergyDelta(prev, cur) == IF cur < prev THEN cur - prev + EnergyRange ELSE cur - prev

-----------------------------------------------------------------------------
(* fast, slow and gov_input, as Daemon.tick calls them *)

\* Rapl.power.  since: what was used from the last reading to this tick.
Power(used, counted) ==
  LET counter == (energy + used) % EnergyRange IN
  /\ energy' = counter
  /\ since' = used + (IF blind = 0 THEN 0 ELSE since)
  /\ \/ /\ counted /\ lastEnergy' = counter /\ blind' = 0
        /\ pkg' = IF lastEnergy = NoSample THEN NoSample ELSE EnergyDelta(lastEnergy, counter)
     \/ /\ ~counted /\ blind < Blind /\ blind' = blind + 1
        /\ pkg' = NoSample /\ UNCHANGED lastEnergy

Fast(t, slow, pdtrOk, acpwOk) ==
  /\ input' = Push(input, t, IF pdtrOk THEN t ELSE NoSample)
  /\ acpw'  = Push(acpw, t, IF slow /\ acpwOk THEN t ELSE NoSample)
  /\ latest' = IF pdtrOk /\ SamplerValues(acpw', t, AcpwSpan) # {} THEN t ELSE NoSample
  /\ inputs' = IF pdtrOk THEN inputs \cup {t} ELSE inputs
  /\ acpws'  = IF slow /\ acpwOk THEN acpws \cup {t} ELSE acpws

\* An exception on the way: the sample is replaced by an invalid one.
FastRaises == latest' = NoSample /\ UNCHANGED <<input, acpw, inputs, acpws>>

\* The package temperature is told while the slow data is fresh.
Temp(t) == IF slow_mono' # NoSample /\ t - slow_mono' <= TempFresh THEN slow_mono' ELSE NoSample

GovInput(t) ==
  told' = [pdtr |-> latest', mean |-> SamplerValues(input', t, MeanSpan),
           acpw |-> SamplerValues(acpw', t, AcpwSpan), temp |-> Temp(t)]

SamplerTick(period, used, counted, raises, pdtrOk, acpwOk, slowOk) ==
  LET t    == now + period
      slow == tick % SlowEvery = 0
  IN
  /\ tick < Ticks /\ tick' = tick + 1 /\ now' = t
  /\ Power(used, counted)
  /\ IF raises THEN FastRaises ELSE Fast(t, slow, pdtrOk, acpwOk)
  /\ slow_mono' = IF slow /\ slowOk THEN t ELSE slow_mono
  /\ GovInput(t)

SamplerInit ==
  /\ tick = 0 /\ now = 0 /\ input = {} /\ acpw = {} /\ lastEnergy = NoSample
  /\ pkg = NoSample
  /\ latest = NoSample /\ slow_mono = NoSample
  /\ told = [pdtr |-> NoSample, mean |-> {}, acpw |-> {}, temp |-> NoSample]
  /\ inputs = {} /\ acpws = {} /\ energy \in 0..EnergyRange - 1 /\ since = 0
  /\ blind = 0

SamplerNext == \E period \in Periods, used \in Uses,
           counted, raises, pdtrOk, acpwOk, slowOk \in BOOLEAN :
          SamplerTick(period, used, counted, raises, pdtrOk, acpwOk, slowOk)

SamplerSpec == SamplerInit /\ [][SamplerNext]_samplerVars

-----------------------------------------------------------------------------
SamplerTypeOK ==
  /\ input \cup acpw \subseteq 0..now /\ \A u, v \in input : v - u <= WindowKeep
  /\ lastEnergy \in {NoSample} \cup 0..EnergyRange - 1

\* main.py: "an unreadable sample is invalid, never stale-valid".
NeverStaleValid == told.pdtr # NoSample => told.pdtr = now /\ now \in inputs

\* The windows, which forget only when they are pushed to, hold exactly the
\* good readings of their spans, late ticks and failed ones among them.
WindowsExact ==
  /\ told.mean = {u \in inputs : u > now - MeanSpan}
  /\ told.acpw = {u \in acpws : u > now - AcpwSpan}

\* The package energy is what was used since the last reading, over a wrap
\* of the counter and over ticks whose reading failed.
EnergyExact == pkg # NoSample => pkg = since

\* No temperature older than TEMP_FRESH_S reaches the governor.
TempIsFresh == told.temp # NoSample => now - told.temp <= TempFresh

\* What the governor is told is what was measured, exactly and in time
\* (sampler.py, fast and slow; main.py, tick).
SamplerSafe ==
  SamplerTypeOK /\ NeverStaleValid /\ WindowsExact /\ EnergyExact /\ TempIsFresh
=============================================================================
