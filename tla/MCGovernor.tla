----------------------------- MODULE MCGovernor -----------------------------
(***************************************************************************)
(* Small instances of Governor for TLC.  Watts are in units of RecoverStep;*)
(* times are in ticks.  The order of the real time constants is kept:      *)
(* a tick < CUT_MIN_INTERVAL_S < the settings < BACKOFF_MAX_S < REASSERT_S.*)
(***************************************************************************)
EXTENDS Governor

Gov(mode, static, ceiling, floor, thermal) ==
  [mode |-> mode, static_cap_w |-> static, ceiling_w |-> ceiling,
   floor_w |-> floor, thermal |-> thermal]

\* The static cap above, and below, the floor setting, with and without the
\* thermal trim; another mode.
MCConfigs ==
  {Gov("dynamic", 3, 5, 1, TRUE), Gov("dynamic", 2, 4, 3, FALSE),
   Gov("off", 3, 5, 1, TRUE)}
MCTwoConfigs == {Gov("dynamic", 3, 5, 1, TRUE), Gov("static", 4, 5, 1, TRUE)}

\* Everything written and verified; PL1 only; PL2 only.
MCOutcomes ==
  {[pl1 |-> TRUE, pl2 |-> TRUE, verified |-> TRUE],
   [pl1 |-> TRUE, pl2 |-> FALSE, verified |-> TRUE],
   [pl1 |-> FALSE, pl2 |-> TRUE, verified |-> TRUE]}
\* Everything written and verified; nothing written.
MCFewOutcomes ==
  {[pl1 |-> TRUE, pl2 |-> TRUE, verified |-> TRUE],
   [pl1 |-> FALSE, pl2 |-> FALSE, verified |-> FALSE]}
=============================================================================
