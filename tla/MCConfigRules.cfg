SPECIFICATION Spec
CONSTANTS t1 = t1  t2 = t2  t3 = t3  Null = Null  NoUpdate = NoUpdate
  Keys <- MCKeys  NRules = 2  Lo <- MCLo  Hi <- MCHi  Gap <- MCGap
  Ranges <- MCRanges  Wild <- MCWild
INVARIANTS ResultObeys OneVerdict
CHECK_DEADLOCK FALSE
