--------------------------- MODULE MCConfigRules ---------------------------
(* A chain of three keys and two rules, the largest connected shape in      *)
(* CROSS_RULES (fan temperatures); its last key may be null, as             *)
(* thermal_trim_c may.                                                      *)
EXTENDS ConfigRules

CONSTANTS t1, t2, t3

MCKeys   == {t1, t2, t3}
MCLo     == <<t1, t2>>
MCHi     == <<t2, t3>>
MCGap    == <<1, 1>>
MCRanges == [k \in MCKeys |-> IF k = t3 THEN (0..3) \cup {Null} ELSE 0..3]
MCWild   == {9}
=============================================================================
