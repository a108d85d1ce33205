---------------------------- MODULE ConfigRules ----------------------------
(***************************************************************************)
(* config.validate (linux/turbomac/config.py): the updates of a request,   *)
(* or of the whole file in from_dict, against a base that obeys the rules. *)
(* _check_one tests each value by itself; then the cross-field rules are   *)
(* gone through on the merged configuration as it was when the pass began, *)
(* at most one more time than there are rules.  Every rule of CROSS_RULES  *)
(* says that one key plus a gap is at most another key; a rule whose upper *)
(* key is null does not apply.                                             *)
(***************************************************************************)
EXTENDS Integers, FiniteSets

CONSTANTS
  Keys,        \* the keys of SPEC that rules are about
  NRules,      \* len(CROSS_RULES)
  Lo, Hi, Gap, \* per rule: its two keys and the gap between them
  Ranges,      \* per key: the values _check_one lets through
  Wild,        \* other values an update may carry
  Null,        \* None, which a key with a "?" kind may have
  NoUpdate     \* stands for a key that is not among the updates

Rules  == 1..NRules
Values == UNION {Ranges[k] : k \in Keys} \cup Wild

ASSUME RulesAssumption ==
  /\ NRules \in Nat
  /\ Lo \in [Rules -> Keys] /\ Hi \in [Rules -> Keys] /\ Gap \in [Rules -> Nat]
  /\ Ranges \in [Keys -> SUBSET (Int \cup {Null})]
  /\ \A r \in Rules : Null \notin Ranges[Lo[r]]
  /\ NoUpdate \notin Values

\* The predicate of a rule.
Holds(r, c) == c[Hi[r]] = Null \/ c[Lo[r]] + Gap[r] <= c[Hi[r]]
InRange(c)  == \A k \in Keys : c[k] \in Ranges[k]
Obeys(c)    == InRange(c) /\ \A r \in Rules : Holds(r, c)

VARIABLES
  base,        \* the configuration the updates are for
  updates,     \* the value for each key, or NoUpdate
  accepted, rejected,   \* keys
  merged,      \* base with the updates accepted when the pass began
  rule,        \* the next rule of the pass
  broken,      \* a rule has failed in this pass
  pass         \* passes begun; 0 once there is an answer

vars == <<base, updates, accepted, rejected, merged, rule, broken, pass>>

Merge(acc) == [k \in Keys |-> IF k \in acc THEN updates[k] ELSE base[k]]

Requested == {k \in Keys : updates[k] # NoUpdate}

\* _check_one: kind and range of the value by itself.
CheckOne(k) == updates[k] \in Ranges[k]

Init ==
  /\ base \in {c \in [Keys -> Values] : Obeys(c)}
  /\ updates \in [Keys -> Values \cup {NoUpdate}]
  /\ accepted = {k \in Requested : CheckOne(k)}
  /\ rejected = Requested \ accepted
  /\ merged = Merge(accepted)
  /\ rule = 1 /\ broken = FALSE /\ pass = 1

\* The keys a failing rule rejects: the accepted ones among its two, or both
\* if neither is (any more).
Culprits(r) ==
  IF {Lo[r], Hi[r]} \cap accepted # {} THEN {Lo[r], Hi[r]} \cap accepted
                                       ELSE {Lo[r], Hi[r]}

\* Mutant of TryRule: a key is taken back without saying so.
TryRuleSilent ==
  /\ pass # 0 /\ rule <= NRules
  /\ accepted' = IF Holds(rule, merged) THEN accepted ELSE accepted \ Culprits(rule)
  /\ broken' = (broken \/ ~Holds(rule, merged))
  /\ rule' = rule + 1
  /\ UNCHANGED <<base, updates, rejected, merged, pass>>

TryRule ==
  /\ pass # 0 /\ rule <= NRules
  /\ IF Holds(rule, merged)
     THEN UNCHANGED <<accepted, rejected, broken>>
     ELSE /\ accepted' = accepted \ Culprits(rule)
          /\ rejected' = rejected \cup Culprits(rule)
          /\ broken' = TRUE
  /\ rule' = rule + 1
  /\ UNCHANGED <<base, updates, merged, pass>>

\* Mutant of MaxPasses: the rules are gone through once.
OnePass == 1

MaxPasses == NRules + 1

\* The end of a pass: another one, or the answer.
EndPass ==
  /\ pass # 0 /\ rule = NRules + 1
  /\ IF broken /\ pass < MaxPasses
     THEN /\ pass' = pass + 1 /\ rule' = 1 /\ broken' = FALSE
          /\ merged' = Merge(accepted)
     ELSE pass' = 0 /\ UNCHANGED <<rule, broken, merged>>
  /\ UNCHANGED <<base, updates, accepted, rejected>>

Next == TryRule \/ EndPass
Spec == Init /\ [][Next]_vars /\ WF_vars(Next)

-----------------------------------------------------------------------------
\* What apply_updates puts in force.
Result == Merge(accepted)
Answered == pass = 0

TypeOK ==
  /\ base \in [Keys -> Values] /\ updates \in [Keys -> Values \cup {NoUpdate}]
  /\ accepted \subseteq Keys /\ rejected \subseteq Keys
  /\ merged \in [Keys -> Values]
  /\ rule \in 1..(NRules + 1) /\ broken \in BOOLEAN /\ pass \in 0..MaxPasses

\* Whatever the updates, what validate accepts keeps the configuration within
\* every range and every cross-field rule: len(CROSS_RULES) + 1 passes over a
\* snapshot are enough.
ResultObeys == Answered => Obeys(Result)

\* Every key of the request has exactly one verdict.
OneVerdict == Answered => Requested \subseteq accepted \cup rejected /\ accepted \cap rejected = {}
=============================================================================
