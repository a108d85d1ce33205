------------------------- MODULE ConfigRulesProofs -------------------------
(***************************************************************************)
(* validate for every set of keys, ranges and rules.                       *)
(*                                                                         *)
(* The bound on the passes is what needs an argument.  A rule that fails   *)
(* takes back both of its keys, so that from then on it sees the base,     *)
(* which obeys it: such a rule is settled.  The first rule to fail in a    *)
(* pass was not settled before, because nothing has been taken back since  *)
(* the snapshot was made.  Every pass with a failure therefore settles one *)
(* more rule, and pass len(CROSS_RULES) + 1 has none left to fail.         *)
(***************************************************************************)
EXTENDS ConfigRules, FiniteSetTheorems, TLAPS

Settled == {r \in Rules : Lo[r] \notin accepted /\ Hi[r] \notin accepted}

Typed ==
  /\ base \in [Keys -> Values] /\ Obeys(base)
  /\ updates \in [Keys -> Values \cup {NoUpdate}]
  /\ accepted \subseteq {k \in Requested : CheckOne(k)}
  /\ rejected \subseteq Keys
  /\ merged \in [Keys -> Values]
  /\ rule \in 1..(NRules + 1) /\ broken \in BOOLEAN /\ pass \in 0..MaxPasses

Verdicts == Requested \subseteq accepted \cup rejected /\ accepted \cap rejected = {}

\* Without a failure so far, the snapshot is current and obeys the rules tried.
Snapshot == ~broken => merged = Merge(accepted) /\ \A r \in 1..(rule - 1) : Holds(r, merged)

Progress == /\ pass # 0 /\ ~broken => Cardinality(Settled) >= pass - 1
            /\ pass # 0 /\ broken  => Cardinality(Settled) >= pass

Finished == pass = 0 => ~broken /\ rule = NRules + 1

Inv == Typed /\ Verdicts /\ Snapshot /\ Progress /\ Finished

-----------------------------------------------------------------------------
LEMMA RulesFinite == IsFiniteSet(Rules) /\ Cardinality(Rules) = NRules
BY FS_Interval, RulesAssumption DEF Rules

\* What is settled is at most every rule.
LEMMA SettledFinite == IsFiniteSet(Settled) /\ Cardinality(Settled) \in Nat /\ Cardinality(Settled) <= NRules
<1>1. Settled \subseteq Rules  BY DEF Settled
<1>2. IsFiniteSet(Settled) /\ Cardinality(Settled) <= Cardinality(Rules)
  BY <1>1, RulesFinite, FS_Subset
<1>3. Cardinality(Settled) \in Nat  BY <1>2, FS_CardinalityType
<1> QED  BY <1>2, <1>3, RulesFinite

\* A settled rule sees the base, and the base obeys it.
LEMMA SettledHolds ==
  ASSUME NEW r \in Settled, Typed
  PROVE  Holds(r, Merge(accepted))
<1>1. r \in Rules /\ Lo[r] \in Keys /\ Hi[r] \in Keys
  BY RulesAssumption DEF Settled
<1>2. Merge(accepted)[Lo[r]] = base[Lo[r]] /\ Merge(accepted)[Hi[r]] = base[Hi[r]]
  BY <1>1 DEF Settled, Merge
<1>3. Holds(r, base)  BY <1>1 DEF Typed, Obeys
<1> QED  BY <1>2, <1>3 DEF Holds

LEMMA CulpritsAre ==
  ASSUME NEW r \in Rules
  PROVE  /\ Culprits(r) \subseteq Keys
         /\ Culprits(r) \subseteq {Lo[r], Hi[r]}
         /\ {Lo[r], Hi[r]} \cap accepted \subseteq Culprits(r)
BY RulesAssumption DEF Culprits

LEMMA MergeType ==
  ASSUME Typed
  PROVE  Merge(accepted) \in [Keys -> Values]
BY DEF Typed, Merge, Requested, CheckOne

-----------------------------------------------------------------------------
LEMMA InitInv == Init => Inv
<1> SUFFICES ASSUME Init PROVE Inv  OBVIOUS
<1> USE DEF Init
<1>1. NRules \in Nat  BY RulesAssumption
<1>2. Typed
  <2>1. base \in [Keys -> Values] /\ Obeys(base) /\ updates \in [Keys -> Values \cup {NoUpdate}]
    OBVIOUS
  <2>2. accepted \subseteq {k \in Requested : CheckOne(k)} /\ rejected \subseteq Keys
    BY DEF Requested
  <2>3. merged \in [Keys -> Values]
    BY <2>1, <2>2 DEF Merge, Requested
  <2>4. rule \in 1..(NRules + 1) /\ broken \in BOOLEAN /\ pass \in 0..MaxPasses
    <3>1. rule = 1 /\ pass = 1 /\ broken = FALSE  OBVIOUS
    <3>2. 1 \in 1..(NRules + 1) /\ 1 \in 0..(NRules + 1)  BY <1>1
    <3> QED  BY <3>1, <3>2, Zenon DEF MaxPasses
  <2> QED  BY <2>1, <2>2, <2>3, <2>4 DEF Typed
<1>3. Verdicts  BY DEF Verdicts
<1>4. Snapshot  BY DEF Snapshot
<1>5. Progress  BY SettledFinite DEF Progress
<1>6. Finished  BY DEF Finished
<1> QED  BY <1>2, <1>3, <1>4, <1>5, <1>6 DEF Inv

LEMMA TryRuleInv == Inv /\ TryRule => Inv'
<1> SUFFICES ASSUME Inv, TryRule PROVE Inv'  OBVIOUS
<1>0. /\ pass # 0 /\ rule <= NRules /\ rule \in Rules /\ rule' = rule + 1 /\ NRules \in Nat
      /\ UNCHANGED <<base, updates, merged, pass>>
  BY RulesAssumption DEF TryRule, Inv, Typed, Rules
<1>1. CASE Holds(rule, merged)
  <2>1. UNCHANGED <<accepted, rejected, broken>>  BY <1>1 DEF TryRule
  <2>2. Typed'  BY <1>0, <2>1 DEF Inv, Typed, Obeys, InRange, Holds, Requested, CheckOne, MaxPasses
  <2>3. Verdicts'  BY <1>0, <2>1 DEF Inv, Verdicts, Requested
  <2>4. Snapshot'
    <3> SUFFICES ASSUME ~broken PROVE merged = Merge(accepted) /\ \A r \in 1..rule : Holds(r, merged)
      BY <1>0, <2>1 DEF Snapshot, Merge, Holds, Inv, Typed
    <3>1. \A r \in 1..rule : r \in 1..(rule - 1) \/ r = rule  BY <1>0 DEF Inv, Typed
    <3> QED  BY <1>1, <3>1 DEF Inv, Snapshot
  <2>5. Settled' = Settled  BY <2>1 DEF Settled
  <2>6. Progress'  BY <1>0, <2>1, <2>5 DEF Inv, Progress
  <2>7. Finished'  BY <1>0 DEF Finished
  <2> QED  BY <2>2, <2>3, <2>4, <2>6, <2>7 DEF Inv
<1>2. CASE ~Holds(rule, merged)
  <2>1. /\ accepted' = accepted \ Culprits(rule) /\ rejected' = rejected \cup Culprits(rule)
        /\ broken' = TRUE
    BY <1>2 DEF TryRule
  <2>2. Culprits(rule) \subseteq Keys /\ {Lo[rule], Hi[rule]} \cap accepted \subseteq Culprits(rule)
    BY <1>0, CulpritsAre
  <2>3. Typed'
    BY <1>0, <2>1, <2>2 DEF Inv, Typed, Obeys, InRange, Holds, Requested, CheckOne, MaxPasses
  <2>4. Verdicts'  BY <1>0, <2>1 DEF Inv, Verdicts, Requested
  <2>5. Snapshot'  BY <2>1 DEF Snapshot
  <2>6. Settled \cup {rule} \subseteq Settled'
    BY <1>0, <2>1, <2>2 DEF Settled
  <2>7. IsFiniteSet(Settled') /\ Cardinality(Settled') \in Nat
    <3>1. Settled' \subseteq Rules  BY DEF Settled
    <3>2. IsFiniteSet(Settled')  BY <3>1, RulesFinite, FS_Subset
    <3> QED  BY <3>2, FS_CardinalityType
  <2>8. Cardinality(Settled) <= Cardinality(Settled')
    BY <2>6, <2>7, FS_Subset
  <2>9. Cardinality(Settled) \in Nat /\ IsFiniteSet(Settled)  BY SettledFinite
  <2>10. pass \in Nat  BY DEF Inv, Typed
  <2>11. Cardinality(Settled') >= pass
    <3>1. CASE broken  BY <3>1, <1>0, <2>8, <2>7, <2>9, <2>10 DEF Inv, Progress
    <3>2. CASE ~broken
      <4>1. rule \notin Settled
        BY <3>2, <1>2, SettledHolds DEF Inv, Snapshot
      <4>2. IsFiniteSet(Settled \cup {rule}) /\ Cardinality(Settled \cup {rule}) = Cardinality(Settled) + 1
        BY <4>1, <2>9, FS_AddElement
      <4>3. Cardinality(Settled \cup {rule}) <= Cardinality(Settled')
        BY <2>6, <2>7, FS_Subset
      <4> QED  BY <4>2, <4>3, <3>2, <1>0, <2>7, <2>9, <2>10 DEF Inv, Progress
    <3> QED  BY <3>1, <3>2 DEF Inv, Typed
  <2>12. Progress'  BY <1>0, <2>1, <2>11 DEF Progress
  <2>13. Finished'  BY <1>0 DEF Finished
  <2> QED  BY <2>3, <2>4, <2>5, <2>12, <2>13 DEF Inv
<1> QED  BY <1>1, <1>2

LEMMA EndPassInv == Inv /\ EndPass => Inv'
<1> SUFFICES ASSUME Inv, EndPass PROVE Inv'  OBVIOUS
<1>0. /\ pass # 0 /\ rule = NRules + 1 /\ NRules \in Nat /\ pass \in Nat
      /\ UNCHANGED <<base, updates, accepted, rejected>>
  BY RulesAssumption DEF EndPass, Inv, Typed
<1>1. Settled' = Settled  BY <1>0 DEF Settled
<1>2. Verdicts'  BY <1>0 DEF Inv, Verdicts, Requested
<1>3. CASE broken /\ pass < MaxPasses
  <2>1. pass' = pass + 1 /\ rule' = 1 /\ broken' = FALSE /\ merged' = Merge(accepted)
    BY <1>3 DEF EndPass
  <2>2. Merge(accepted) \in [Keys -> Values]  BY MergeType DEF Inv
  <2>3. Typed'
    <3>1. base' \in [Keys -> Values] /\ Obeys(base)' /\ updates' \in [Keys -> Values \cup {NoUpdate}]
      BY <1>0 DEF Inv, Typed, Obeys, InRange, Holds
    <3>2. accepted' \subseteq {k \in Requested : CheckOne(k)}' /\ rejected' \subseteq Keys
      BY <1>0 DEF Inv, Typed, Requested, CheckOne
    <3>3. rule' \in 1..(NRules + 1) /\ pass' \in 0..MaxPasses
      BY <1>0, <1>3, <2>1 DEF MaxPasses
    <3> QED  BY <3>1, <3>2, <3>3, <2>1, <2>2 DEF Typed, MaxPasses
  <2>4. Snapshot'  BY <1>0, <2>1 DEF Snapshot, Merge
  <2>5. Progress'  BY <1>0, <1>1, <1>3, <2>1, SettledFinite DEF Inv, Progress
  <2>6. Finished'  BY <1>0, <2>1 DEF Finished
  <2> QED  BY <1>2, <2>3, <2>4, <2>5, <2>6 DEF Inv
<1>4. CASE ~(broken /\ pass < MaxPasses)
  <2>1. pass' = 0 /\ UNCHANGED <<rule, broken, merged>>  BY <1>4 DEF EndPass
  <2>2. ~broken
    <3> SUFFICES ASSUME broken PROVE FALSE  OBVIOUS
    <3>1. pass >= NRules + 1  BY <1>0, <1>4 DEF MaxPasses
    <3>2. Cardinality(Settled) >= pass  BY <1>0 DEF Inv, Progress
    <3> QED  BY <1>0, <3>1, <3>2, SettledFinite
  <2>3. Typed'
    BY <1>0, <2>1 DEF Inv, Typed, Obeys, InRange, Holds, Requested, CheckOne, MaxPasses
  <2>4. Snapshot'  BY <1>0, <2>1 DEF Inv, Snapshot, Merge, Holds
  <2>5. Progress'  BY <2>1 DEF Progress
  <2>6. Finished'  BY <1>0, <2>1, <2>2 DEF Finished
  <2> QED  BY <1>2, <2>3, <2>4, <2>5, <2>6 DEF Inv
<1> QED  BY <1>3, <1>4

LEMMA StepInv == Inv /\ [Next]_vars => Inv'
<1> SUFFICES ASSUME Inv, [Next]_vars PROVE Inv'  OBVIOUS
<1>1. CASE UNCHANGED vars
  BY <1>1 DEF vars, Inv, Typed, Verdicts, Snapshot, Progress, Finished, Settled, Obeys, InRange, Holds,
              Requested, CheckOne, Merge, MaxPasses
<1>2. CASE Next  BY <1>2, TryRuleInv, EndPassInv DEF Next
<1> QED  BY <1>1, <1>2

LEMMA Invariance == Spec => []Inv
<1>1. Init => Inv  BY InitInv
<1>2. Inv /\ [Next]_vars => Inv'  BY StepInv
<1> QED  BY <1>1, <1>2, PTL DEF Spec

-----------------------------------------------------------------------------
(* validate's state has its type, and in particular it never begins more   *)
(* than len(CROSS_RULES) + 1 passes.                                       *)
THEOREM TypeCorrect == Spec => []TypeOK
<1>1. Inv => TypeOK  BY DEF Inv, Typed, TypeOK, Requested
<1> QED  BY <1>1, Invariance, PTL

(* Every key of a request has exactly one verdict, for every request.      *)
THEOREM VerdictCorrect == Spec => []OneVerdict
<1>1. Inv => OneVerdict  BY DEF Inv, Verdicts, OneVerdict
<1> QED  BY <1>1, Invariance, PTL

(* For every set of rules of this form, every base that obeys them and     *)
(* every request, the configuration validate puts in force obeys every     *)
(* range and every rule: len(CROSS_RULES) + 1 passes are enough.           *)
THEOREM ResultCorrect == Spec => []ResultObeys
<1>1. Inv => ResultObeys
  <2> SUFFICES ASSUME Inv, pass = 0 PROVE Obeys(Merge(accepted))
    BY DEF ResultObeys, Answered, Result
  <2>1. ~broken /\ rule = NRules + 1 /\ NRules \in Nat  BY RulesAssumption DEF Inv, Finished
  <2>2. \A r \in Rules : Holds(r, Merge(accepted))
    BY <2>1 DEF Inv, Snapshot, Rules
  <2>3. InRange(Merge(accepted))
    BY DEF Inv, Typed, Obeys, InRange, Merge, Requested, CheckOne
  <2> QED  BY <2>2, <2>3 DEF Obeys
<1> QED  BY <1>1, Invariance, PTL
=============================================================================
