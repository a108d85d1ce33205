--------------------------- MODULE HardwareProofs ----------------------------
(***************************************************************************)
(* Smc, Sampler and Fans are safe, for every instance: the reads of the    *)
(* sensor controller, whose index any process may move; the windows, ages  *)
(* and energy that the governor is told of; and the fan minima that the    *)
(* once-a-second tick writes, which are the fans' own or a floor within    *)
(* their range through failed writes, restores, crashes and captures.  Each*)
(* part has an inductive invariant made of named conjuncts, and a theorem  *)
(* that puts it together.                                                  *)
(***************************************************************************)
EXTENDS Smc, Sampler, Fans, TLAPS

(* Smc *)

Entries == [idx : 0..Count, typ : 0..Count]
Values  == [from : 0..Count, typ : 0..Count]
Tables  == {t \in [Keys -> Entries] :
              \A k \in Keys : t[k] = NoEntry \/ (t[k].idx \in Keys /\ t[k].typ \in Keys)}

\* Where the reader and the controller are.
PlacesInv ==
  /\ layout \in [Keys -> Keys] /\ sel \in Keys /\ key \in Keys /\ i \in Keys
  /\ smcPc \in {"select", "name", "type", "read", "verify", "data"}
  /\ smcPc = "type" => name \in Keys
  /\ age \in 0..RescanAge
  /\ lastRead \in [Keys -> Values] /\ other \in Nat

\* The table and the cached one have an index and a type for each key they know.
TablesInv == table \in Tables /\ (cache = <<>> \/ cache \in Tables)

\* Every entry has the type of its own key.
OwnTypes(t) == \A k \in Keys : t[k] = NoEntry \/ t[k].typ = k

ReadsOwn ==
  \A k \in Keys : lastRead[k] = NoValue \/ lastRead[k] = [from |-> k, typ |-> k]

\* Why a read returns its own key's value, as long as no other process selects an
\* index: what the scan reads belongs to the index it has selected, and the data
\* is read of the key that verify has seen at the index.
OwnInv ==
  other = 0 =>
    /\ smcPc \in {"name", "type"} => sel = i
    /\ smcPc = "type" => name = layout[sel]
    /\ smcPc \in {"verify", "data"} => table[key] # NoEntry
    /\ smcPc = "data" => layout[sel] = key
    /\ OwnTypes(table) /\ (cache = <<>> \/ OwnTypes(cache))
    /\ ReadsOwn

\* What the constants give.
LEMMA KeyFacts ==
  /\ Count \in Nat /\ Count > 0 /\ RescanAge \in Nat /\ RescanAge > 0 /\ 1 \in Keys
  /\ \A l \in Layouts : l \in [Keys -> Keys]
  BY SmcAssumption DEF Keys

\* The keys are read round and round.
LEMMA NextKey == ASSUME NEW k \in Keys PROVE (k % Count) + 1 \in Keys
  BY KeyFacts DEF Keys

\* A scan begins with a table that knows no key.
LEMMA EmptyIsTable == Empty \in Tables /\ OwnTypes(Empty)
  BY KeyFacts DEF Empty, Tables, Entries, NoEntry, NoKey, OwnTypes

\* No value and the right value are values, and no key is none.
LEMMA ValueFacts ==
  /\ NoValue \in Values
  /\ \A k \in Keys : k # NoKey /\ k \in 0..Count /\ [from |-> k, typ |-> k] \in Values
  BY KeyFacts DEF NoValue, NoKey, Keys, Values

\* An entry of indices is a table's, and one of its own key keeps the types right.
LEMMA TableUpdate ==
  ASSUME NEW t \in Tables, NEW k \in Keys, NEW n \in Keys, NEW ty \in Keys
  PROVE  /\ [t EXCEPT ![k] = [idx |-> n, typ |-> ty]] \in Tables
         /\ OwnTypes(t) /\ ty = k => OwnTypes([t EXCEPT ![k] = [idx |-> n, typ |-> ty]])
<1> DEFINE e == [idx |-> n, typ |-> ty]
<1>1. e \in Entries /\ e.idx = n /\ e.typ = ty
  BY ValueFacts DEF Entries
<1> HIDE DEF e
<1>2. [t EXCEPT ![k] = e] \in Tables
  BY <1>1 DEF Tables
<1>3. OwnTypes(t) /\ ty = k => OwnTypes([t EXCEPT ![k] = e])
  BY <1>1 DEF Tables, OwnTypes
<1> QED
  BY <1>2, <1>3 DEF e

\* An entry that is there has a key's index and type.
LEMMA EntryFacts ==
  ASSUME NEW t \in Tables, NEW k \in Keys, t[k] # NoEntry
  PROVE  t[k].idx \in Keys /\ t[k].typ \in Keys
  BY DEF Tables

\* A read that ends notes its value and moves on to the next key.
LEMMA DoneFacts ==
  ASSUME PlacesInv, NEW v \in Values, Done(v)
  PROVE  /\ lastRead' \in [Keys -> Values] /\ smcPc' = "read" /\ key' \in Keys
         /\ \A k \in Keys : lastRead'[k] = IF k = key THEN v ELSE lastRead[k]
  BY NextKey DEF PlacesInv, Done

\* A scan starts at an index, with an empty table.
LEMMA StartFacts ==
  StartScan => /\ smcPc' = "select" /\ i' \in Keys /\ age' \in 0..RescanAge
               /\ table' \in Tables /\ OwnTypes(table')
  BY KeyFacts, EmptyIsTable DEF StartScan

\* read selects the index the table has, or ends without a value.
LEMMA ReadFacts ==
  ASSUME PlacesInv, TablesInv, Read
  PROVE  /\ UNCHANGED <<layout, other, table, cache, i, name>> /\ age' \in 0..RescanAge
         /\ \/ /\ table[key] # NoEntry /\ sel' \in Keys /\ smcPc' = "verify"
               /\ UNCHANGED <<lastRead, key>>
            \/ Done(NoValue) /\ UNCHANGED sel
<1>1. UNCHANGED <<layout, other, table, cache, i, name>> /\ age' = SmcAged
  BY DEF Read, rest
<1>2. age' \in 0..RescanAge
  BY <1>1, KeyFacts DEF SmcAged, PlacesInv, NoKey
<1>3. table[key] # NoEntry => table[key].idx \in Keys
  BY EntryFacts DEF PlacesInv, TablesInv
<1> QED
  BY <1>1, <1>2, <1>3 DEF Read

\* verify goes on to the data, scans again, or ends without a value.
LEMMA VerifyFacts ==
  ASSUME PlacesInv, Verify
  PROVE  /\ UNCHANGED <<layout, other, sel, cache, name>> /\ smcPc = "verify"
         /\ \/ /\ layout[sel] = key /\ smcPc' = "data"
               /\ UNCHANGED <<table, i, key, age, lastRead>>
            \/ StartScan /\ UNCHANGED <<key, lastRead>>
            \/ Done(NoValue) /\ UNCHANGED <<table, i, age>>
  BY DEF Verify, SmcVerified, rest

\* The data is of the key at the selected index, in the type of the table.
LEMMA DataFacts ==
  ASSUME PlacesInv, TablesInv, Data
  PROVE  /\ UNCHANGED <<layout, other, sel, table, cache, i, name, age>> /\ smcPc = "data"
         /\ \E v \in Values : Done(v) /\ v = [from |-> layout[sel], typ |-> table[key].typ]
<1>1. UNCHANGED <<layout, other, sel, table, cache, i, name, age>> /\ smcPc = "data"
  BY DEF Data, rest
<1>2. layout[sel] \in 0..Count /\ table[key].typ \in 0..Count
  BY ValueFacts DEF PlacesInv, TablesInv, Tables, Entries
<1>3. [from |-> layout[sel], typ |-> table[key].typ] \in Values
  BY <1>2 DEF Values
<1> QED
  BY <1>1, <1>3 DEF Data

\* A restart takes the table from the cache or scans.
LEMMA RestartFacts ==
  ASSUME TablesInv, SmcRestart
  PROVE  /\ layout' \in [Keys -> Keys] /\ sel' \in Keys /\ key' \in Keys
         /\ age' \in 0..RescanAge /\ lastRead' = [k \in Keys |-> NoValue]
         /\ UNCHANGED <<cache, other>> /\ smcPc' \in {"select", "read"}
         /\ i' \in {i} \cup Keys /\ table' \in Tables
         /\ OwnTypes(table') \/ (cache # <<>> /\ table' = cache)
<1>1. /\ layout' \in [Keys -> Keys] /\ sel' \in Keys /\ key' \in Keys
      /\ lastRead' = [k \in Keys |-> NoValue] /\ UNCHANGED <<cache, other>> /\ OpenTable
  BY KeyFacts DEF SmcRestart
<1>2. CASE cache # <<>>
  <2>1. table' = cache /\ smcPc' = "read" /\ age' \in 0..RescanAge /\ UNCHANGED i
    BY <1>1, <1>2, KeyFacts DEF OpenTable, NoKey
  <2> QED
    BY <1>1, <1>2, <2>1 DEF TablesInv
<1>3. CASE cache = <<>>
  BY <1>1, <1>3, StartFacts DEF OpenTable
<1> QED
  BY <1>2, <1>3

\* An entry is made of the index, the name and the type that were read in turn;
\* the table is saved once it is complete.
LEMMA ScanTypeFacts ==
  ASSUME PlacesInv, TablesInv, ScanType
  PROVE  /\ smcPc = "type" /\ smcPc' \in {"select", "read"} /\ i' \in Keys
         /\ UNCHANGED <<layout, other, sel, key, age, lastRead>>
         /\ table' \in Tables /\ cache' \in {cache, table'}
         /\ OwnTypes(table) /\ name = layout[sel] => OwnTypes(table')
<1>1. /\ smcPc = "type" /\ smcPc' \in {"select", "read"} /\ cache' \in {cache, table'}
      /\ table' = [table EXCEPT ![name] = [idx |-> i, typ |-> layout[sel]]]
      /\ UNCHANGED <<layout, other, sel, key, age, lastRead>>
  BY DEF ScanType, rest
<1>2. i' \in Keys
  <2>1. UNCHANGED i \/ (i < Count /\ i' = i + 1)
    BY DEF ScanType
  <2>2. i \in 1..Count /\ Count \in Nat
    BY KeyFacts DEF PlacesInv, Keys
  <2> QED
    BY <2>1, <2>2 DEF Keys
<1>3. name \in Keys /\ layout[sel] \in Keys /\ i \in Keys /\ table \in Tables
  BY <1>1 DEF PlacesInv, TablesInv
<1> QED
  BY <1>1, <1>2, <1>3, TableUpdate

\* Every step keeps the reader inside the keys.
LEMMA PlacesStep ==
  PlacesInv /\ TablesInv /\ [SmcNext]_smcVars => PlacesInv'
<1> SUFFICES ASSUME PlacesInv, TablesInv, [SmcNext]_smcVars PROVE PlacesInv'
  OBVIOUS
<1> USE DEF PlacesInv, rest
<1>1. CASE ScanSelect
  BY <1>1 DEF ScanSelect
<1>2. CASE ScanName
  BY <1>2 DEF ScanName
<1>3. CASE ScanType
  BY <1>3, ScanTypeFacts
<1>4. CASE Read
  BY <1>4, ReadFacts, DoneFacts, ValueFacts
<1>5. CASE Verify
  BY <1>5, VerifyFacts, DoneFacts, ValueFacts, StartFacts
<1>6. CASE Data
  BY <1>6, DataFacts, DoneFacts
<1>7. CASE SmcRestart
  BY <1>7, RestartFacts, ValueFacts
<1>8. CASE \E j \in Keys : OtherSelect(j)
  BY <1>8 DEF OtherSelect
<1>9. CASE UNCHANGED smcVars
  BY <1>9 DEF smcVars
<1> QED
  BY <1>1, <1>2, <1>3, <1>4, <1>5, <1>6, <1>7, <1>8, <1>9 DEF SmcNext, Reader

\* Every scan, saved or not, leaves tables that can be read with.
LEMMA TablesStep ==
  PlacesInv /\ TablesInv /\ [SmcNext]_smcVars => TablesInv'
<1> SUFFICES ASSUME PlacesInv, TablesInv, [SmcNext]_smcVars PROVE TablesInv'
  OBVIOUS
<1> USE DEF TablesInv, rest
<1>1. CASE ScanSelect
  BY <1>1 DEF ScanSelect
<1>2. CASE ScanName
  BY <1>2 DEF ScanName
<1>3. CASE ScanType
  BY <1>3, ScanTypeFacts
<1>4. CASE Read
  BY <1>4, ReadFacts
<1>5. CASE Verify
  BY <1>5, VerifyFacts, StartFacts
<1>6. CASE Data
  BY <1>6, DataFacts
<1>7. CASE SmcRestart
  BY <1>7, RestartFacts
<1>8. CASE \E j \in Keys : OtherSelect(j)
  BY <1>8 DEF OtherSelect
<1>9. CASE UNCHANGED smcVars
  BY <1>9 DEF smcVars
<1> QED
  BY <1>1, <1>2, <1>3, <1>4, <1>5, <1>6, <1>7, <1>8, <1>9 DEF SmcNext, Reader

\* A rescan, a stale cache, a restart between two steps: none mixes two keys up.
LEMMA OwnStep ==
  PlacesInv /\ TablesInv /\ OwnInv /\ [SmcNext]_smcVars => OwnInv'
<1> SUFFICES ASSUME PlacesInv, TablesInv, OwnInv, [SmcNext]_smcVars PROVE OwnInv'
  OBVIOUS
<1> USE DEF OwnInv, ReadsOwn, rest
<1>1. CASE ScanSelect
  BY <1>1 DEF ScanSelect
<1>2. CASE ScanName
  BY <1>2 DEF ScanName
<1>3. CASE ScanType
  BY <1>3, ScanTypeFacts
<1>4. CASE Read
  <2>1. CASE Done(NoValue)
    BY <1>4, <2>1, ReadFacts, DoneFacts, ValueFacts
  <2>2. CASE /\ table[key] # NoEntry /\ smcPc' = "verify" /\ UNCHANGED <<lastRead, key>>
    BY <1>4, <2>2, ReadFacts
  <2> QED
    BY <1>4, <2>1, <2>2, ReadFacts
<1>5. CASE Verify
  <2>1. CASE Done(NoValue) /\ UNCHANGED table
    BY <1>5, <2>1, VerifyFacts, DoneFacts, ValueFacts
  <2>2. CASE StartScan /\ UNCHANGED <<key, lastRead>>
    BY <1>5, <2>2, VerifyFacts, StartFacts
  <2>3. CASE layout[sel] = key /\ smcPc' = "data" /\ UNCHANGED <<table, key, lastRead>>
    BY <1>5, <2>3, VerifyFacts
  <2> QED
    BY <1>5, <2>1, <2>2, <2>3, VerifyFacts
<1>6. CASE Data
  <2> SUFFICES ASSUME other' = 0 PROVE OwnInv'
    OBVIOUS
  <2>1. /\ UNCHANGED <<layout, other, sel, table, cache>> /\ smcPc = "data"
        /\ OwnTypes(table) /\ table[key] # NoEntry /\ layout[sel] = key
    BY <1>6, DataFacts
  <2>2. PICK v \in Values : Done(v) /\ v = [from |-> layout[sel], typ |-> table[key].typ]
    BY <1>6, DataFacts
  <2>3. v = [from |-> key, typ |-> key]
    BY <2>1, <2>2 DEF OwnTypes, PlacesInv
  <2> QED
    BY <2>1, <2>2, <2>3, DoneFacts
<1>7. CASE SmcRestart
  BY <1>7, RestartFacts
<1>8. CASE \E j \in Keys : OtherSelect(j)
  <2> PICK j \in Keys : OtherSelect(j)
    BY <1>8
  <2>1. other' # 0
    BY DEF OtherSelect, PlacesInv
  <2> QED
    BY <2>1
<1>9. CASE UNCHANGED smcVars
  BY <1>9 DEF smcVars
<1> QED
  BY <1>1, <1>2, <1>3, <1>4, <1>5, <1>6, <1>7, <1>8, <1>9 DEF SmcNext, Reader

\* For any number of keys, in any order the controller may have them in after a
\* reboot: a read returns the value of the key it was asked for, in its own type,
\* or none, unless another process has selected an index (smc.py, read and scan).
THEOREM SmcIsSafe == SmcSpec => []SmcSafe
<1> DEFINE Inv == PlacesInv /\ TablesInv /\ OwnInv
<1>1. SmcInit => Inv
  <2> SUFFICES ASSUME SmcInit PROVE Inv
    OBVIOUS
  <2>1. PlacesInv
    BY KeyFacts, ValueFacts DEF SmcInit, PlacesInv
  <2>2. TablesInv /\ OwnInv
    BY EmptyIsTable DEF SmcInit, TablesInv, OwnInv, ReadsOwn
  <2> QED
    BY <2>1, <2>2
<1>2. Inv /\ [SmcNext]_smcVars => Inv'
  BY PlacesStep, TablesStep, OwnStep
<1>3. Inv => SmcSafe
  BY DEF PlacesInv, TablesInv, Tables, OwnInv, ReadsOwn, SmcSafe, SmcTypeOK, RightKey, Right
<1> QED
  BY <1>1, <1>2, <1>3, PTL DEF SmcSpec

-----------------------------------------------------------------------------
(* Sampler *)

\* What the constants give: the windows keep more than is asked of them, and the
\* energy used in a row of failed readings is less than the counter's range.
LEMMA SamplerConstants ==
  /\ SlowEvery \in Nat /\ EnergyRange \in Nat /\ EnergyRange > 0
  /\ \A period \in Periods : period \in Nat
  /\ MeanSpan \in Nat /\ AcpwSpan \in Nat /\ WindowKeep \in Nat /\ TempFresh \in Nat
  /\ Blind \in Nat /\ WindowKeep >= MeanSpan /\ WindowKeep >= AcpwSpan
  /\ \A u \in Uses : u \in Nat /\ u * (Blind + 1) <= EnergyRange - 1
  BY SamplerAssumption

\* What w holds at t of the good readings r.
Holds(w, r, t) ==
  /\ w \subseteq r /\ r \subseteq 0..t
  /\ \A u \in r : u \in w \/ u < t - WindowKeep

\* The windows hold every good reading of the last WindowKeep.
WindowInv ==
  /\ now \in Nat /\ Holds(input, inputs, now) /\ Holds(acpw, acpws, now)
  /\ \A u, v \in input : v - u <= WindowKeep

\* What was told is what the last tick knew.
ToldInv == NeverStaleValid /\ WindowsExact /\ TempIsFresh

\* What was used since the last reading of the counter, before this tick.
SinceReading == IF blind = 0 THEN 0 ELSE since

\* Why one wrap is all there can be: the counter is the last reading and what was
\* used since, at most one range on.
EnergyInv ==
  /\ blind \in 0..Blind /\ since \in Nat /\ energy \in 0..EnergyRange - 1
  /\ SinceReading * (Blind + 1) <= blind * (EnergyRange - 1)
  /\ lastEnergy # NoSample =>
       /\ lastEnergy \in 0..EnergyRange - 1
       /\ energy \in {lastEnergy + SinceReading, lastEnergy + SinceReading - EnergyRange}
  /\ EnergyExact

\* The counter wraps at most once in a tick.
LEMMA WrapIs ==
  ASSUME NEW a \in 0..EnergyRange - 1, NEW u \in 0..EnergyRange - 1
  PROVE  /\ (a + u) % EnergyRange \in 0..EnergyRange - 1
         /\ (a + u) % EnergyRange \in {a + u, a + u - EnergyRange}
<1>1. CASE a + u < EnergyRange
  BY <1>1, SamplerConstants
<1>2. CASE a + u >= EnergyRange
  <2>1. (a + u) % EnergyRange = (a + u - EnergyRange) % EnergyRange
    BY <1>2, SamplerConstants
  <2> QED
    BY <1>2, <2>1, SamplerConstants
<1> QED
  BY <1>1, <1>2, SamplerConstants

\* Blind ticks in a row and one more use up less than the counter's range.
LEMMA UseBound ==
  ASSUME NEW s \in Nat, NEW u \in Nat, NEW b \in 0..Blind,
         s * (Blind + 1) <= b * (EnergyRange - 1), u * (Blind + 1) <= EnergyRange - 1
  PROVE  /\ (u + s) * (Blind + 1) <= (b + 1) * (EnergyRange - 1)
         /\ u + s \in 0..EnergyRange - 1
<1> DEFINE k == Blind + 1
<1> DEFINE m == EnergyRange - 1
<1>1. k \in Nat /\ k > 0 /\ m \in Nat /\ b \in Nat /\ b + 1 <= k
  BY SamplerConstants
<1>2. s * k <= b * m /\ u * k <= m
  OBVIOUS
<1> HIDE DEF k, m
<1>3. (u + s) * k = u * k + s * k /\ (b + 1) * m = b * m + m
  BY <1>1
<1>4. (u + s) * k <= (b + 1) * m
  <2> DEFINE x1 == u * k
  <2> DEFINE x2 == s * k
  <2> DEFINE x3 == b * m
  <2>1. x1 \in Nat /\ x2 \in Nat /\ x3 \in Nat /\ x2 <= x3 /\ x1 <= m
    BY <1>1, <1>2
  <2>2. (u + s) * k = x1 + x2 /\ (b + 1) * m = x3 + m
    BY <1>3
  <2> HIDE DEF x1, x2, x3
  <2> QED
    BY <1>1, <2>1, <2>2
<1>5. (b + 1) * m <= k * m
  BY <1>1
<1>6. u + s <= m
  <2> DEFINE n == u + s
  <2> n \in Nat
    OBVIOUS
  <2> SUFFICES ASSUME n > m PROVE FALSE
    BY <1>1
  <2>1. n * k <= k * m
    BY <1>1, <1>4, <1>5
  <2> HIDE DEF n
  <2>2. n * k >= (m + 1) * k
    BY <1>1
  <2>3. (m + 1) * k = k * m + k
    BY <1>1
  <2> QED
    BY <1>1, <2>1, <2>2, <2>3
<1> QED
  BY <1>1, <1>4, <1>6 DEF k, m

\* Window.push forgets only what is older than WindowKeep, and a failed reading
\* pushes nothing and forgets nothing.
LEMMA PushKeeps ==
  ASSUME NEW w, NEW r, NEW old \in Nat, Holds(w, r, old), NEW t \in Nat, old <= t,
         NEW good \in BOOLEAN
  PROVE  Holds(Push(w, t, IF good THEN t ELSE NoSample), IF good THEN r \cup {t} ELSE r, t)
<1> DEFINE w2 == Push(w, t, IF good THEN t ELSE NoSample)
<1> DEFINE r2 == IF good THEN r \cup {t} ELSE r
<1>1. WindowKeep \in Nat
  BY SamplerConstants
<1>2. w \subseteq r /\ \A u \in r : u \in 0..t /\ (u \in w \/ u < t - WindowKeep)
  BY <1>1 DEF Holds
<1> SUFFICES /\ w2 \subseteq r2 /\ r2 \subseteq 0..t
             /\ \A u \in r2 : u \in w2 \/ u < t - WindowKeep
  BY DEF Holds
<1>3. CASE good
  <2>1. w2 = {u \in w \cup {t} : u >= t - WindowKeep} /\ r2 = r \cup {t}
    BY <1>3 DEF Push, NoSample
  <2> HIDE DEF w2, r2
  <2>2. t \in 0..t /\ t >= t - WindowKeep
    BY <1>1
  <2>3. \A u \in r : u < t - WindowKeep \/ u >= t - WindowKeep
    BY <1>1, <1>2
  <2>4. r2 \subseteq 0..t /\ w2 \subseteq r2
    BY <1>2, <2>1, <2>2
  <2> QED
    BY <1>2, <2>1, <2>2, <2>3, <2>4
<1>4. CASE ~good
  <2>1. w2 = w /\ r2 = r
    BY <1>4 DEF Push, NoSample
  <2> HIDE DEF w2, r2
  <2> QED
    BY <1>2, <2>1
<1> QED
  BY <1>3, <1>4

\* A span no longer than the window's holds every good reading of it.
LEMMA SpanIsHeld ==
  ASSUME NEW w, NEW r, NEW t \in Nat, NEW span \in Nat, span <= WindowKeep, Holds(w, r, t)
  PROVE  SamplerValues(w, t, span) = {u \in r : u > t - span}
<1>1. WindowKeep \in Nat
  BY SamplerConstants
<1>2. \A u \in r : u > t - span => u \in w
  BY <1>1 DEF Holds
<1> QED
  BY <1>2 DEF SamplerValues, Holds

\* A tick, late or raising, keeps the windows complete.
LEMMA WindowStep ==
  WindowInv /\ [SamplerNext]_samplerVars => WindowInv'
<1> SUFFICES ASSUME WindowInv, [SamplerNext]_samplerVars PROVE WindowInv'
  OBVIOUS
<1>1. CASE SamplerNext
  <2> PICK period \in Periods, used \in Uses, counted \in BOOLEAN, raises \in BOOLEAN,
          pdtrOk \in BOOLEAN, acpwOk \in BOOLEAN, slowOk \in BOOLEAN :
         SamplerTick(period, used, counted, raises, pdtrOk, acpwOk, slowOk)
    BY <1>1 DEF SamplerNext
  <2> DEFINE t == now + period
  <2> DEFINE slow == tick % SlowEvery = 0
  <2>1. now' = t /\ t \in Nat /\ now <= t
    BY SamplerConstants DEF SamplerTick, WindowInv
  <2>2. Holds(input, inputs, now)' /\ Holds(acpw, acpws, now)'
    <3>1. CASE raises
      <4>1. UNCHANGED <<input, acpw, inputs, acpws>>
        BY <3>1 DEF SamplerTick, FastRaises
      <4> HIDE DEF t
      <4> QED
        BY <2>1, <4>1, SamplerConstants DEF Holds, WindowInv
    <3>2. CASE ~raises
      <4> DEFINE ok == slow /\ acpwOk
      <4>1. /\ input' = Push(input, t, IF pdtrOk THEN t ELSE NoSample)
            /\ inputs' = IF pdtrOk THEN inputs \cup {t} ELSE inputs
            /\ acpw' = Push(acpw, t, IF ok THEN t ELSE NoSample)
            /\ acpws' = IF ok THEN acpws \cup {t} ELSE acpws
        BY <3>2 DEF SamplerTick, Fast
      <4>2. ok \in BOOLEAN
        OBVIOUS
      <4> HIDE DEF t, ok, slow
      <4>3. Holds(input', inputs', t)
        BY <2>1, <4>1, PushKeeps DEF WindowInv
      <4>4. Holds(acpw', acpws', t)
        BY <2>1, <4>1, <4>2, PushKeeps DEF WindowInv
      <4> QED
        BY <2>1, <4>3, <4>4 DEF Holds
    <3> QED
      BY <3>1, <3>2
  <2>3. \A u, v \in input' : v - u <= WindowKeep
    <3>1. input' = input \/ input' = {u \in input \cup {t} : u >= t - WindowKeep}
      BY DEF SamplerTick, FastRaises, Fast, Push
    <3>2. CASE input' = input
      BY <3>2 DEF WindowInv
    <3>3. CASE input' = {u \in input \cup {t} : u >= t - WindowKeep}
      <4>1. input \subseteq 0..now
        BY DEF WindowInv, Holds
      <4> HIDE DEF t
      <4> QED
        BY <2>1, <3>3, <4>1, SamplerConstants DEF WindowInv
    <3> QED
      BY <3>1, <3>2, <3>3
  <2> QED
    BY <2>1, <2>2, <2>3 DEF WindowInv
<1>2. CASE UNCHANGED samplerVars
  BY <1>2 DEF samplerVars, WindowInv, Holds
<1> QED
  BY <1>1, <1>2

\* What the governor is told comes from this tick's readings and windows.
LEMMA ToldStep ==
  WindowInv /\ ToldInv /\ [SamplerNext]_samplerVars => ToldInv'
<1> SUFFICES ASSUME WindowInv, ToldInv, [SamplerNext]_samplerVars PROVE ToldInv'
  OBVIOUS
<1>1. CASE SamplerNext
  <2> PICK period \in Periods, used \in Uses, counted \in BOOLEAN, raises \in BOOLEAN,
          pdtrOk \in BOOLEAN, acpwOk \in BOOLEAN, slowOk \in BOOLEAN :
         SamplerTick(period, used, counted, raises, pdtrOk, acpwOk, slowOk)
    BY <1>1 DEF SamplerNext
  <2> DEFINE t == now + period
  <2> DEFINE slow == tick % SlowEvery = 0
  <2>1. now' = t /\ t \in Nat /\ now <= t
    BY SamplerConstants DEF SamplerTick, WindowInv
  <2>2. /\ told' = [pdtr |-> latest', mean |-> SamplerValues(input', t, MeanSpan),
                    acpw |-> SamplerValues(acpw', t, AcpwSpan), temp |-> Temp(t)]
        /\ IF raises THEN FastRaises ELSE Fast(t, slow, pdtrOk, acpwOk)
    BY DEF SamplerTick, GovInput
  <2>3. WindowInv'
    BY WindowStep
  <2> HIDE DEF t, slow
  <2>4. NeverStaleValid'
    BY <2>1, <2>2 DEF NeverStaleValid, FastRaises, Fast
  <2>5. WindowsExact'
    <3>1. Holds(input', inputs', t) /\ Holds(acpw', acpws', t)
      BY <2>1, <2>3 DEF WindowInv, Holds
    <3>2. /\ SamplerValues(input', t, MeanSpan) = {u \in inputs' : u > t - MeanSpan}
          /\ SamplerValues(acpw', t, AcpwSpan) = {u \in acpws' : u > t - AcpwSpan}
      BY <2>1, <3>1, SpanIsHeld, SamplerConstants
    <3> QED
      BY <2>1, <2>2, <3>2 DEF WindowsExact
  <2>6. TempIsFresh'
    BY <2>1, <2>2 DEF TempIsFresh, Temp
  <2> QED
    BY <2>4, <2>5, <2>6 DEF ToldInv
<1>2. CASE UNCHANGED samplerVars
  BY <1>2 DEF samplerVars, ToldInv, NeverStaleValid, WindowsExact, TempIsFresh
<1> QED
  BY <1>1, <1>2

\* The energy is exact over wraps and over ticks without a reading.
LEMMA EnergyStep ==
  EnergyInv /\ [SamplerNext]_samplerVars => EnergyInv'
<1> SUFFICES ASSUME EnergyInv, [SamplerNext]_samplerVars PROVE EnergyInv'
  OBVIOUS
<1>1. CASE SamplerNext
  <2> PICK period \in Periods, used \in Uses, counted \in BOOLEAN, raises \in BOOLEAN,
          pdtrOk \in BOOLEAN, acpwOk \in BOOLEAN, slowOk \in BOOLEAN :
         SamplerTick(period, used, counted, raises, pdtrOk, acpwOk, slowOk)
    BY <1>1 DEF SamplerNext
  <2> DEFINE counter == (energy + used) % EnergyRange
  <2> DEFINE sum == used + SinceReading
  <2>1. Power(used, counted) /\ energy' = counter /\ since' = sum
    BY DEF SamplerTick, Power, SinceReading
  <2>2. /\ used \in Nat /\ used * (Blind + 1) <= EnergyRange - 1 /\ SinceReading \in Nat
        /\ blind \in 0..Blind /\ SinceReading * (Blind + 1) <= blind * (EnergyRange - 1)
    BY SamplerConstants DEF EnergyInv, SinceReading
  <2>3. sum \in 0..EnergyRange - 1 /\ sum * (Blind + 1) <= (blind + 1) * (EnergyRange - 1)
    BY <2>2, UseBound
  <2>4. used \in 0..EnergyRange - 1
    BY <2>2, <2>3, SamplerConstants
  <2>5. counter \in 0..EnergyRange - 1 /\ counter \in {energy + used, energy + used - EnergyRange}
    BY <2>4, WrapIs DEF EnergyInv
  <2> HIDE DEF counter
  <2>6. lastEnergy # NoSample =>
          /\ lastEnergy \in 0..EnergyRange - 1
          /\ counter \in {lastEnergy + sum, lastEnergy + sum - EnergyRange}
    <3> SUFFICES ASSUME lastEnergy # NoSample
                 PROVE  /\ lastEnergy \in 0..EnergyRange - 1
                        /\ counter \in {lastEnergy + sum, lastEnergy + sum - EnergyRange}
      OBVIOUS
    <3>1. /\ lastEnergy \in 0..EnergyRange - 1
          /\ energy \in {lastEnergy + SinceReading, lastEnergy + SinceReading - EnergyRange}
      BY DEF EnergyInv
    <3> QED
      BY <2>2, <2>3, <2>5, <3>1, SamplerConstants
  <2> HIDE DEF sum
  <2>7. CASE /\ counted /\ lastEnergy' = counter /\ blind' = 0
             /\ pkg' = IF lastEnergy = NoSample THEN NoSample ELSE EnergyDelta(lastEnergy, counter)
    <3>1. SinceReading' = 0 /\ since' \in Nat /\ energy' \in 0..EnergyRange - 1
      BY <2>1, <2>3, <2>5, <2>7 DEF SinceReading
    <3>2. pkg' # NoSample => pkg' = since'
      BY <2>1, <2>3, <2>5, <2>6, <2>7, SamplerConstants DEF EnergyDelta
    <3>3. SinceReading' * (Blind + 1) <= blind' * (EnergyRange - 1)
      BY <2>7, <3>1, SamplerConstants
    <3> QED
      BY <2>1, <2>5, <2>7, <3>1, <3>2, <3>3, SamplerConstants DEF EnergyInv, EnergyExact
  <2>8. CASE /\ ~counted /\ blind < Blind /\ blind' = blind + 1
             /\ pkg' = NoSample /\ UNCHANGED lastEnergy
    <3>1. SinceReading' = sum /\ since' \in Nat /\ blind' \in 0..Blind
      BY <2>1, <2>2, <2>3, <2>8, SamplerConstants DEF SinceReading
    <3>2. SinceReading' * (Blind + 1) <= blind' * (EnergyRange - 1)
      BY <2>3, <2>8, <3>1
    <3> QED
      BY <2>1, <2>5, <2>6, <2>8, <3>1, <3>2 DEF EnergyInv, EnergyExact
  <2> QED
    BY <2>1, <2>7, <2>8 DEF Power
<1>2. CASE UNCHANGED samplerVars
  BY <1>2 DEF samplerVars, EnergyInv, EnergyExact, SinceReading
<1> QED
  BY <1>1, <1>2

\* For all rates, spans and delays of the ticks that SamplerAssumption allows, and
\* any pattern of failed readings: what the governor is told is what was measured,
\* exactly and in time (sampler.py, fast and slow; rapl.py, power; main.py, tick).
THEOREM SamplerIsSafe == SamplerSpec => []SamplerSafe
<1> DEFINE Inv == WindowInv /\ ToldInv /\ EnergyInv
<1>1. SamplerInit => Inv
  <2> SUFFICES ASSUME SamplerInit PROVE Inv
    OBVIOUS
  <2>1. WindowInv
    BY DEF SamplerInit, WindowInv, Holds
  <2>2. ToldInv
    BY DEF SamplerInit, ToldInv, NeverStaleValid, WindowsExact, TempIsFresh
  <2>3. EnergyInv
    BY SamplerConstants DEF SamplerInit, EnergyInv, EnergyExact, SinceReading
  <2> QED
    BY <2>1, <2>2, <2>3
<1>2. Inv /\ [SamplerNext]_samplerVars => Inv'
  BY WindowStep, ToldStep, EnergyStep
<1>3. Inv => SamplerSafe
  BY DEF WindowInv, Holds, ToldInv, EnergyInv, SamplerSafe, SamplerTypeOK
<1> QED
  BY <1>1, <1>2, <1>3, PTL DEF SamplerSpec

-----------------------------------------------------------------------------
(* Fans *)

\* Minima that a fan may be left with.
Within(f) ==
  /\ f \in [Fans -> Nat]
  /\ \A n \in Fans : HwMin[n] <= f[n] /\ f[n] <= FanMax[n] /\ f[n] > 0

\* The modes, ages in ticks or none, and what decide keeps.
FanModes == {"auto", "floor"}
Ages     == Nat \cup {NoReading}
States   == [power_on : BOOLEAN, power_age : Ages, level : 0..3, temp_age : Ages]

\* What the controller and the threads around it may hold.
PlanInv ==
  /\ fanConfig \in FanConfigs /\ seenConfig \subseteq FanConfigs
  /\ pending \subseteq FanModes /\ fanMode \in FanModes
  /\ st \in States /\ fanOps \in Nat

\* Why a fan is left with a floor of its own: what is in the SMC, in memory and in
\* a valid file lies within the fan's range, and a file of the fans' own minima is
\* what the controller restores.
MinimaInv ==
  /\ Within(hw) /\ Within(defaults)
  /\ ValidFile => Within(file)
  /\ DefaultsAreHardware

\* What the controller takes to be written is in the SMC, or it knows that it does
\* not know.
KnownInv ==
  /\ written \in [Fans -> Ages] /\ failed \in [Fans -> [rpm : Nat, age : 0..RetryAfter]]
  /\ \A n \in Fans : written[n] = NoReading \/ written[n] = hw[n]

\* HeatIsAnswered, with the step's rpm, the configured maximum and the fan's own
\* one told apart.
HeatInv ==
  fanMode = "floor" /\ temp # NoReading =>
    \A n \in Fans, step \in 1..3 :
      temp >= fanConfig.t[step] =>
        \/ hw[n] >= fanConfig.rpm[step] \/ hw[n] >= fanConfig.max_rpm \/ hw[n] >= FanMax[n]
        \/ failed[n].rpm # 0

\* The time that decide has counted below a step is at most one tick ahead of the
\* time the temperature has really been below that step's release threshold: a step
\* that was just given up starts the next one's clock whatever the temperature is.
ReleaseInv ==
  /\ cool \in [1..3 -> Ages]
  /\ st.level > 0 /\ st.temp_age # NoReading =>
       cool[st.level] + 1 >= st.temp_age \/ cool[st.level] + 1 >= fanConfig.interval

\* The configurations differ in nothing but the mode and the power rule.
OneLadder ==
  \A c, d \in FanConfigs : /\ c.t = d.t /\ c.rpm = d.rpm /\ c.max_rpm = d.max_rpm
                           /\ c.hysteresis = d.hysteresis /\ c.interval = d.interval

\* What the constants give.
LEMMA FanConstants ==
  /\ Slack \in Nat /\ PowerHyst \in Nat /\ RetryAfter \in Nat
  /\ Within(HwMin) /\ HwMin \in [Fans -> Nat]
  /\ KnownMin \in [Fans -> Nat] /\ FanMax \in [Fans -> Nat]
  /\ \A n \in Fans : Plausible(n, HwMin[n]) /\ KnownMin[n] >= HwMin[n]
  /\ \A t \in Temps : t \in Ages
  /\ \A w \in Powers : w \in Ages
<1>1. /\ Slack \in Nat /\ PowerHyst \in Nat /\ RetryAfter \in Nat
      /\ HwMin \in [Fans -> Nat] /\ KnownMin \in [Fans -> Nat] /\ FanMax \in [Fans -> Nat]
      /\ \A n \in Fans : HwMin[n] > 0 /\ HwMin[n] <= FanMax[n] /\ HwMin[n] <= KnownMin[n]
      /\ Temps \cup Powers \subseteq Ages
  BY FansAssumption DEF Ages
<1>2. Within(HwMin)
  BY <1>1 DEF Within
<1>3. \A n \in Fans : Plausible(n, HwMin[n])
  BY <1>1 DEF Plausible
<1> QED
  BY <1>1, <1>2, <1>3

\* What config.validate lets through.
LEMMA ConfigFacts ==
  ASSUME NEW c \in FanConfigs
  PROVE  /\ c.mode \in FanModes /\ c.interval \in Nat /\ c.hysteresis \in Nat
         /\ c.max_rpm \in Nat /\ c.max_rpm > 0
         /\ c.power_floor_rpm \in Nat /\ c.power_floor_rpm > 0 /\ c.power_floor_w \in Nat
         /\ \A step \in 1..3 : c.t[step] \in Nat /\ c.rpm[step] \in Nat
         /\ \A x, y \in 1..3 : x <= y => c.rpm[x] <= c.rpm[y]
<1>1. /\ c.mode \in FanModes /\ c.t \in [1..3 -> Nat] /\ c.rpm \in [1..3 -> Nat]
      /\ c.interval \in Nat /\ c.hysteresis \in Nat
      /\ c.max_rpm \in Nat /\ c.max_rpm > 0
      /\ c.power_floor_rpm \in Nat /\ c.power_floor_rpm > 0 /\ c.power_floor_w \in Nat
      /\ c.rpm[1] <= c.rpm[2] /\ c.rpm[2] <= c.rpm[3]
  BY FansAssumption DEF FanModes
<1> QED
  BY <1>1

\* The maximum of up to three numbers.
LEMMA MaxOf ==
  ASSUME NEW S, S # {}, NEW a \in Nat, NEW b \in Nat, NEW c \in Nat, S \subseteq {a, b, c}
  PROVE  Max(S) \in S /\ \A y \in S : y <= Max(S)
<1>1. \A y \in S : y = a \/ y = b \/ y = c
  OBVIOUS
<1>2. \E m \in S : \A y \in S : m >= y
  <2>1. CASE a \in S /\ (b \in S => a >= b) /\ (c \in S => a >= c)
    BY <1>1, <2>1
  <2>2. CASE b \in S /\ (a \in S => b >= a) /\ (c \in S => b >= c)
    BY <1>1, <2>2
  <2>3. CASE c \in S /\ (a \in S => c >= a) /\ (b \in S => c >= b)
    BY <1>1, <2>3
  <2>4. a \in S \/ b \in S \/ c \in S
    BY <1>1
  <2> QED
    BY <2>1, <2>2, <2>3, <2>4
<1> QED
  BY <1>2 DEF Max

\* The minimum of up to three numbers.
LEMMA MinOf ==
  ASSUME NEW S, S # {}, NEW a \in Nat, NEW b \in Nat, NEW c \in Nat, S \subseteq {a, b, c}
  PROVE  Min(S) \in S /\ \A y \in S : Min(S) <= y
<1>1. \A y \in S : y = a \/ y = b \/ y = c
  OBVIOUS
<1>2. \E m \in S : \A y \in S : m <= y
  <2>1. CASE a \in S /\ (b \in S => a <= b) /\ (c \in S => a <= c)
    BY <1>1, <2>1
  <2>2. CASE b \in S /\ (a \in S => b <= a) /\ (c \in S => b <= c)
    BY <1>1, <2>2
  <2>3. CASE c \in S /\ (a \in S => c <= a) /\ (b \in S => c <= b)
    BY <1>1, <2>3
  <2>4. a \in S \/ b \in S \/ c \in S
    BY <1>1
  <2> QED
    BY <2>1, <2>2, <2>3, <2>4
<1> QED
  BY <1>2 DEF Min

\* The highest step whose temperature is met.
LEMMA MetIs ==
  ASSUME NEW t \in Nat, NEW c \in FanConfigs
  PROVE  Met(t, c) \in 0..3 /\ \A step \in 1..3 : t >= c.t[step] => step <= Met(t, c)
<1> DEFINE S == {0} \cup {step \in 1..3 : t >= c.t[step]}
<1>1. S \subseteq 0..3 /\ 0 \in S
  OBVIOUS
<1>2. Met(t, c) = Max(S)
  BY DEF Met
<1>3. Max(S) \in S /\ \A y \in S : y <= Max(S)
  <2> HIDE DEF S
  <2>1. \E m \in S : \A y \in S : m >= y
    BY <1>1
  <2> QED
    BY <1>1, <2>1 DEF Max
<1> QED
  BY <1>2, <1>3

\* decide's target is at least the rpm of the engaged step, or max_rpm.
LEMMA TargetIs ==
  ASSUME NEW s \in States, NEW c \in FanConfigs
  PROVE  /\ Target(s, c) \in Nat
         /\ s.level > 0 => Target(s, c) >= c.rpm[s.level] \/ Target(s, c) >= c.max_rpm
<1> DEFINE A == IF s.level > 0 THEN {c.rpm[s.level]} ELSE {}
<1> DEFINE B == IF s.power_on THEN {c.power_floor_rpm} ELSE {}
<1> DEFINE S == {0} \cup A \cup B
<1> DEFINE r == IF s.level > 0 THEN c.rpm[s.level] ELSE 0
<1>1. r \in Nat /\ c.power_floor_rpm \in Nat /\ c.max_rpm \in Nat
  BY ConfigFacts DEF States
<1>2. S # {} /\ S \subseteq {0, r, c.power_floor_rpm}
  OBVIOUS
<1>3. s.level > 0 => c.rpm[s.level] \in S
  OBVIOUS
<1>4. Target(s, c) = Min({c.max_rpm, Max(S)})
  BY DEF Target
<1> HIDE DEF A, B, S
<1>5. Max(S) \in S /\ \A y \in S : y <= Max(S)
  BY <1>1, <1>2, MaxOf
<1>6. Max(S) \in Nat
  <2>1. Max(S) \in {0, r, c.power_floor_rpm}
    BY <1>2, <1>5
  <2> QED
    BY <1>1, <2>1
<1> DEFINE M == {c.max_rpm, Max(S)}
<1>7. Min(M) \in M
  <2>1. M # {} /\ M \subseteq {c.max_rpm, Max(S), Max(S)}
    OBVIOUS
  <2> HIDE DEF M
  <2> QED
    BY <1>1, <1>6, <2>1, MinOf
<1> QED
  BY <1>1, <1>3, <1>4, <1>5, <1>6, <1>7

\* What apply writes lies within the fan's range, and is the target unless
\* max_rpm or the fan's maximum is lower.
LEMMA ClampIs ==
  ASSUME NEW n \in Fans, NEW target \in Nat, NEW max \in Nat, Within(defaults)
  PROVE  LET want == FansClamp(n, target, max) IN
         /\ want \in Nat /\ HwMin[n] <= want /\ want <= FanMax[n] /\ want > 0
         /\ want >= target \/ want >= max \/ want >= FanMax[n]
<1> DEFINE d == defaults[n]
<1> DEFINE f == FanMax[n]
<1>1. d \in Nat /\ f \in Nat /\ HwMin[n] \in Nat /\ HwMin[n] <= d /\ d <= f /\ d > 0
  BY FanConstants DEF Within
<1>2. CASE target = 0
  BY <1>1, <1>2 DEF FansClamp
<1>3. CASE target > 0
  <2> DEFINE low == Max({target, d})
  <2> DEFINE cap == Min({max, f})
  <2> DEFINE high == Max({d, cap})
  <2>1. FansClamp(n, target, max) = Min({low, high})
    BY <1>3 DEF FansClamp
  <2> HIDE DEF d, f
  <2>2. low \in {target, d} /\ low >= target /\ low >= d
    <3>1. {target, d} # {} /\ {target, d} \subseteq {target, d, d}
      OBVIOUS
    <3> QED
      BY <1>1, <3>1, MaxOf
  <2>3. cap \in {max, f} /\ cap <= f
    <3>1. {max, f} # {} /\ {max, f} \subseteq {max, f, f}
      OBVIOUS
    <3> QED
      BY <1>1, <3>1, MinOf
  <2> HIDE DEF low, cap
  <2>4. high \in {d, cap} /\ high >= d /\ high >= cap
    <3>1. {d, cap} # {} /\ {d, cap} \subseteq {d, cap, cap}
      OBVIOUS
    <3> QED
      BY <1>1, <2>3, <3>1, MaxOf
  <2> HIDE DEF high
  <2>5. Min({low, high}) \in {low, high} /\ Min({low, high}) <= high
    <3>1. {low, high} # {} /\ {low, high} \subseteq {low, high, high}
      OBVIOUS
    <3> QED
      BY <1>1, <2>2, <2>3, <2>4, <3>1, MinOf
  <2> QED
    BY <1>1, <2>1, <2>2, <2>3, <2>4, <2>5 DEF d, f
<1> QED
  BY <1>2, <1>3

\* apply, with writes that fail, that land although the readback failed, and that
\* are not due: the fan ends up with what is wanted or its failure is remembered.
LEMMA ApplyFacts ==
  ASSUME MinimaInv, KnownInv, NEW target \in Nat, NEW max \in Nat, NEW ok,
         FansApply(target, max, ok)
  PROVE  /\ Within(hw') /\ KnownInv'
         /\ \A n \in Fans : hw'[n] = FansClamp(n, target, max) \/ failed'[n].rpm # 0
<1> DEFINE want(n) == FansClamp(n, target, max)
<1>1. \A n \in Fans : /\ want(n) \in Nat /\ want(n) > 0 /\ want(n) # NoReading
                      /\ HwMin[n] <= want(n) /\ want(n) <= FanMax[n]
  BY ClampIs DEF MinimaInv, NoReading
<1>2. PICK landed \in SUBSET Fans :
        /\ ok \subseteq landed
        /\ hw' = [n \in Fans |-> IF Due(n, want(n)) /\ n \in landed THEN want(n) ELSE hw[n]]
  BY DEF FansApply
<1>3. /\ written' = [n \in Fans |-> IF ~Due(n, want(n)) THEN written[n]
                                    ELSE IF n \in ok THEN want(n) ELSE NoReading]
      /\ failed' = [n \in Fans |-> IF ~Due(n, want(n)) THEN FansAged(failed[n])
                                   ELSE IF n \in ok THEN NoFailure
                                   ELSE [rpm |-> want(n), age |-> 0]]
  BY DEF FansApply
<1> HIDE DEF want
<1>4. Within(hw')
  BY <1>1, <1>2 DEF MinimaInv, Within
<1>5. written' \in [Fans -> Ages]
  BY <1>1, <1>3 DEF KnownInv, Ages
<1>6. \A f \in [rpm : Nat, age : 0..RetryAfter] :
        FansAged(f) \in [rpm : Nat, age : 0..RetryAfter] /\ FansAged(f).rpm = f.rpm
  BY FanConstants DEF FansAged
<1>7. failed' \in [Fans -> [rpm : Nat, age : 0..RetryAfter]]
  <2>1. NoFailure \in [rpm : Nat, age : 0..RetryAfter]
    BY FanConstants DEF NoFailure
  <2>2. \A n \in Fans : [rpm |-> want(n), age |-> 0] \in [rpm : Nat, age : 0..RetryAfter]
    BY <1>1, FanConstants
  <2> QED
    BY <1>3, <1>6, <2>1, <2>2 DEF KnownInv
<1>8. \A n \in Fans : written'[n] = NoReading \/ written'[n] = hw'[n]
  BY <1>2, <1>3 DEF KnownInv
<1>9. \A n \in Fans : hw'[n] = want(n) \/ failed'[n].rpm # 0
  <2> SUFFICES ASSUME NEW n \in Fans PROVE hw'[n] = want(n) \/ failed'[n].rpm # 0
    OBVIOUS
  <2>1. CASE Due(n, want(n)) /\ n \in ok
    BY <1>2, <2>1
  <2>2. CASE Due(n, want(n)) /\ n \notin ok
    BY <1>1, <1>3, <2>2
  <2>3. CASE ~Due(n, want(n))
    <3>1. want(n) = written[n] \/ failed[n].rpm = want(n)
      BY <2>3 DEF Due
    <3>2. hw'[n] = hw[n] /\ failed'[n].rpm = failed[n].rpm
      BY <1>2, <1>3, <1>6, <2>3 DEF KnownInv
    <3> QED
      BY <1>1, <3>1, <3>2 DEF KnownInv
  <2> QED
    BY <2>1, <2>2, <2>3
<1> QED
  BY <1>4, <1>5, <1>7, <1>8, <1>9 DEF want, KnownInv

\* restore, of which any write may fail.
LEMMA RestoreFacts ==
  ASSUME MinimaInv, KnownInv, NEW ok, Restore(defaults, ok)
  PROVE  Within(hw') /\ KnownInv' /\ st' = FanState0
<1> DEFINE same(n) == hw[n] = defaults[n]
<1>1. PICK landed \in SUBSET Fans :
        /\ ok \subseteq landed
        /\ hw' = [n \in Fans |-> IF n \in landed THEN defaults[n] ELSE hw[n]]
  BY DEF Restore
<1>2. /\ st' = FanState0
      /\ written' = [n \in Fans |-> IF same(n) \/ n \in ok THEN defaults[n] ELSE NoReading]
      /\ failed' = [n \in Fans |-> IF ~same(n) /\ n \in ok THEN NoFailure ELSE failed[n]]
  BY DEF Restore
<1>3. Within(hw')
  BY <1>1 DEF MinimaInv, Within
<1>4. written' \in [Fans -> Ages]
  BY <1>2 DEF MinimaInv, Within, Ages
<1>5. failed' \in [Fans -> [rpm : Nat, age : 0..RetryAfter]]
  <2>1. NoFailure \in [rpm : Nat, age : 0..RetryAfter]
    BY FanConstants DEF NoFailure
  <2> QED
    BY <1>2, <2>1 DEF KnownInv
<1>6. \A n \in Fans : written'[n] = NoReading \/ written'[n] = hw'[n]
  BY <1>1, <1>2
<1> QED
  BY <1>2, <1>3, <1>4, <1>5, <1>6 DEF KnownInv

\* decide's ladder: up at once, down a step at a time and only after the interval.
LEMMA LadderIs ==
  ASSUME st \in States, NEW c \in FanConfigs, NEW t \in Ages
  PROVE  LET l == Ladder(t, c) IN
         /\ l.level \in 0..3 /\ l.age \in Ages
         /\ t # NoReading => \A step \in 1..3 : t >= c.t[step] => step <= l.level
         /\ l.level < st.level => t = NoReading \/
              /\ l.level = st.level - 1 /\ t < c.t[st.level] - c.hysteresis
              /\ Older(st.temp_age) >= c.interval
         /\ l.age # NoReading => l.age = 0 \/
              /\ t # NoReading /\ l.level = st.level /\ l.age = Older(st.temp_age)
              /\ t < c.t[st.level] - c.hysteresis
<1>1. st.level \in 0..3 /\ st.temp_age \in Ages /\ Older(st.temp_age) \in Nat
  BY DEF States, Ages, Older, NoReading
<1>2. CASE t = NoReading
  BY <1>1, <1>2 DEF Ladder, Ages
<1>3. CASE t # NoReading /\ Met(t, c) >= st.level
  BY <1>1, <1>3, MetIs DEF Ladder, Ages
<1>4. CASE t # NoReading /\ Met(t, c) < st.level
  <2>1. Met(t, c) \in 0..3 /\ \A step \in 1..3 : t >= c.t[step] => step <= Met(t, c)
    BY <1>4, MetIs DEF Ages
  <2>2. st.level > 0 /\ ~(Met(t, c) >= st.level)
    BY <1>1, <1>4, <2>1
  <2>3. CASE t < c.t[st.level] - c.hysteresis
    <3>1. Ladder(t, c) = StepDown(c)
      BY <1>4, <2>2, <2>3 DEF Ladder
    <3>2. CASE Older(st.temp_age) >= c.interval
      <4>1. /\ StepDown(c).level = st.level - 1
            /\ StepDown(c).age = IF st.level = 1 THEN NoReading ELSE 0
        BY <3>2 DEF StepDown
      <4> QED
        BY <1>1, <1>4, <2>1, <2>2, <2>3, <3>1, <3>2, <4>1 DEF Ages
    <3>3. CASE ~(Older(st.temp_age) >= c.interval)
      <4>1. StepDown(c).level = st.level /\ StepDown(c).age = Older(st.temp_age)
        BY <3>3 DEF StepDown
      <4> QED
        BY <1>1, <1>4, <2>1, <2>2, <2>3, <3>1, <4>1 DEF Ages
    <3> QED
      BY <3>2, <3>3
  <2>4. CASE ~(t < c.t[st.level] - c.hysteresis)
    <3>1. Ladder(t, c) = [level |-> st.level, age |-> NoReading]
      BY <1>4, <2>2, <2>4 DEF Ladder
    <3> QED
      BY <1>1, <1>4, <2>1, <3>1 DEF Ages
  <2> QED
    BY <2>3, <2>4
<1> QED
  BY <1>1, <1>2, <1>3, <1>4, MetIs DEF Ages

\* decide's power rule.
LEMMA PowerIs ==
  ASSUME st \in States, NEW c \in FanConfigs, NEW w \in Ages
  PROVE  PowerRule(w, c).on \in BOOLEAN /\ PowerRule(w, c).age \in Ages
<1>1. st.power_on \in BOOLEAN /\ Older(st.power_age) \in Ages /\ NoReading \in Ages
  BY DEF States, Ages, Older, NoReading
<1> QED
  BY <1>1 DEF PowerRule

\* The kinds of steps: what they do to the minima.
QuietStep == UNCHANGED <<fansCtlVars, defaults, file, temp, cool>>

RestoreStep ==
  /\ fanMode' = "auto" /\ UNCHANGED <<defaults, file, temp, cool>>
  /\ \E ok \in SUBSET Fans : Restore(defaults, ok)

FloorStep ==
  /\ fanMode' = "floor" /\ UNCHANGED <<fanConfig, defaults, file, fanOps>>
  /\ \E c \in FanConfigs, t \in Temps, w \in Powers, ok \in SUBSET Fans :
       TickFloor(c, t, w, ok)

StartStep ==
  \E clean, saves \in BOOLEAN, stopped, ok \in SUBSET Fans :
    FansRestart(clean, stopped, ok, saves)

\* Every step is of one of the four kinds.
LEMMA StepKinds ==
  ASSUME PlanInv, [FansNext]_fansVars
  PROVE  QuietStep \/ RestoreStep \/ FloorStep \/ StartStep
<1>1. CASE TickRead
  BY <1>1 DEF TickRead, QuietStep
<1>2. CASE AnyTick
  <2> PICK t \in Temps, w \in Powers, ok \in SUBSET Fans : FansTick(t, w, ok)
    BY <1>2 DEF AnyTick
  <2> PICK c \in seenConfig :
        /\ fanMode' = c.mode /\ UNCHANGED <<fanConfig, pending, defaults, file, fanOps>>
        /\ IF fanMode' = "floor" THEN TickFloor(c, t, w, ok)
           ELSE /\ UNCHANGED <<temp, cool>>
                /\ IF fanMode # "auto" THEN Restore(defaults, ok)
                   ELSE UNCHANGED <<st, written, failed, hw>>
    BY DEF FansTick, Follows
  <2>1. c \in FanConfigs /\ c.mode \in FanModes
    BY ConfigFacts DEF PlanInv
  <2>2. CASE fanMode' = "floor"
    BY <2>1, <2>2 DEF FloorStep
  <2>3. CASE fanMode' = "auto" /\ fanMode # "auto"
    BY <2>3 DEF RestoreStep
  <2>4. CASE fanMode' = "auto" /\ fanMode = "auto"
    BY <2>4 DEF QuietStep, fansCtlVars
  <2> QED
    BY <2>1, <2>2, <2>3, <2>4 DEF FanModes
<1>3. CASE AnyOnConfig
  <2> PICK m \in FanModes, ok \in SUBSET Fans : OnConfig(m, ok)
    BY <1>3 DEF AnyOnConfig, FanModes
  <2>1. CASE m = "auto" /\ fanMode # "auto"
    BY <2>1 DEF OnConfig, RestoreStep
  <2>2. CASE ~(m = "auto" /\ fanMode # "auto")
    BY <2>2 DEF OnConfig, QuietStep
  <2> QED
    BY <2>1, <2>2
<1>4. CASE \E c \in FanConfigs : FansSetConfig(c)
  BY <1>4 DEF FansSetConfig, QuietStep
<1>5. CASE \E clean, saves \in BOOLEAN, stopped, ok \in SUBSET Fans :
             FansRestart(clean, stopped, ok, saves)
  BY <1>5 DEF StartStep
<1>6. CASE UNCHANGED fansVars
  BY <1>6 DEF fansVars, QuietStep
<1> QED
  BY <1>1, <1>2, <1>3, <1>4, <1>5, <1>6 DEF FansNext

\* A tick in mode floor: every fan is at the step that the temperature asks for.
LEMMA FloorFacts ==
  ASSUME PlanInv, MinimaInv, KnownInv,
         NEW c \in FanConfigs, NEW t \in Temps, NEW w \in Powers, NEW ok \in SUBSET Fans,
         TickFloor(c, t, w, ok)
  PROVE  /\ st' \in States /\ Within(hw') /\ KnownInv' /\ temp' = t /\ t \in Ages
         /\ \A n \in Fans, step \in 1..3 :
              t # NoReading /\ t >= c.t[step] =>
                \/ hw'[n] >= c.rpm[step] \/ hw'[n] >= c.max_rpm \/ hw'[n] >= FanMax[n]
                \/ failed'[n].rpm # 0
<1>1. t \in Ages /\ w \in Ages /\ st \in States /\ Within(defaults)
  BY FanConstants DEF PlanInv, MinimaInv
<1>2. /\ st' = IF fanMode = "floor" THEN Decide(t, w, c)
               ELSE [power_on |-> w # NoReading /\ w >= c.power_floor_w, power_age |-> NoReading,
                     level |-> IF t = NoReading THEN 0 ELSE Met(t, c), temp_age |-> NoReading]
      /\ FansApply(Target(st', c), c.max_rpm, ok) /\ temp' = t
  BY DEF TickFloor
<1>3. /\ st' \in States
      /\ t # NoReading => \A step \in 1..3 : t >= c.t[step] => step <= st'.level
  <2>1. CASE fanMode = "floor"
    <3>1. /\ st'.level = Ladder(t, c).level
          /\ st' = [power_on |-> PowerRule(w, c).on, power_age |-> PowerRule(w, c).age,
                    level |-> Ladder(t, c).level, temp_age |-> Ladder(t, c).age]
      BY <1>2, <2>1 DEF Decide
    <3>2. st' \in States
      BY <1>1, <3>1, LadderIs, PowerIs DEF States
    <3> QED
      BY <1>1, <3>1, <3>2, LadderIs
  <2>2. CASE fanMode # "floor"
    <3>1. t # NoReading => t \in Nat
      BY <1>1 DEF Ages
    <3>2. NoReading \in Ages
      BY DEF Ages
    <3>3. st'.level \in 0..3
      BY <1>2, <2>2, <3>1, MetIs
    <3>4. (w # NoReading /\ w >= c.power_floor_w) \in BOOLEAN
      OBVIOUS
    <3>5. st' \in States
      BY <1>2, <2>2, <3>2, <3>3, <3>4 DEF States
    <3> QED
      BY <1>2, <2>2, <3>1, <3>5, MetIs
  <2> QED
    BY <2>1, <2>2
<1>4. /\ Target(st', c) \in Nat /\ c.max_rpm \in Nat
      /\ st'.level > 0 => Target(st', c) >= c.rpm[st'.level] \/ Target(st', c) >= c.max_rpm
  BY <1>3, TargetIs, ConfigFacts
<1>5. /\ Within(hw') /\ KnownInv'
      /\ \A n \in Fans :
           hw'[n] = FansClamp(n, Target(st', c), c.max_rpm) \/ failed'[n].rpm # 0
  BY <1>2, <1>4, ApplyFacts
<1>6. ASSUME NEW n \in Fans, NEW step \in 1..3, t # NoReading, t >= c.t[step]
      PROVE  \/ hw'[n] >= c.rpm[step] \/ hw'[n] >= c.max_rpm \/ hw'[n] >= FanMax[n]
             \/ failed'[n].rpm # 0
  <2> DEFINE level == st'.level
  <2>1. level \in 1..3 /\ step <= level
    BY <1>3, <1>6 DEF States
  <2>2. c.rpm[step] \in Nat /\ c.rpm[level] \in Nat /\ c.rpm[step] <= c.rpm[level]
    BY <2>1, ConfigFacts
  <2> DEFINE target == Target(st', c)
  <2>3. target \in Nat /\ (target >= c.rpm[level] \/ target >= c.max_rpm)
    BY <1>4, <2>1
  <2> DEFINE want == FansClamp(n, target, c.max_rpm)
  <2>4. want \in Nat /\ (want >= target \/ want >= c.max_rpm \/ want >= FanMax[n])
    BY <1>1, <1>4, ClampIs
  <2>5. hw'[n] = want \/ failed'[n].rpm # 0
    BY <1>5
  <2> HIDE DEF level, target, want
  <2> QED
    BY <1>4, <2>2, <2>3, <2>4, <2>5
<1> QED
  BY <1>1, <1>2, <1>3, <1>5, <1>6

\* A stop or crash and the start after it, with or without a saved file: what is
\* found, captured and saved lies within the fans' ranges.
LEMMA StartIs ==
  ASSUME PlanInv, MinimaInv, NEW clean \in BOOLEAN, NEW saves \in BOOLEAN,
         NEW stopped \in SUBSET Fans, NEW ok \in SUBSET Fans,
         FansRestart(clean, stopped, ok, saves)
  PROVE  /\ MinimaInv' /\ KnownInv' /\ PlanInv'
         /\ st' = FanState0 /\ temp' = NoReading /\ cool' = [step \in 1..3 |-> NoReading]
<1> DEFINE live == [n \in Fans |-> IF clean /\ n \in stopped THEN defaults[n] ELSE hw[n]]
<1> DEFINE d == LoadOrCapture(live)
<1> DEFINE clear == fanConfig.mode = "auto"
<1>1. /\ fanMode' = fanConfig.mode /\ st' = FanState0
      /\ hw' = [n \in Fans |-> IF clear /\ n \in ok THEN d[n] ELSE live[n]]
      /\ written' = [n \in Fans |-> IF ~clear \/ live[n] = d[n] THEN live[n]
                                    ELSE IF n \in ok THEN d[n] ELSE NoReading]
      /\ failed' = [n \in Fans |-> NoFailure] /\ defaults' = d
  BY DEF FansRestart, StartWith
<1>2. /\ file' = Saved(live, saves) /\ seenConfig' = {} /\ pending' = {} /\ temp' = NoReading
      /\ cool' = [step \in 1..3 |-> NoReading] /\ fanConfig' = fanConfig
      /\ fanOps' = fanOps + 1
  BY DEF FansRestart, FansOp
<1>3. Within(live)
  BY DEF MinimaInv, Within
<1> HIDE DEF live
<1>4. Within(d)
  <2>1. CASE ValidFile
    BY <2>1 DEF LoadOrCapture, MinimaInv
  <2>2. CASE ~ValidFile
    <3>1. d = [n \in Fans |-> IF Plausible(n, live[n]) THEN live[n] ELSE KnownMin[n]]
      BY <2>2 DEF LoadOrCapture
    <3>2. ASSUME NEW n \in Fans, ~Plausible(n, live[n])
          PROVE  KnownMin[n] <= FanMax[n]
      <4>1. live[n] \in Nat /\ KnownMin[n] \in Nat /\ FanMax[n] \in Nat /\ Slack \in Nat
        BY <1>3, FanConstants DEF Within
      <4>2. live[n] > KnownMin[n] + Slack /\ live[n] <= FanMax[n]
        BY <1>3, <3>2, <4>1 DEF Plausible, Within
      <4> QED
        BY <4>1, <4>2
    <3>3. \A n \in Fans : /\ KnownMin[n] \in Nat /\ KnownMin[n] >= HwMin[n]
                          /\ HwMin[n] \in Nat /\ HwMin[n] > 0
      BY FanConstants DEF Within
    <3> HIDE DEF d
    <3>4. \A n \in Fans : d[n] = live[n] \/ (d[n] = KnownMin[n] /\ KnownMin[n] <= FanMax[n])
      BY <3>1, <3>2
    <3>5. d \in [Fans -> Nat]
      BY <1>3, <3>1, <3>3 DEF Within
    <3> QED
      BY <1>3, <3>3, <3>4, <3>5 DEF Within
  <2> QED
    BY <2>1, <2>2
<1>5. (ValidFile => Within(file))' /\ DefaultsAreHardware'
  <2>1. CASE ValidFile
    <3>1. file' = file /\ d = file
      BY <1>2, <2>1 DEF Saved, LoadOrCapture
    <3> QED
      BY <1>1, <1>4, <3>1 DEF DefaultsAreHardware
  <2>2. CASE ~ValidFile /\ saves /\ \A n \in Fans : Plausible(n, live[n])
    <3>1. file' = live
      BY <1>2, <2>2 DEF Saved
    <3>2. d = live
      <4>1. d = [n \in Fans |-> live[n]]
        BY <2>2 DEF LoadOrCapture
      <4> QED
        BY <1>3, <4>1 DEF Within
    <3> QED
      BY <1>1, <1>3, <3>1, <3>2 DEF DefaultsAreHardware
  <2>3. CASE ~ValidFile /\ ~(saves /\ \A n \in Fans : Plausible(n, live[n]))
    <3>1. file' = file
      BY <1>2, <2>3 DEF Saved
    <3>2. file # HwMin
      BY <2>3, FanConstants DEF ValidFile
    <3>3. ~ValidFile'
      BY <2>3, <3>1 DEF ValidFile
    <3> QED
      BY <3>1, <3>2, <3>3 DEF DefaultsAreHardware
  <2> QED
    BY <2>1, <2>2, <2>3
<1> HIDE DEF d, clear
<1>6. Within(hw')
  BY <1>1, <1>3, <1>4 DEF Within
<1>7. KnownInv'
  <2>1. written' \in [Fans -> Ages]
    BY <1>1, <1>3, <1>4 DEF Within, Ages
  <2>2. NoFailure \in [rpm : Nat, age : 0..RetryAfter]
    BY FanConstants DEF NoFailure
  <2>3. \A n \in Fans : written'[n] = NoReading \/ written'[n] = hw'[n]
    BY <1>1
  <2> QED
    BY <1>1, <2>1, <2>2, <2>3 DEF KnownInv
<1>8. PlanInv'
  <2>1. FanState0 \in States
    BY DEF FanState0, States, Ages
  <2> QED
    BY <1>1, <1>2, <2>1, ConfigFacts DEF PlanInv
<1> QED
  BY <1>1, <1>2, <1>4, <1>5, <1>6, <1>7, <1>8 DEF MinimaInv

\* Every step keeps the types.
LEMMA PlanStep ==
  PlanInv /\ MinimaInv /\ KnownInv /\ [FansNext]_fansVars => PlanInv'
<1> SUFFICES ASSUME PlanInv, MinimaInv, KnownInv, [FansNext]_fansVars PROVE PlanInv'
  OBVIOUS
<1>1. st' \in States
  <2>1. CASE QuietStep
    BY <2>1 DEF QuietStep, fansCtlVars, PlanInv
  <2>2. CASE RestoreStep
    BY <2>2 DEF RestoreStep, Restore, FanState0, States, Ages
  <2>3. CASE FloorStep
    BY <2>3, FloorFacts DEF FloorStep
  <2>4. CASE StartStep
    BY <2>4, StartIs DEF StartStep, PlanInv
  <2> QED
    BY <2>1, <2>2, <2>3, <2>4, StepKinds
<1>2. CASE TickRead
  BY <1>1, <1>2 DEF TickRead, fansCtlVars, PlanInv
<1>3. CASE AnyTick
  BY <1>1, <1>3, ConfigFacts DEF AnyTick, FansTick, Follows, PlanInv
<1>4. CASE AnyOnConfig
  BY <1>1, <1>4 DEF AnyOnConfig, OnConfig, fansCtlVars, PlanInv, FanModes
<1>5. CASE \E c \in FanConfigs : FansSetConfig(c)
  BY <1>1, <1>5, ConfigFacts DEF FansSetConfig, FansOp, fansCtlVars, PlanInv
<1>6. CASE \E clean, saves \in BOOLEAN, stopped, ok \in SUBSET Fans :
             FansRestart(clean, stopped, ok, saves)
  BY <1>6, StartIs
<1>7. CASE UNCHANGED fansVars
  BY <1>7 DEF fansVars, fansCtlVars, PlanInv
<1> QED
  BY <1>2, <1>3, <1>4, <1>5, <1>6, <1>7 DEF FansNext

\* Every step keeps the minima within the fans' ranges, and known.
LEMMA MinimaStep ==
  PlanInv /\ MinimaInv /\ KnownInv /\ [FansNext]_fansVars => MinimaInv' /\ KnownInv'
<1> SUFFICES ASSUME PlanInv, MinimaInv, KnownInv, [FansNext]_fansVars
             PROVE  MinimaInv' /\ KnownInv'
  OBVIOUS
<1>1. UNCHANGED <<defaults, file>> /\ Within(hw)' => MinimaInv'
  BY DEF MinimaInv, Within, ValidFile, DefaultsAreHardware
<1>2. CASE QuietStep
  BY <1>1, <1>2 DEF QuietStep, fansCtlVars, MinimaInv, KnownInv, Within
<1>3. CASE RestoreStep
  BY <1>1, <1>3, RestoreFacts DEF RestoreStep, Within
<1>4. CASE FloorStep
  BY <1>1, <1>4, FloorFacts DEF FloorStep, Within
<1>5. CASE StartStep
  BY <1>5, StartIs DEF StartStep
<1> QED
  BY <1>2, <1>3, <1>4, <1>5, StepKinds

\* Every tick answers heat; a change of mode or a restart waits for the next tick.
LEMMA HeatStep ==
  OneLadder /\ PlanInv /\ MinimaInv /\ KnownInv /\ HeatInv /\ [FansNext]_fansVars => HeatInv'
<1> SUFFICES ASSUME OneLadder, PlanInv, MinimaInv, KnownInv, HeatInv, [FansNext]_fansVars
             PROVE  HeatInv'
  OBVIOUS
<1>1. fanConfig \in FanConfigs /\ fanConfig' \in FanConfigs
  BY PlanStep DEF PlanInv
<1>2. CASE QuietStep
  BY <1>1, <1>2 DEF QuietStep, fansCtlVars, HeatInv, OneLadder
<1>3. CASE RestoreStep
  BY <1>3 DEF RestoreStep, HeatInv
<1>4. CASE FloorStep
  <2> PICK c \in FanConfigs, t \in Temps, w \in Powers, ok \in SUBSET Fans :
        TickFloor(c, t, w, ok)
    BY <1>4 DEF FloorStep
  <2> QED
    BY <1>1, FloorFacts DEF HeatInv, OneLadder
<1>5. CASE StartStep
  BY <1>5, StartIs DEF StartStep, HeatInv
<1> QED
  BY <1>2, <1>3, <1>4, <1>5, StepKinds

\* How a tick in mode floor moves the ladder's clock and the history of it.
LEMMA FloorAges ==
  ASSUME PlanInv, ReleaseInv, NEW c \in FanConfigs, NEW t \in Temps, NEW w \in Powers,
         NEW ok \in SUBSET Fans, TickFloor(c, t, w, ok)
  PROVE  /\ cool' \in [1..3 -> Ages]
         /\ \A step \in 1..3 : t # NoReading /\ t < c.t[step] - c.hysteresis =>
              cool'[step] = cool[step] + 1 \/ cool'[step] = c.interval
         /\ \/ fanMode # "floor" /\ st'.temp_age = NoReading
            \/ st'.level = Ladder(t, c).level /\ st'.temp_age = Ladder(t, c).age
<1>1. cool' = Cooler(t, c) /\ c.interval \in Nat
  BY ConfigFacts DEF TickFloor
<1>2. \A step \in 1..3 : /\ cool[step] + 1 \in Nat
                         /\ LET m == Min({cool[step] + 1, c.interval})
                            IN  m \in Nat /\ (m = cool[step] + 1 \/ m = c.interval)
  <2> SUFFICES ASSUME NEW step \in 1..3
               PROVE  /\ cool[step] + 1 \in Nat
                      /\ LET m == Min({cool[step] + 1, c.interval})
                         IN  m \in Nat /\ (m = cool[step] + 1 \/ m = c.interval)
    OBVIOUS
  <2> DEFINE more == cool[step] + 1
  <2>1. more \in Nat
    BY DEF ReleaseInv, Ages, NoReading
  <2> HIDE DEF more
  <2>2. {more, c.interval} # {} /\ {more, c.interval} \subseteq {more, c.interval, c.interval}
    OBVIOUS
  <2>3. Min({more, c.interval}) \in {more, c.interval}
    BY <1>1, <2>1, <2>2, MinOf
  <2> QED
    BY <1>1, <2>1, <2>3 DEF more
<1>3. cool' \in [1..3 -> Ages]
  BY <1>1, <1>2 DEF Cooler, Ages
<1>4. \A step \in 1..3 : t # NoReading /\ t < c.t[step] - c.hysteresis =>
        cool'[step] = cool[step] + 1 \/ cool'[step] = c.interval
  BY <1>1, <1>2 DEF Cooler
<1>5. \/ fanMode # "floor" /\ st'.temp_age = NoReading
      \/ st'.level = Ladder(t, c).level /\ st'.temp_age = Ladder(t, c).age
  BY DEF TickFloor, Decide
<1> QED
  BY <1>3, <1>4, <1>5

\* Every step keeps the ladder's clock behind the temperature's history.
LEMMA ReleaseStep ==
  OneLadder /\ PlanInv /\ MinimaInv /\ KnownInv /\ ReleaseInv /\ [FansNext]_fansVars
    => ReleaseInv'
<1> SUFFICES ASSUME OneLadder, PlanInv, MinimaInv, KnownInv, ReleaseInv, [FansNext]_fansVars
             PROVE  ReleaseInv'
  OBVIOUS
<1>1. /\ fanConfig \in FanConfigs /\ fanConfig' \in FanConfigs /\ st \in States /\ st' \in States
      /\ fanConfig'.interval \in Nat
  BY PlanStep, ConfigFacts DEF PlanInv
<1>2. CASE QuietStep
  BY <1>1, <1>2 DEF QuietStep, fansCtlVars, ReleaseInv, OneLadder
<1>3. CASE RestoreStep
  <2>1. st' = FanState0 /\ cool' = cool
    BY <1>3 DEF RestoreStep, Restore
  <2> QED
    BY <2>1 DEF ReleaseInv, FanState0
<1>4. CASE FloorStep
  <2> PICK c \in FanConfigs, t \in Temps, w \in Powers, ok \in SUBSET Fans :
        TickFloor(c, t, w, ok)
    BY <1>4 DEF FloorStep
  <2>1. /\ cool' \in [1..3 -> Ages] /\ t \in Ages /\ c.interval = fanConfig'.interval
        /\ c.interval = fanConfig.interval
    BY <1>1, FloorAges, FanConstants DEF OneLadder
  <2> SUFFICES ASSUME st'.level > 0, st'.temp_age # NoReading
               PROVE  \/ cool'[st'.level] + 1 >= st'.temp_age
                      \/ cool'[st'.level] + 1 >= fanConfig'.interval
    BY <2>1 DEF ReleaseInv
  <2>2. st'.level \in 1..3 /\ cool'[st'.level] + 1 \in Nat
    BY <1>1, <2>1 DEF States, Ages, NoReading
  <2>3. st'.level = Ladder(t, c).level /\ st'.temp_age = Ladder(t, c).age
    BY FloorAges
  <2>4. st'.temp_age = 0 \/
          /\ t # NoReading /\ st'.level = st.level /\ st'.temp_age = Older(st.temp_age)
          /\ t < c.t[st.level] - c.hysteresis
    BY <1>1, <2>1, <2>3, LadderIs
  <2>5. CASE st'.temp_age = 0
    BY <2>2, <2>5
  <2>6. CASE /\ t # NoReading /\ st'.level = st.level /\ st'.temp_age = Older(st.temp_age)
             /\ t < c.t[st.level] - c.hysteresis
    <3>1. cool'[st.level] = cool[st.level] + 1 \/ cool'[st.level] = c.interval
      BY <2>2, <2>6, FloorAges
    <3>2. cool[st.level] + 1 \in Nat
      BY <2>2, <2>6 DEF ReleaseInv, Ages, NoReading
    <3>3. \/ st'.temp_age = 0
          \/ st.temp_age # NoReading /\ st'.temp_age = st.temp_age + 1 /\ st.temp_age \in Nat
      BY <1>1, <2>6 DEF Older, States, Ages
    <3>4. \/ st'.temp_age = 0
          \/ cool[st.level] + 1 >= st.temp_age \/ cool[st.level] + 1 >= c.interval
      BY <2>1, <2>2, <2>6, <3>3 DEF ReleaseInv
    <3> QED
      BY <1>1, <2>1, <2>2, <2>6, <3>1, <3>2, <3>3, <3>4
  <2> QED
    BY <2>4, <2>5, <2>6
<1>5. CASE StartStep
  <2>1. st' = FanState0 /\ cool' = [step \in 1..3 |-> NoReading]
    BY <1>5, StartIs DEF StartStep
  <2> QED
    BY <2>1 DEF ReleaseInv, FanState0, Ages
<1> QED
  BY <1>2, <1>3, <1>4, <1>5, StepKinds

\* A step of the ladder is only given up after its interval.
LEMMA SlowStep ==
  OneLadder /\ PlanInv /\ ReleaseInv /\ [FansNext]_fansVars
    => [ReleasedAfter(fanConfig.interval - 1)]_fansVars
<1> SUFFICES ASSUME OneLadder, PlanInv, ReleaseInv, [FansNext]_fansVars
             PROVE  ReleasedAfter(fanConfig.interval - 1)
  OBVIOUS
<1> SUFFICES ASSUME st'.level < st.level, fanMode = "floor", fanMode' = "floor",
                    fanOps' = fanOps
             PROVE  \/ temp' = NoReading
                    \/ st'.level = st.level - 1 /\ cool'[st.level] >= fanConfig.interval - 1
  BY DEF ReleasedAfter
<1>1. fanConfig \in FanConfigs /\ st \in States /\ fanConfig.interval \in Nat /\ st.level \in 0..3
  BY ConfigFacts DEF PlanInv, States
<1>2. CASE QuietStep
  BY <1>1, <1>2 DEF QuietStep, fansCtlVars
<1>3. CASE RestoreStep
  BY <1>3 DEF RestoreStep
<1>4. CASE FloorStep
  <2> PICK c \in FanConfigs, t \in Temps, w \in Powers, ok \in SUBSET Fans :
        TickFloor(c, t, w, ok)
    BY <1>4 DEF FloorStep
  <2>1. /\ t \in Ages /\ temp' = t /\ c.interval = fanConfig.interval
        /\ st'.level = Ladder(t, c).level
    BY <1>1, FloorAges, FanConstants DEF OneLadder, TickFloor, Decide
  <2>2. CASE t = NoReading
    BY <2>1, <2>2
  <2>3. CASE t # NoReading
    <3>1. /\ st'.level = st.level - 1 /\ t < c.t[st.level] - c.hysteresis
          /\ Older(st.temp_age) >= c.interval
      BY <1>1, <2>1, <2>3, LadderIs
    <3>2. st.level \in 1..3
      BY <1>1, <2>1, LadderIs
    <3>3. cool'[st.level] = cool[st.level] + 1 \/ cool'[st.level] = c.interval
      BY <2>3, <3>1, <3>2, FloorAges
    <3>4. cool[st.level] + 1 \in Nat
      BY <3>2 DEF ReleaseInv, Ages, NoReading
    <3>5. \/ st.temp_age = NoReading /\ c.interval <= 0
          \/ st.temp_age # NoReading /\ st.temp_age \in Nat /\ st.temp_age + 1 >= c.interval
      BY <1>1, <3>1 DEF Older, States, Ages
    <3>6. \/ c.interval <= 0
          \/ cool[st.level] + 1 >= st.temp_age \/ cool[st.level] + 1 >= c.interval
      BY <2>1, <3>2, <3>5 DEF ReleaseInv
    <3>7. cool'[st.level] >= c.interval - 1
      BY <1>1, <2>1, <3>3, <3>4, <3>5, <3>6
    <3> QED
      BY <2>1, <3>1, <3>7
  <2> QED
    BY <2>2, <2>3
<1>5. CASE StartStep
  <2>1. fanOps' = fanOps + 1
    BY <1>5 DEF StartStep, FansRestart, FansOp
  <2>2. FALSE
    BY <2>1 DEF PlanInv
  <2> QED
    BY <2>2
<1> QED
  BY <1>2, <1>3, <1>4, <1>5, StepKinds

\* The first start is within the invariants.
LEMMA InitIs == FansInit => PlanInv /\ MinimaInv /\ KnownInv /\ HeatInv /\ ReleaseInv
<1> SUFFICES ASSUME FansInit PROVE PlanInv /\ MinimaInv /\ KnownInv /\ HeatInv /\ ReleaseInv
  OBVIOUS
<1>1. /\ fanConfig \in FanConfigs /\ fanMode = fanConfig.mode /\ st = FanState0
      /\ hw = HwMin /\ defaults = HwMin /\ written = HwMin /\ file \in {HwMin, <<>>}
      /\ failed = [n \in Fans |-> NoFailure]
      /\ seenConfig = {} /\ pending = {} /\ fanOps = 0
      /\ temp = NoReading /\ cool = [step \in 1..3 |-> NoReading]
  BY DEF FansInit
<1>2. Within(HwMin) /\ HwMin \in [Fans -> Nat]
  BY FanConstants
<1>3. PlanInv
  BY <1>1, ConfigFacts DEF PlanInv, FanState0, States, Ages
<1>4. MinimaInv
  <2>1. file = <<>> /\ ValidFile => Within(file)
    <3> SUFFICES ASSUME file = <<>>, ValidFile PROVE Within(file)
      OBVIOUS
    <3>1. Fans = {}
      BY DEF ValidFile
    <3> QED
      BY <1>2, <3>1 DEF Within
  <2> QED
    BY <1>1, <1>2, <2>1 DEF MinimaInv, DefaultsAreHardware
<1>5. KnownInv
  <2>1. NoFailure \in [rpm : Nat, age : 0..RetryAfter]
    BY FanConstants DEF NoFailure
  <2> QED
    BY <1>1, <1>2, <2>1 DEF KnownInv, Ages
<1>6. HeatInv /\ ReleaseInv
  BY <1>1 DEF HeatInv, ReleaseInv, FanState0, Ages
<1> QED
  BY <1>3, <1>4, <1>5, <1>6

\* HeatInv is HeatIsAnswered.
LEMMA HeatIs == PlanInv /\ MinimaInv /\ HeatInv => HeatIsAnswered
<1> SUFFICES ASSUME PlanInv, MinimaInv, HeatInv, fanMode = "floor", temp # NoReading,
                    NEW n \in Fans, NEW step \in 1..3, temp >= fanConfig.t[step]
             PROVE  \/ hw[n] >= Min({fanConfig.rpm[step], fanConfig.max_rpm, FanMax[n]})
                    \/ failed[n].rpm # 0
  BY DEF HeatIsAnswered
<1> DEFINE a == fanConfig.rpm[step]
<1> DEFINE b == fanConfig.max_rpm
<1> DEFINE f == FanMax[n]
<1>1. a \in Nat /\ b \in Nat /\ f \in Nat /\ hw[n] \in Nat
  BY ConfigFacts, FanConstants DEF PlanInv, MinimaInv, Within
<1>2. hw[n] >= a \/ hw[n] >= b \/ hw[n] >= f \/ failed[n].rpm # 0
  BY DEF HeatInv
<1> HIDE DEF a, b, f
<1> DEFINE S == {a, b, f}
<1>3. S # {} /\ S \subseteq {a, b, f} /\ a \in S /\ b \in S /\ f \in S
  OBVIOUS
<1> HIDE DEF S
<1>4. Min(S) \in S /\ \A y \in S : Min(S) <= y
  BY <1>1, <1>3, MinOf
<1>5. Min(S) \in Nat /\ Min(S) <= a /\ Min(S) <= b /\ Min(S) <= f
  <2>1. Min(S) = a \/ Min(S) = b \/ Min(S) = f
    BY <1>3, <1>4
  <2> QED
    BY <1>1, <1>3, <1>4, <2>1
<1>6. hw[n] >= Min(S) \/ failed[n].rpm # 0
  BY <1>1, <1>2, <1>5
<1> QED
  BY <1>6 DEF S, a, b, f

\* The invariants give the state part of FansSafe.
LEMMA FansSafeState ==
  PlanInv /\ MinimaInv /\ KnownInv => FansTypeOK /\ FloorWithinFan /\ DefaultsAreHardware
<1> SUFFICES ASSUME PlanInv, MinimaInv, KnownInv
             PROVE  FansTypeOK /\ FloorWithinFan /\ DefaultsAreHardware
  OBVIOUS
<1>1. FansTypeOK
  BY DEF PlanInv, KnownInv, States, Ages, FanModes, FansTypeOK
<1>2. FloorWithinFan
  BY FanConstants DEF MinimaInv, Within, FloorWithinFan
<1> QED
  BY <1>1, <1>2 DEF MinimaInv

\* For all fans and configurations, through floors, restores, failed writes, crashes
\* and captures: no fan is told a floor outside its range, and what is restored is
\* the fan's own minimum once that is saved (fans.py, apply and _load_or_capture).
THEOREM FansStayWithin == FansSpec => [](FansTypeOK /\ FloorWithinFan /\ DefaultsAreHardware)
<1> DEFINE Inv == PlanInv /\ MinimaInv /\ KnownInv
<1>1. FansInit => Inv
  BY InitIs
<1>2. Inv /\ [FansNext]_fansVars => Inv'
  BY PlanStep, MinimaStep
<1>3. Inv => FansTypeOK /\ FloorWithinFan /\ DefaultsAreHardware
  BY FansSafeState
<1> HIDE DEF Inv
<1> QED
  BY <1>1, <1>2, <1>3, PTL DEF FansSpec

\* For every ladder: also, heat is answered at once and a step is given up only
\* after the temperature has been below it for all but one tick of
\* step_down_interval_s (fans.py, decide).
THEOREM FansIsSafe == ASSUME OneLadder PROVE FansSpec => FansSafe
<1> DEFINE Inv == PlanInv /\ MinimaInv /\ KnownInv /\ HeatInv /\ ReleaseInv
<1>1. FansInit => Inv
  BY InitIs
<1>2. Inv /\ [FansNext]_fansVars => Inv'
  BY OneLadder, PlanStep, MinimaStep, HeatStep, ReleaseStep
<1>3. Inv => FansTypeOK /\ FloorWithinFan /\ DefaultsAreHardware /\ HeatIsAnswered
  BY FansSafeState, HeatIs
<1>4. Inv /\ [FansNext]_fansVars => [ReleasedAfter(fanConfig.interval - 1)]_fansVars
  BY OneLadder, SlowStep
<1> HIDE DEF Inv
<1> QED
  BY <1>1, <1>2, <1>3, <1>4, PTL DEF FansSpec, FansSafe, SlowRelease
=============================================================================
