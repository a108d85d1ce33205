-------------------------------- MODULE Smc ---------------------------------
(***************************************************************************)
(* Reads of SMC keys (linux/turbomac/daemon/smc.py) through applesmc's one *)
(* global selector: a table of the keys' places, kept in a cache file over *)
(* restarts, checked by name at each read and rebuilt by a scan.  Another  *)
(* process (tools/probe.py, a stray script) may move the selector between  *)
(* any two accesses.  Keys are numbered and read in turn, as the sampler   *)
(* does under SMC.lock; a key stands for its type and length too.          *)
(***************************************************************************)
EXTENDS Integers, Sequences

CONSTANTS
  Count,      \* the number of keys
  Layouts,    \* orders the firmware may keep them in
  RescanAge,  \* RESCAN_MIN_INTERVAL_S, in reads
  MaxOther,   \* bound: how often another process moves the selector
  MaxReboots  \* bound: restarts, each possibly with another layout

Keys == 1..Count
NoKey == 0

ASSUME SmcAssumption ==
  /\ Count \in Nat \ {0} /\ RescanAge \in Nat \ {0}
  /\ \A l \in Layouts : l \in [Keys -> Keys]

VARIABLES
  layout, sel,     \* the key at each index; the index selected
  table, cache,    \* key -> [idx, typ], NoEntry for one that is not there;
                   \* smc_keys_cache, <<>> if there is none
  smcPc, i, name,  \* where the reader is; scan: the index, the name read there
  key, retried,    \* the key that is being read; whether a scan was made for it
  age,             \* reads since last_scan; None if there was no scan
  lastRead,        \* per key what its last read returned: [from, typ] or None
  other, reboots

smcVars == <<layout, sel, table, cache, smcPc, i, name, key, retried, age, lastRead, other, reboots>>
rest == <<layout, other, reboots>>

NoEntry == [idx |-> NoKey, typ |-> NoKey]
Empty   == [k \in Keys |-> NoEntry]
NoValue == [from |-> NoKey, typ |-> NoKey]

-----------------------------------------------------------------------------
(* _scan: select, name, then type and length, for one index after another *)

StartScan == smcPc' = "select" /\ i' = 1 /\ age' = 1 /\ table' = Empty

ScanSelect ==
  /\ smcPc = "select" /\ smcPc' = "name" /\ sel' = i
  /\ UNCHANGED <<rest, table, cache, i, name, key, retried, age, lastRead>>

ScanName ==
  /\ smcPc = "name" /\ smcPc' = "type" /\ name' = layout[sel]
  /\ UNCHANGED <<rest, sel, table, cache, i, key, retried, age, lastRead>>

ScanType ==
  /\ smcPc = "type"
  /\ LET new == [table EXCEPT ![name] = [idx |-> i, typ |-> layout[sel]]] IN
     /\ table' = new
     /\ IF i < Count
        THEN smcPc' = "select" /\ i' = i + 1 /\ UNCHANGED cache
        ELSE smcPc' = "read" /\ cache' = new /\ UNCHANGED i
  /\ UNCHANGED <<rest, sel, name, key, retried, age, lastRead>>

-----------------------------------------------------------------------------
(* raw *)

Done(v) ==
  /\ lastRead' = [lastRead EXCEPT ![key] = v]
  /\ smcPc' = "read" /\ key' = (key % Count) + 1 /\ retried' = FALSE

SmcAged == IF age = NoKey \/ age = RescanAge THEN age ELSE age + 1

\* A key that the table lacks is not looked for.
Read ==
  /\ smcPc = "read"
  /\ \/ /\ table[key] = NoEntry /\ Done(NoValue) /\ UNCHANGED sel
     \/ /\ table[key] # NoEntry /\ sel' = table[key].idx /\ smcPc' = "verify"
        /\ UNCHANGED <<lastRead, key, retried>>
  /\ age' = SmcAged
  /\ UNCHANGED <<rest, table, cache, i, name>>

\* Mutant of SmcVerified: the name is not looked at.
Unverified == TRUE

SmcVerified == layout[sel] = key

\* Mutant of MayRescan: a table that came from the cache is never in doubt.
MayRescanScanned == age # NoKey /\ age >= RescanAge /\ ~retried

MayRescan == (age = NoKey \/ age >= RescanAge) /\ ~retried

Verify ==
  /\ smcPc = "verify"
  /\ \/ SmcVerified /\ smcPc' = "data" /\ UNCHANGED <<table, i, key, retried, age, lastRead>>
     \/ ~SmcVerified /\ MayRescan /\ StartScan /\ retried' = TRUE /\ UNCHANGED <<key, lastRead>>
     \/ ~SmcVerified /\ ~MayRescan /\ Done(NoValue) /\ UNCHANGED <<table, i, age>>
  /\ UNCHANGED <<rest, sel, cache, name>>

Data ==
  /\ smcPc = "data" /\ Done([from |-> layout[sel], typ |-> table[key].typ])
  /\ UNCHANGED <<rest, sel, table, cache, i, name, age>>

-----------------------------------------------------------------------------
(* open, restarts and the other process *)

\* A cache of as many keys is taken as it is.
OpenTable ==
  IF cache # <<>> THEN table' = cache /\ smcPc' = "read" /\ age' = NoKey /\ UNCHANGED i
  ELSE StartScan

\* The selector is put back (restore), the firmware may have another order.
SmcRestart ==
  /\ reboots < MaxReboots /\ reboots' = reboots + 1
  /\ layout' \in Layouts /\ sel' = 1
  /\ OpenTable /\ name' = NoKey /\ key' = 1 /\ retried' = FALSE
  /\ lastRead' = [k \in Keys |-> NoValue]
  /\ UNCHANGED <<cache, other>>

OtherSelect(j) ==
  /\ other < MaxOther /\ other' = other + 1 /\ sel' = j
  /\ UNCHANGED <<layout, table, cache, smcPc, i, name, key, retried, age,
                 lastRead, reboots>>

SmcInit ==
  /\ layout \in Layouts /\ sel = 1 /\ table = Empty /\ cache = <<>>
  /\ smcPc = "select" /\ i = 1 /\ name = NoKey /\ key = 1 /\ retried = FALSE /\ age = 1
  /\ lastRead = [k \in Keys |-> NoValue] /\ other = 0 /\ reboots = 0

Reader == ScanSelect \/ ScanName \/ ScanType \/ Read \/ Verify \/ Data

SmcNext == Reader \/ SmcRestart \/ \E j \in Keys : OtherSelect(j)

SmcFairness == WF_smcVars(Reader)
SmcSpec == SmcInit /\ [][SmcNext]_smcVars /\ SmcFairness

-----------------------------------------------------------------------------
SmcTypeOK ==
  /\ sel \in Keys /\ key \in Keys /\ age \in 0..RescanAge
  /\ \A k \in Keys : table[k] = NoEntry \/ (table[k].idx \in Keys /\ table[k].typ \in Keys)

Right(k) == lastRead[k] = [from |-> k, typ |-> k]

\* As long as nobody else moves the selector, a value is the key's own and decoded as the key's
\* type, after any change of the firmware's order under a cached table.
RightKey == other = 0 => \A k \in Keys : lastRead[k] = NoValue \/ Right(k)

\* Once the other process has stopped (its moves are bounded) and the order
\* stays, every key is read again, and rightly.
KeysRecover == <>[](\A k \in Keys : Right(k))

\* No key is ever read under the name of another (smc.py, _read).
SmcSafe == SmcTypeOK /\ RightKey
=============================================================================
