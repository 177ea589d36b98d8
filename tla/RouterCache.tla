---------------------------- MODULE RouterCache -----------------------------
(***************************************************************************)
(* core/router/router_cache.go: a map of entries, the list that orders     *)
(* them by use, and a count of the memory they take.  Set holds the mutex  *)
(* over its evictions, and cleanup over its removals, each a step here.    *)
(***************************************************************************)
EXTENDS Naturals, Sequences, FiniteSets

CONSTANTS
    Keys,
    Matching,   \* the keys that the pattern of InvalidatePattern matches
    Sizes, MaxSize, MaxMemory,
    MaxHits     \* bound: HitCount

VARIABLES
    entries,    \* rc.entries
    order,      \* rc.accessOrder
    memory,     \* rc.currentMemory
    policy,     \* rc.evictionPolicy
    setting,    \* the Set or cleanup under way
    sweep       \* the keys InvalidatePattern has still to look at

vars == <<entries, order, memory, policy, setting, sweep>>

Entry == [size : Sizes, hits : 0..MaxHits, expired : BOOLEAN]
NotSetting == [stage |-> "none"]
SettingSet == {NotSetting} \cup [stage : {"room", "store", "trim"}, key : Keys, size : Sizes]
                          \cup [stage : {"clean"}, expired : SUBSET Keys]

TypeOK ==
    /\ DOMAIN entries \subseteq Keys /\ \A k \in DOMAIN entries : entries[k] \in Entry
    /\ order \in Seq(Keys)
    /\ memory \in Nat
    /\ policy \in {"LRU", "LFU", "TTL", "FIFO"}
    /\ setting \in SettingSet
    /\ sweep \subseteq Keys

Init ==
    /\ entries = <<>> /\ order = <<>> /\ memory = 0
    /\ policy = "LRU" /\ setting = NotSetting /\ sweep = {}
-----------------------------------------------------------------------------
Unlocked == setting = NotSetting
Has(k) == k \in DOMAIN entries
Place(k) == CHOOSE i \in 1..Len(order) : order[i] = k
Unordered(k) ==
    IF \A i \in 1..Len(order) : order[i] # k THEN order
    ELSE SubSeq(order, 1, Place(k) - 1) \o SubSeq(order, Place(k) + 1, Len(order))
Without(k) == [j \in DOMAIN entries \ {k} |-> entries[j]]

\* Mutant: the memory of a removed entry is not given back.
RemoveEntryKeepingMemory(k) ==
    IF Has(k)
    THEN entries' = Without(k) /\ order' = Unordered(k) /\ UNCHANGED memory
    ELSE UNCHANGED <<entries, order, memory>>

RemoveEntry(k) ==
    IF Has(k)
    THEN entries' = Without(k) /\ order' = Unordered(k) /\ memory' = memory - entries[k].size
    ELSE UNCHANGED <<entries, order, memory>>

\* An expired entry is removed; a fresh one is the last used.
Get(k) ==
    /\ Unlocked /\ Has(k)
    /\ IF entries[k].expired THEN RemoveEntry(k)
       ELSE /\ entries' = [entries EXCEPT ![k].hits = IF @ < MaxHits THEN @ + 1 ELSE @]
            /\ order' = Append(Unordered(k), k)
            /\ UNCHANGED memory
    /\ UNCHANGED <<policy, setting, sweep>>

Delete(k) == Unlocked /\ RemoveEntry(k) /\ UNCHANGED <<policy, setting, sweep>>

Clear ==
    /\ Unlocked /\ entries' = <<>> /\ order' = <<>> /\ memory' = 0
    /\ UNCHANGED <<policy, setting, sweep>>

SetEvictionPolicy(p) ==
    /\ Unlocked /\ policy' = p
    /\ UNCHANGED <<entries, order, memory, setting, sweep>>
-----------------------------------------------------------------------------
\* Whom the policy removes; the map is iterated in any order.
Victims ==
    LET expired == {k \in DOMAIN entries : entries[k].expired}
        fewest  == {k \in DOMAIN entries :
                        \A j \in DOMAIN entries : entries[k].hits <= entries[j].hits}
    IN CASE policy = "LFU" -> fewest
         [] policy = "TTL" /\ expired # {} -> expired
         [] OTHER -> {order[1]}

Set(k, s) ==
    /\ Unlocked /\ setting' = [stage |-> "room", key |-> k, size |-> s]
    /\ UNCHANGED <<entries, order, memory, policy, sweep>>

\* evictToMakeSpace: one eviction, as long as the entry does not fit and there is another.
MakeSpace ==
    /\ setting.stage = "room"
    /\ IF memory + setting.size > MaxMemory /\ DOMAIN entries # {}
       THEN (\E v \in Victims : RemoveEntry(v)) /\ UNCHANGED setting
       ELSE setting' = [setting EXCEPT !.stage = "store"] /\ UNCHANGED <<entries, order, memory>>
    /\ UNCHANGED <<policy, sweep>>

Store ==
    /\ setting.stage = "store"
    /\ LET k == setting.key
           new == [size |-> setting.size, hits |-> 0, expired |-> FALSE]
       IN /\ entries' = [j \in DOMAIN entries \cup {k} |-> IF j = k THEN new ELSE entries[j]]
          /\ order' = Append(Unordered(k), k)
          /\ memory' = memory - (IF Has(k) THEN entries[k].size ELSE 0) + setting.size
    /\ setting' = [setting EXCEPT !.stage = "trim"]
    /\ UNCHANGED <<policy, sweep>>

\* evictOldest, after the store: with LFU it may remove what was just stored.
Trim ==
    /\ setting.stage = "trim" /\ setting' = NotSetting
    /\ IF Cardinality(DOMAIN entries) > MaxSize
       THEN \E v \in Victims : RemoveEntry(v)
       ELSE UNCHANGED <<entries, order, memory>>
    /\ UNCHANGED <<policy, sweep>>
-----------------------------------------------------------------------------
Expire(k) ==
    /\ Has(k) /\ ~entries[k].expired
    /\ entries' = [entries EXCEPT ![k].expired = TRUE]
    /\ UNCHANGED <<order, memory, policy, setting, sweep>>

\* cleanup collects the expired keys, then removes each.
Cleanup ==
    /\ Unlocked
    /\ LET expired == {k \in DOMAIN entries : entries[k].expired} IN
        expired # {} /\ setting' = [stage |-> "clean", expired |-> expired]
    /\ UNCHANGED <<entries, order, memory, policy, sweep>>

CleanupNext(k) ==
    /\ setting.stage = "clean" /\ k \in setting.expired /\ RemoveEntry(k)
    /\ setting' = IF setting.expired = {k} THEN NotSetting
                  ELSE [setting EXCEPT !.expired = @ \ {k}]
    /\ UNCHANGED <<policy, sweep>>

\* InvalidatePattern takes the keys under the lock, and it again for every Delete.
InvalidatePattern ==
    /\ Unlocked /\ sweep = {}
    /\ sweep' = DOMAIN entries
    /\ UNCHANGED <<entries, order, memory, policy, setting>>

InvalidateNext(k) ==
    /\ k \in sweep /\ sweep' = sweep \ {k}
    /\ IF k \in Matching THEN Unlocked /\ RemoveEntry(k) ELSE UNCHANGED <<entries, order, memory>>
    /\ UNCHANGED <<policy, setting>>

Next ==
    \/ \E k \in Keys :
        \/ Get(k) \/ Delete(k) \/ Expire(k) \/ InvalidateNext(k) \/ CleanupNext(k)
        \/ \E s \in Sizes : Set(k, s)
    \/ \E p \in {"LRU", "LFU", "TTL", "FIFO"} : SetEvictionPolicy(p)
    \/ Clear \/ MakeSpace \/ Store \/ Trim \/ Cleanup \/ InvalidatePattern
-----------------------------------------------------------------------------
\* The bytes that the entries take.
Taken == UNION {{k} \X (1..entries[k].size) : k \in DOMAIN entries}

(* The list orders exactly the entries of the map, and the memory is what  *)
(* they take: whatever gets, sets, deletions, evictions and expiries are   *)
(* mixed.                                                                  *)
ListAgrees ==
    /\ Len(order) = Cardinality(DOMAIN entries)
    /\ {order[i] : i \in 1..Len(order)} = DOMAIN entries
    /\ memory = Cardinality(Taken)

(* Between calls the cache keeps both of its limits, except that a value   *)
(* larger than the memory limit is stored, alone.                          *)
LimitsKept ==
    Unlocked =>
        /\ Cardinality(DOMAIN entries) <= MaxSize
        /\ memory > MaxMemory => Cardinality(DOMAIN entries) = 1

(* Map, list and count agree at every step, the limits between calls.      *)
CacheAgrees == ListAgrees /\ LimitsKept
=============================================================================
