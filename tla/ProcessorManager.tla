-------------------------- MODULE ProcessorManager --------------------------
(***************************************************************************)
(* core/handler/processor_manager.go: the manager's mutex m and the mutex  *)
(* of one processor group.  SelectProcessor takes the group's lock and,    *)
(* holding it, the manager's; AddProcessor, RegisterHandler and the        *)
(* metrics loop take them the other way round.                             *)
(*                                                                         *)
(* The locks are sync.RWMutex: a writer announces itself, which keeps new  *)
(* readers out, and then waits for the readers inside.                     *)
(***************************************************************************)
EXTENDS Naturals, FiniteSets

CONSTANTS
    Selectors,    \* goroutines calling SelectProcessor
    Adders,       \* goroutines calling AddProcessor or RegisterHandler
    Updater,      \* the goroutine of metricsCollectorLoop
    InitialSize,  \* handlers registered before the goroutines start
    MaxSelects    \* bound: selections that are begun

ASSUME ManagerAssumption ==
    /\ Updater \notin Selectors \cup Adders /\ Selectors \cap Adders = {}
    /\ IsFiniteSet(Selectors) /\ IsFiniteSet(Adders)
    /\ InitialSize \in Nat /\ MaxSelects \in Nat

Procs == Selectors \cup Adders \cup {Updater}
Locks == {"m", "group"}

VARIABLES
    readers,    \* readers[l]: goroutines holding the read side of lock l
    writer,     \* writer[l]: the goroutine holding it for writing, as a set
    announced,  \* announced[l]: writers waiting for it
    size,       \* len(group.Handlers)
    rrIndex,    \* m.rrIndex[protocol]
    pc, cur,    \* local state of the goroutines
    begun,      \* selections begun
    served      \* served[i]: how often handler i was selected (history)

vars == <<readers, writer, announced, size, rrIndex, pc, cur, begun, served>>
locks == <<readers, writer, announced>>

MaxSize == InitialSize + Cardinality(Adders)

TypeOK ==
    /\ readers \in [Locks -> SUBSET Procs]
    /\ writer \in [Locks -> SUBSET Procs]
    /\ announced \in [Locks -> SUBSET Procs]
    /\ size \in 0..MaxSize
    /\ rrIndex \in 0..MaxSelects
    /\ pc \in [Procs -> {"idle", "readGroup", "wantM", "takeM", "pick", "wantGroup",
                         "takeGroup", "unlock", "done"}]
    /\ cur \in [Selectors -> 0..MaxSelects]
    /\ begun \in 0..MaxSelects
    /\ served \in [0..(MaxSize - 1) -> Nat]

Init ==
    /\ readers = [l \in Locks |-> {}]
    /\ writer = [l \in Locks |-> {}]
    /\ announced = [l \in Locks |-> {}]
    /\ size = InitialSize
    /\ rrIndex = 0
    /\ pc = [p \in Procs |-> "idle"]
    /\ cur = [s \in Selectors |-> 0]
    /\ begun = 0
    /\ served = [i \in 0..(MaxSize - 1) |-> 0]

Goto(p, from, to) == pc[p] = from /\ pc' = [pc EXCEPT ![p] = to]
-----------------------------------------------------------------------------
(* sync.RWMutex.                                                           *)
MayRead(l)  == writer[l] = {} /\ announced[l] = {}
MayWrite(l) == writer[l] = {} /\ readers[l] = {}

RLock(p, l) ==
    /\ MayRead(l)
    /\ readers' = [readers EXCEPT ![l] = @ \cup {p}]
    /\ UNCHANGED <<writer, announced>>

RUnlock(p, l) ==
    /\ readers' = [readers EXCEPT ![l] = @ \ {p}]
    /\ UNCHANGED <<writer, announced>>

Announce(p, l) ==
    /\ announced' = [announced EXCEPT ![l] = @ \cup {p}]
    /\ UNCHANGED <<readers, writer>>

\* Lock, for a section that does not end in this step.
Lock(p, l) ==
    /\ MayWrite(l)
    /\ announced' = [announced EXCEPT ![l] = @ \ {p}]
    /\ writer' = [writer EXCEPT ![l] = {p}]
    /\ UNCHANGED readers

\* Lock and Unlock around a section that is one step.
LockUnlock(p, l) ==
    /\ MayWrite(l)
    /\ announced' = [announced EXCEPT ![l] = @ \ {p}]
    /\ UNCHANGED <<readers, writer>>
-----------------------------------------------------------------------------
(* SelectProcessor.                                                        *)

\* m.RLock, look the group up, m.RUnlock; give up if it looks empty.
SelectLookup(s) ==
    /\ begun < MaxSelects /\ MayRead("m")
    /\ Goto(s, "idle", IF size = 0 THEN "idle" ELSE "readGroup")
    /\ begun' = begun + 1
    /\ UNCHANGED <<locks, size, rrIndex, cur, served>>

\* Handlers are never removed, so the second emptiness test cannot fail.
SelectReadGroup(s) ==
    /\ Goto(s, "readGroup", "wantM")
    /\ RLock(s, "group")
    /\ UNCHANGED <<size, rrIndex, cur, begun, served>>

SelectWantM(s) ==
    /\ Goto(s, "wantM", "takeM")
    /\ Announce(s, "m")
    /\ UNCHANGED <<size, rrIndex, cur, begun, served>>

\* Mutant: the counter is not advanced.
SelectTurnUnwritten(s) ==
    /\ Goto(s, "takeM", "pick")
    /\ LockUnlock(s, "m")
    /\ cur' = [cur EXCEPT ![s] = rrIndex]
    /\ UNCHANGED <<size, rrIndex, begun, served>>

SelectTurn(s) ==
    /\ Goto(s, "takeM", "pick")
    /\ LockUnlock(s, "m")
    /\ cur' = [cur EXCEPT ![s] = rrIndex]
    /\ rrIndex' = rrIndex + 1
    /\ UNCHANGED <<size, begun, served>>

\* Mutant: the last handler is never reached.
IndexShort(s) == cur[s] % (size - 1)

Index(s) == cur[s] % size

SelectPick(s) ==
    /\ Goto(s, "pick", "idle")
    /\ served' = [served EXCEPT ![Index(s)] = @ + 1]
    /\ RUnlock(s, "group")
    /\ UNCHANGED <<size, rrIndex, cur, begun>>

Select(s) == SelectReadGroup(s) \/ SelectWantM(s) \/ SelectTurn(s) \/ SelectPick(s)
-----------------------------------------------------------------------------
(* AddProcessor and RegisterHandler.                                       *)

AddWantM(a) ==
    /\ Goto(a, "idle", "takeM")
    /\ Announce(a, "m")
    /\ UNCHANGED <<size, rrIndex, cur, begun, served>>

AddLockM(a) ==
    /\ Goto(a, "takeM", "wantGroup")
    /\ Lock(a, "m")
    /\ UNCHANGED <<size, rrIndex, cur, begun, served>>

\* The lock of the group is wanted with m in hand, by the metrics loop too.
WantGroup(p) ==
    /\ Goto(p, "wantGroup", "takeGroup")
    /\ Announce(p, "group")
    /\ UNCHANGED <<size, rrIndex, cur, begun, served>>

\* Mutant: the handler is appended twice.
AddAppendTwice(a) ==
    /\ Goto(a, "takeGroup", "unlock")
    /\ LockUnlock(a, "group")
    /\ size' = size + 2
    /\ UNCHANGED <<rrIndex, cur, begun, served>>

AddAppend(a) ==
    /\ Goto(a, "takeGroup", "unlock")
    /\ LockUnlock(a, "group")
    /\ size' = size + 1
    /\ UNCHANGED <<rrIndex, cur, begun, served>>

AddUnlock(a) ==
    /\ Goto(a, "unlock", "done")
    /\ writer' = [writer EXCEPT !["m"] = {}]
    /\ UNCHANGED <<readers, announced, size, rrIndex, cur, begun, served>>

Add(a) == AddLockM(a) \/ WantGroup(a) \/ AddAppend(a) \/ AddUnlock(a)
-----------------------------------------------------------------------------
(* updateProcessorMetrics, at every tick.                                  *)

UpdateReadM ==
    /\ Goto(Updater, "idle", "wantGroup")
    /\ RLock(Updater, "m")
    /\ UNCHANGED <<size, rrIndex, cur, begun, served>>

UpdateGroup ==
    /\ Goto(Updater, "takeGroup", "unlock")
    /\ LockUnlock(Updater, "group")
    /\ UNCHANGED <<size, rrIndex, cur, begun, served>>

UpdateUnlock ==
    /\ Goto(Updater, "unlock", "idle")
    /\ RUnlock(Updater, "m")
    /\ UNCHANGED <<size, rrIndex, cur, begun, served>>

Update == WantGroup(Updater) \/ UpdateGroup \/ UpdateUnlock

Next ==
    \/ \E s \in Selectors : SelectLookup(s) \/ Select(s)
    \/ \E a \in Adders : AddWantM(a) \/ Add(a)
    \/ UpdateReadM \/ Update

Spec == Init /\ [][Next]_vars

\* Strong fairness is what RWMutex gives: no caller of Lock or RLock is
\* passed over for ever.
FairSpec ==
    /\ Spec
    /\ \A s \in Selectors : SF_vars(Select(s))
    /\ \A a \in Adders : SF_vars(Add(a))
    /\ SF_vars(Update)
-----------------------------------------------------------------------------
Picking == {s \in Selectors : pc[s] = "pick"}

(* Each selection has a turn of its own: two callers never hold the same   *)
(* value of the round-robin counter, although the counter is read and      *)
(* written under m and used after m is released.                           *)
DistinctTurns ==
    /\ \A s, t \in Picking : cur[s] = cur[t] => s = t
    /\ \A s \in Picking : cur[s] < rrIndex

(* With a fixed set of handlers round robin is fair: when no selection is  *)
(* under way the handlers' shares differ by at most one.                   *)
EvenShares ==
    size = InitialSize /\ (\A s \in Selectors : pc[s] = "idle")
    => \A i, j \in 0..(size - 1) : served[i] <= served[j] + 1

(* Nobody shares a turn, and turns are spread evenly over the handlers.    *)
FairTurns == DistinctTurns /\ EvenShares

(* The comment at processor_manager.go:447 calls the selection a           *)
(* "thread-safe round robin per protocol": a selection that began returns. *)
SelectReturns == \A s \in Selectors : (pc[s] # "idle") ~> (pc[s] = "idle")
=============================================================================
