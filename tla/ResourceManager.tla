-------------------------- MODULE ResourceManager ---------------------------
(***************************************************************************)
(* core/performance/resource_manager.go: SetQuota adds the other quotas up *)
(* under the read lock and stores the new one later, under the write lock. *)
(***************************************************************************)
EXTENDS Integers, FiniteSets

CONSTANTS
    Setters,  \* goroutines in SetQuota
    Share,    \* [resource types -> their default quota], adding up to Whole
    Whole     \* 100 per cent, in parts

Types == DOMAIN Share

VARIABLES
    quotas,
    setter,    \* what each SetQuota does
    disturbed  \* some quota was stored between the check and the store of another

vars == <<quotas, setter, disturbed>>

Idle == [doing |-> "idle"]
TypeOK ==
    /\ quotas \in [Types -> 0..Whole]
    /\ setter \in [Setters -> {Idle} \cup [doing : {"storing"}, type : Types, quota : 0..Whole]]
    /\ disturbed \in BOOLEAN

\* The parts that some types have.
Parts(T) == UNION {{t} \X (1..quotas[t]) : t \in T}
Total == Cardinality(Parts(Types))

Init == quotas = Share /\ setter = [s \in Setters |-> Idle] /\ disturbed = FALSE
-----------------------------------------------------------------------------
\* Mutant: the check leaves out nothing but a total above the whole.
FitsInclusive(t, q) == Total <= Whole

Fits(t, q) == q <= Whole - Cardinality(Parts(Types \ {t}))

SetQuotaCheck(s, t, q) ==
    /\ setter[s] = Idle /\ Fits(t, q)
    /\ setter' = [setter EXCEPT ![s] = [doing |-> "storing", type |-> t, quota |-> q]]
    /\ UNCHANGED <<quotas, disturbed>>

SetQuotaStore(s) ==
    /\ setter[s] # Idle
    /\ quotas' = [quotas EXCEPT ![setter[s].type] = setter[s].quota]
    /\ setter' = [setter EXCEPT ![s] = Idle]
    /\ disturbed' = (disturbed \/ \E r \in Setters \ {s} : setter[r] # Idle)

Next == \E s \in Setters :
    \/ \E t \in Types, q \in 0..Whole : SetQuotaCheck(s, t, q)
    \/ SetQuotaStore(s)
-----------------------------------------------------------------------------
(* The quotas add up to no more than the whole, as the comment at line 67  *)
(* has it, until one is stored while another has been checked and not yet  *)
(* stored.                                                                 *)
QuotasFit == ~disturbed => Total <= Whole
=============================================================================
