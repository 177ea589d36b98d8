---------------------- MODULE UnifiedBufferPool_proofs ----------------------
(***************************************************************************)
(* Proofs about UnifiedBufferPool for any goroutines, buffers, addresses   *)
(* and maxPoolSize.                                                        *)
(***************************************************************************)
EXTENDS UnifiedBufferPool, TLAPS, FiniteSetTheorems

(* What the local variables of a goroutine say of the shared memory.  The  *)
(* heart is NextIsCurrent: the nextNode a Get has read is still the next   *)
(* field of its currentHead, so a CAS that finds currentHead at the head   *)
(* again installs the right list even if the node was unlinked meanwhile.  *)
Publishing == {"putLoad", "putCas"}

LocalsMatchPc ==
    \A p \in Procs :
        /\ arg[p] = Nil <=> pc[p] \notin Publishing \cup {"putTest"}
        /\ node[p] = Nil <=> pc[p] \notin Publishing
        /\ pc[p] = "getCas" => cur[p] # Nil

NextIsCurrent ==
    \A p \in Procs : pc[p] = "getCas" => nextNode[p] = next[cur[p]]

NewNodesPrivate ==
    /\ \A p \in Procs : node[p] # Nil => node[p] \notin linked /\ buf[node[p]] = arg[p]
    /\ \A p \in Procs : pc[p] = "putCas" => next[node[p]] = cur[p]
    /\ \A p, q \in Procs : node[p] # Nil /\ node[p] = node[q] => p = q
    /\ \A p, q \in Procs : pc[p] = "getCas" => node[q] # cur[p]

LinkedHaveBuffers == \A n \in linked : buf[n] \in Buffers

(* SingleOwner, buffer by buffer.                                          *)
OwnedOnce ==
    /\ \A m, n \in linked : buf[m] = buf[n] => m = n
    /\ \A p, q \in Procs :
        /\ p # q => owned[p] \cap owned[q] = {} /\ (arg[p] = arg[q] => arg[p] = Nil)
        /\ arg[q] \notin owned[p]
    /\ \A p \in Procs, n \in linked : buf[n] \notin owned[p] /\ buf[n] # arg[p]
    /\ \A n \in linked : buf[n] \notin syncPool
    /\ \A p \in Procs : owned[p] \cap syncPool = {} /\ arg[p] \notin syncPool

IInv ==
    /\ TypeOK /\ LocalsMatchPc /\ NextIsCurrent /\ NewNodesPrivate
    /\ LinkedHaveBuffers /\ ListIntact /\ OwnedOnce

LEMMA OwnedOnceIsSingleOwner ==
    ASSUME TypeOK, LinkedHaveBuffers
    PROVE  OwnedOnce <=> SingleOwner
<1> USE PoolAssumption DEF PoolAssumption, TypeOK, LinkedHaveBuffers
<1>1. ASSUME OwnedOnce PROVE SingleOwner
  <2>1. InList \cap (Held \cup InPut \cup syncPool) = {}
    BY <1>1 DEF OwnedOnce, InList, Held, InPut
  <2>2. Held \cap (InPut \cup syncPool) = {}
    BY <1>1 DEF OwnedOnce, Held, InPut
  <2>3. InPut \cap syncPool = {}
    BY <1>1 DEF OwnedOnce, InPut
  <2> QED BY <1>1, <2>1, <2>2, <2>3 DEF OwnedOnce, SingleOwner
<1>2. ASSUME SingleOwner PROVE OwnedOnce
  <2>1. \A n \in linked : buf[n] \in InList /\ buf[n] # Nil
    BY DEF InList
  <2>2. \A p \in Procs : owned[p] \subseteq Held /\ (arg[p] # Nil => arg[p] \in InPut)
    BY DEF Held, InPut
  <2>3. \A p \in Procs : Nil \notin owned[p] /\ Nil \notin syncPool
    OBVIOUS
  <2> QED BY <1>2, <2>1, <2>2, <2>3 DEF OwnedOnce, SingleOwner
<1> QED BY <1>1, <1>2

LEMMA UnmadeIsFresh ==
    ASSUME TypeOK, NEW b \in Unmade
    PROVE  /\ b \in Buffers /\ b \notin syncPool
           /\ \A n \in linked : buf[n] # b
           /\ \A p \in Procs : b \notin owned[p] /\ arg[p] # b
BY PoolAssumption DEF PoolAssumption, TypeOK, Unmade, InList, Held, InPut

LEMMA FreeIsUnreferenced ==
    ASSUME NEW n \in Free
    PROVE  /\ n \in Nodes /\ n \notin linked /\ n # Nil
           /\ \A p \in Procs : node[p] # n /\ cur[p] # n
BY PoolAssumption DEF PoolAssumption, Free

LEMMA Counts ==
    /\ Word \in Nat /\ MaxPoolSize \in Nat /\ Cardinality(Procs) \in Nat
    /\ Word > MaxPoolSize + 2 * Cardinality(Procs) /\ Word > 0
<1>1. Cardinality(Procs) \in Nat
  BY FS_CardinalityType, PoolAssumption DEF PoolAssumption
<1> QED BY <1>1, PoolAssumption DEF PoolAssumption

LEMMA StructureInit == Init => IInv
<1> SUFFICES ASSUME Init PROVE IInv
  OBVIOUS
<1>1. TypeOK
  BY Counts DEF Init, TypeOK, Labels
<1>2. LocalsMatchPc /\ NextIsCurrent /\ NewNodesPrivate
  BY DEF Init, LocalsMatchPc, NextIsCurrent, NewNodesPrivate, Publishing
<1>3. LinkedHaveBuffers /\ ListIntact /\ OwnedOnce
  BY DEF Init, LinkedHaveBuffers, ListIntact, OwnedOnce
<1> QED BY <1>1, <1>2, <1>3 DEF IInv
-----------------------------------------------------------------------------
(* Every step preserves IInv.                                              *)
LEMMA GetLoadOK == ASSUME IInv, NEW p \in Procs, GetLoad(p) PROVE IInv'
<1> USE PoolAssumption DEF PoolAssumption, IInv, Step, GetLoad
<1>1. TypeOK'
  BY DEF TypeOK, Labels
<1>2. LocalsMatchPc'
  BY DEF TypeOK, LocalsMatchPc, Publishing
<1>3. NextIsCurrent'
  BY DEF TypeOK, NextIsCurrent
<1>4. NewNodesPrivate'
  BY DEF TypeOK, NewNodesPrivate, ListIntact
<1>5. LinkedHaveBuffers'
  BY DEF LinkedHaveBuffers
<1>6. ListIntact'
  BY DEF ListIntact
<1>7. OwnedOnce'
  BY DEF OwnedOnce
<1> QED BY <1>1, <1>2, <1>3, <1>4, <1>5, <1>6, <1>7

LEMMA GetFromSyncPoolOK == ASSUME IInv, NEW p \in Procs, GetFromSyncPool(p) PROVE IInv'
<1> USE PoolAssumption DEF PoolAssumption, IInv, Step, GetFromSyncPool
<1>0. PICK b \in syncPool \cup Unmade :
           /\ owned' = [owned EXCEPT ![p] = @ \cup {b}]
           /\ syncPool' = syncPool \ {b}
  OBVIOUS
<1>b. /\ b \in Buffers /\ b # Nil /\ \A n \in linked : buf[n] # b
      /\ \A q \in Procs : b \notin owned[q] /\ arg[q] # b
  BY <1>0, UnmadeIsFresh DEF TypeOK, OwnedOnce
<1>1. TypeOK'
  BY <1>0, <1>b DEF TypeOK, Labels
<1>2. LocalsMatchPc'
  BY <1>0, <1>b DEF LocalsMatchPc, Publishing
<1>3. NextIsCurrent'
  BY <1>0, <1>b DEF NextIsCurrent
<1>4. NewNodesPrivate'
  BY <1>0, <1>b DEF NewNodesPrivate
<1>5. LinkedHaveBuffers'
  BY <1>0, <1>b DEF LinkedHaveBuffers
<1>6. ListIntact'
  BY <1>0, <1>b DEF ListIntact
<1>7. OwnedOnce'
  BY <1>0, <1>b DEF OwnedOnce
<1> QED BY <1>1, <1>2, <1>3, <1>4, <1>5, <1>6, <1>7

LEMMA GetCasWinsOK == ASSUME IInv, NEW p \in Procs, GetCasWins(p) PROVE IInv'
<1> USE PoolAssumption DEF PoolAssumption, IInv, Step, GetCasWins
<1>1. TypeOK'
  BY DEF TypeOK, Labels, LinkedHaveBuffers, ListIntact, LocalsMatchPc
<1>2. LocalsMatchPc'
  BY DEF TypeOK, LocalsMatchPc, Publishing
<1>3. NextIsCurrent'
  BY DEF TypeOK, NextIsCurrent
<1>4. NewNodesPrivate'
  BY DEF TypeOK, NewNodesPrivate
<1>5. LinkedHaveBuffers'
  BY DEF LinkedHaveBuffers
<1>6. ListIntact'
  BY DEF ListIntact, NextIsCurrent, LocalsMatchPc
<1>7. OwnedOnce'
  BY DEF OwnedOnce, ListIntact, LocalsMatchPc
<1> QED BY <1>1, <1>2, <1>3, <1>4, <1>5, <1>6, <1>7

LEMMA GetCasLosesOK == ASSUME IInv, NEW p \in Procs, GetCasLoses(p) PROVE IInv'
<1> USE PoolAssumption DEF PoolAssumption, IInv, Step, GetCasLoses
<1>1. TypeOK'
  BY DEF TypeOK, Labels
<1>2. LocalsMatchPc'
  BY DEF TypeOK, LocalsMatchPc, Publishing
<1>3. NextIsCurrent'
  BY DEF TypeOK, NextIsCurrent
<1>4. NewNodesPrivate'
  BY DEF TypeOK, NewNodesPrivate
<1>5. LinkedHaveBuffers'
  BY DEF LinkedHaveBuffers
<1>6. ListIntact'
  BY DEF ListIntact
<1>7. OwnedOnce'
  BY DEF OwnedOnce
<1> QED BY <1>1, <1>2, <1>3, <1>4, <1>5, <1>6, <1>7

LEMMA GetDecOK == ASSUME IInv, NEW p \in Procs, GetDec(p) PROVE IInv'
<1> USE PoolAssumption DEF PoolAssumption, IInv, Step, GetDec
<1>1. TypeOK'
  BY DEF TypeOK, Labels
<1>2. LocalsMatchPc'
  BY DEF LocalsMatchPc, Publishing
<1>3. NextIsCurrent'
  BY DEF NextIsCurrent
<1>4. NewNodesPrivate'
  BY DEF NewNodesPrivate
<1>5. LinkedHaveBuffers'
  BY DEF LinkedHaveBuffers
<1>6. ListIntact'
  BY DEF ListIntact
<1>7. OwnedOnce'
  BY DEF OwnedOnce
<1> QED BY <1>1, <1>2, <1>3, <1>4, <1>5, <1>6, <1>7

LEMMA PutOK == ASSUME IInv, NEW p \in Procs, NEW b \in Buffers, Put(p, b) PROVE IInv'
<1> USE PoolAssumption DEF PoolAssumption, IInv, Step, Put
<1>1. TypeOK'
  BY DEF TypeOK, Labels
<1>2. LocalsMatchPc'
  BY DEF TypeOK, LocalsMatchPc, Publishing
<1>3. NextIsCurrent'
  BY DEF NextIsCurrent
<1>4. NewNodesPrivate'
  BY DEF LocalsMatchPc, NewNodesPrivate, Publishing
<1>5. LinkedHaveBuffers'
  BY DEF LinkedHaveBuffers
<1>6. ListIntact'
  BY DEF ListIntact
<1>7. OwnedOnce'
  BY DEF TypeOK, OwnedOnce
<1> QED BY <1>1, <1>2, <1>3, <1>4, <1>5, <1>6, <1>7

LEMMA PreAllocateOK == ASSUME IInv, NEW p \in Procs, PreAllocate(p) PROVE IInv'
<1> USE PoolAssumption DEF PoolAssumption, IInv, Step, PreAllocate
<1>0. PICK b \in Unmade : arg' = [arg EXCEPT ![p] = b]
  OBVIOUS
<1>b. /\ b \in Buffers /\ b # Nil /\ b \notin syncPool /\ \A n \in linked : buf[n] # b
      /\ \A q \in Procs : b \notin owned[q] /\ arg[q] # b
  BY <1>0, UnmadeIsFresh
<1>1. TypeOK'
  BY <1>0, <1>b DEF TypeOK, Labels
<1>2. LocalsMatchPc'
  BY <1>0, <1>b DEF TypeOK, LocalsMatchPc, Publishing
<1>3. NextIsCurrent'
  BY <1>0, <1>b DEF NextIsCurrent
<1>4. NewNodesPrivate'
  BY <1>0, <1>b DEF LocalsMatchPc, NewNodesPrivate, Publishing
<1>5. LinkedHaveBuffers'
  BY <1>0, <1>b DEF LinkedHaveBuffers
<1>6. ListIntact'
  BY <1>0, <1>b DEF ListIntact
<1>7. OwnedOnce'
  BY <1>0, <1>b DEF OwnedOnce
<1> QED BY <1>1, <1>2, <1>3, <1>4, <1>5, <1>6, <1>7

LEMMA PutTestRoomOK == ASSUME IInv, NEW p \in Procs, PutTestRoom(p) PROVE IInv'
<1> USE PoolAssumption DEF PoolAssumption, IInv, Step, PutTestRoom
<1>0. PICK n \in Free : /\ node' = [node EXCEPT ![p] = n]
                        /\ buf' = [buf EXCEPT ![n] = arg[p]]
                        /\ next' = [next EXCEPT ![n] = Nil]
  OBVIOUS
<1>b. /\ n \in Nodes /\ n \notin linked /\ n # Nil
      /\ \A q \in Procs : node[q] # n /\ cur[q] # n
  BY <1>0, FreeIsUnreferenced
<1>1. TypeOK'
  BY <1>0, <1>b DEF TypeOK, Labels
<1>2. LocalsMatchPc'
  BY <1>0, <1>b DEF TypeOK, LocalsMatchPc, Publishing
<1>3. NextIsCurrent'
  BY <1>0, <1>b DEF NextIsCurrent
<1>4. NewNodesPrivate'
  BY <1>0, <1>b DEF TypeOK, NewNodesPrivate
<1>5. LinkedHaveBuffers'
  BY <1>0, <1>b DEF LinkedHaveBuffers
<1>6. ListIntact'
  BY <1>0, <1>b DEF ListIntact
<1>7. OwnedOnce'
  BY <1>0, <1>b DEF OwnedOnce
<1> QED BY <1>1, <1>2, <1>3, <1>4, <1>5, <1>6, <1>7

LEMMA PutTestFullOK == ASSUME IInv, NEW p \in Procs, PutTestFull(p) PROVE IInv'
<1> USE PoolAssumption DEF PoolAssumption, IInv, Step, PutTestFull
<1>1. TypeOK'
  BY DEF TypeOK, Labels, LocalsMatchPc
<1>2. LocalsMatchPc'
  BY DEF TypeOK, LocalsMatchPc, Publishing
<1>3. NextIsCurrent'
  BY DEF NextIsCurrent
<1>4. NewNodesPrivate'
  BY DEF LocalsMatchPc, NewNodesPrivate, Publishing
<1>5. LinkedHaveBuffers'
  BY DEF LinkedHaveBuffers
<1>6. ListIntact'
  BY DEF ListIntact
<1>7. OwnedOnce'
  BY DEF TypeOK, OwnedOnce, LinkedHaveBuffers, LocalsMatchPc
<1> QED BY <1>1, <1>2, <1>3, <1>4, <1>5, <1>6, <1>7

LEMMA PutLoadOK == ASSUME IInv, NEW p \in Procs, PutLoad(p) PROVE IInv'
<1> USE PoolAssumption DEF PoolAssumption, IInv, Step, PutLoad
<1>1. TypeOK'
  BY DEF TypeOK, Labels, LocalsMatchPc, Publishing
<1>2. LocalsMatchPc'
  BY DEF LocalsMatchPc, Publishing
<1>3. NextIsCurrent'
  BY DEF NextIsCurrent, NewNodesPrivate
<1>4. NewNodesPrivate'
  BY DEF TypeOK, LocalsMatchPc, NewNodesPrivate, Publishing
<1>5. LinkedHaveBuffers'
  BY DEF LinkedHaveBuffers
<1>6. ListIntact'
  BY DEF ListIntact, NewNodesPrivate, LocalsMatchPc, Publishing
<1>7. OwnedOnce'
  BY DEF OwnedOnce
<1> QED BY <1>1, <1>2, <1>3, <1>4, <1>5, <1>6, <1>7

LEMMA PutCasWinsOK == ASSUME IInv, NEW p \in Procs, PutCasWins(p) PROVE IInv'
<1> USE PoolAssumption DEF PoolAssumption, IInv, Step, PutCasWins
<1>1. TypeOK'
  BY DEF TypeOK, Labels, LocalsMatchPc, Publishing
<1>2. LocalsMatchPc'
  BY DEF TypeOK, LocalsMatchPc, Publishing
<1>3. NextIsCurrent'
  BY DEF NextIsCurrent
<1>4. NewNodesPrivate'
  BY DEF TypeOK, LocalsMatchPc, NewNodesPrivate
<1>5. LinkedHaveBuffers'
  BY DEF TypeOK, LinkedHaveBuffers, NewNodesPrivate, LocalsMatchPc, Publishing
<1>6. ListIntact'
  BY DEF ListIntact, NewNodesPrivate
<1>7. OwnedOnce'
  BY DEF TypeOK, OwnedOnce, LinkedHaveBuffers, NewNodesPrivate, LocalsMatchPc, Publishing
<1> QED BY <1>1, <1>2, <1>3, <1>4, <1>5, <1>6, <1>7

LEMMA PutCasLosesOK == ASSUME IInv, NEW p \in Procs, PutCasLoses(p) PROVE IInv'
<1> USE PoolAssumption DEF PoolAssumption, IInv, Step, PutCasLoses
<1>1. TypeOK'
  BY DEF TypeOK, Labels
<1>2. LocalsMatchPc'
  BY DEF LocalsMatchPc, Publishing
<1>3. NextIsCurrent'
  BY DEF NextIsCurrent
<1>4. NewNodesPrivate'
  BY DEF TypeOK, NewNodesPrivate
<1>5. LinkedHaveBuffers'
  BY DEF LinkedHaveBuffers
<1>6. ListIntact'
  BY DEF ListIntact
<1>7. OwnedOnce'
  BY DEF OwnedOnce
<1> QED BY <1>1, <1>2, <1>3, <1>4, <1>5, <1>6, <1>7

LEMMA PutIncOK == ASSUME IInv, NEW p \in Procs, PutInc(p) PROVE IInv'
<1> USE PoolAssumption DEF PoolAssumption, IInv, Step, PutInc
<1>1. TypeOK'
  BY DEF TypeOK, Labels
<1>2. LocalsMatchPc'
  BY DEF LocalsMatchPc, Publishing
<1>3. NextIsCurrent'
  BY DEF NextIsCurrent
<1>4. NewNodesPrivate'
  BY DEF NewNodesPrivate
<1>5. LinkedHaveBuffers'
  BY DEF LinkedHaveBuffers
<1>6. ListIntact'
  BY DEF ListIntact
<1>7. OwnedOnce'
  BY DEF OwnedOnce
<1> QED BY <1>1, <1>2, <1>3, <1>4, <1>5, <1>6, <1>7

LEMMA CollectSyncedOK == ASSUME IInv, NEW b \in Buffers, CollectSynced(b) PROVE IInv'
<1> USE PoolAssumption DEF PoolAssumption, IInv, Step, CollectSynced
<1>1. TypeOK'
  BY DEF TypeOK
<1>2. LocalsMatchPc'
  BY DEF LocalsMatchPc
<1>3. NextIsCurrent'
  BY DEF NextIsCurrent
<1>4. NewNodesPrivate'
  BY DEF NewNodesPrivate
<1>5. LinkedHaveBuffers'
  BY DEF LinkedHaveBuffers
<1>6. ListIntact'
  BY DEF ListIntact
<1>7. OwnedOnce'
  BY DEF OwnedOnce
<1> QED BY <1>1, <1>2, <1>3, <1>4, <1>5, <1>6, <1>7
-----------------------------------------------------------------------------
LEMMA StructureStep == IInv /\ [Next]_vars => IInv'
<1> SUFFICES ASSUME IInv, [Next]_vars PROVE IInv'
  OBVIOUS
<1>1. ASSUME NEW p \in Procs, GetStep(p) PROVE IInv'
  BY <1>1, GetLoadOK, GetFromSyncPoolOK, GetCasWinsOK, GetCasLosesOK, GetDecOK DEF GetStep
<1>2. ASSUME NEW p \in Procs, PutStep(p) PROVE IInv'
  BY <1>2, PutTestRoomOK, PutTestFullOK, PutLoadOK, PutCasWinsOK, PutCasLosesOK, PutIncOK
  DEF PutStep
<1>3. CASE UNCHANGED vars
  BY <1>3
  DEF vars, IInv, TypeOK, LocalsMatchPc, NextIsCurrent, NewNodesPrivate,
      LinkedHaveBuffers, ListIntact, OwnedOnce
<1> QED BY <1>1, <1>2, <1>3, PreAllocateOK, PutOK, CollectSyncedOK DEF Next

LEMMA StructureInductive == Spec => []IInv
BY StructureInit, StructureStep, PTL DEF Spec

(* The variables keep their types.                                         *)
THEOREM TypeCorrect == Spec => []TypeOK
BY StructureInductive, PTL DEF IInv

(* No buffer is in two hands, for any number of goroutines in Get and Put  *)
(* and any interleaving of their loads and CASes.                          *)
THEOREM SingleOwnerHolds == Spec => []SingleOwner
<1>1. IInv => SingleOwner
  BY OwnedOnceIsSingleOwner DEF IInv
<1> QED BY <1>1, StructureInductive, PTL

(* The list from p.head stays a list of linked nodes only.                 *)
THEOREM ListIntactHolds == Spec => []ListIntact
BY StructureInductive, PTL DEF IInv
-----------------------------------------------------------------------------
(* The counter.                                                            *)
LEMMA FiniteParts ==
    ASSUME TypeOK
    PROVE  /\ IsFiniteSet(linked) /\ Cardinality(linked) \in Nat
           /\ \A L : /\ IsFiniteSet(AtPc(L)) /\ Cardinality(AtPc(L)) \in Nat
                     /\ Cardinality(AtPc(L)) <= Cardinality(Procs)
<1>1. IsFiniteSet(linked) /\ Cardinality(linked) \in Nat
  BY FS_Subset, FS_CardinalityType, PoolAssumption DEF TypeOK, PoolAssumption
<1>2. ASSUME NEW L
      PROVE  /\ IsFiniteSet(AtPc(L)) /\ Cardinality(AtPc(L)) \in Nat
             /\ Cardinality(AtPc(L)) <= Cardinality(Procs)
  <2>1. AtPc(L) \in SUBSET Procs
    BY DEF AtPc
  <2> QED BY <2>1, FS_Subset, FS_CardinalityType, PoolAssumption DEF PoolAssumption
<1> QED BY <1>1, <1>2

(* How a step of p changes the number of goroutines at the labels L.       *)
LEMMA AtPcChange ==
    ASSUME TypeOK, NEW p \in Procs, NEW from, NEW to, NEW L, Step(p, from, to)
    PROVE  /\ pc[p] \in L /\ to \in L => AtPc(L)' = AtPc(L)
           /\ pc[p] \notin L /\ to \notin L => AtPc(L)' = AtPc(L)
           /\ pc[p] \in L /\ to \notin L
                => Cardinality(AtPc(L)') = Cardinality(AtPc(L)) - 1
           /\ pc[p] \notin L /\ to \in L
                => Cardinality(AtPc(L)') = Cardinality(AtPc(L)) + 1
<1> USE DEF TypeOK, Step, AtPc
<1>1. pc' = [pc EXCEPT ![p] = to] /\ pc'[p] = to /\ \A q \in Procs \ {p} : pc'[q] = pc[q]
  OBVIOUS
<1>2. pc[p] \in L /\ to \in L => AtPc(L)' = AtPc(L)
  BY <1>1
<1>3. pc[p] \notin L /\ to \notin L => AtPc(L)' = AtPc(L)
  BY <1>1
<1>4. pc[p] \in L /\ to \notin L => AtPc(L)' = AtPc(L) \ {p} /\ p \in AtPc(L)
  BY <1>1
<1>5. pc[p] \notin L /\ to \in L => AtPc(L)' = AtPc(L) \cup {p} /\ p \notin AtPc(L)
  BY <1>1
<1>6. IsFiniteSet(AtPc(L))
  BY FiniteParts
<1> HIDE DEF AtPc, Step, TypeOK
<1> QED BY <1>2, <1>3, <1>4, <1>5, <1>6, FS_AddElement, FS_RemoveElement

CountInv == CountAccounted /\ OverrunBounded

LEMMA CountTypes ==
    ASSUME TypeOK
    PROVE  /\ Length \in Nat /\ Incs \in Nat /\ Decs \in Nat /\ Puts \in Nat
           /\ Incs <= Cardinality(Procs) /\ Decs <= Cardinality(Procs)
           /\ count \in 0..(Word - 1)
BY FiniteParts DEF Length, Incs, Decs, Puts, TypeOK

(* A step that changes neither the list nor the operations in flight.      *)
LEMMA QuietStep ==
    ASSUME CountInv, Length' = Length, Incs' = Incs, Decs' = Decs, Puts' = Puts, count' = count
    PROVE  CountInv'
<1>1. Signed' = Signed
  BY DEF Signed
<1>2. OverrunBounded'
  BY DEF CountInv, OverrunBounded
<1> QED BY <1>1, <1>2 DEF CountInv, CountAccounted

LEMMA SizeChange ==
    ASSUME TypeOK, NEW n \in Nodes
    PROVE  /\ linked' = linked \cup {n} /\ n \notin linked => Length' = Length + 1
           /\ linked' = linked \ {n} /\ n \in linked => Length' = Length - 1
BY FiniteParts, FS_AddElement, FS_RemoveElement DEF Length

LEMMA CountInit == Init => CountInv
<1> SUFFICES ASSUME Init PROVE CountInv
  OBVIOUS
<1>1. linked = {} /\ AtPc({"putInc"}) = {} /\ AtPc({"getDec"}) = {}
      /\ AtPc({"putLoad", "putCas"}) = {} /\ count = 0
  BY DEF Init, AtPc
<1>2. Length = 0 /\ Incs = 0 /\ Decs = 0 /\ Puts = 0
  BY <1>1, FS_EmptySet DEF Length, Incs, Decs, Puts
<1>3. Cardinality(Procs) >= 0 /\ MaxPoolSize > 0
  BY Counts, PoolAssumption DEF PoolAssumption
<1> QED BY <1>1, <1>2, <1>3, Counts DEF CountInv, CountAccounted, OverrunBounded, Signed

\* The goroutines at three different places are at most all of them.
LEMMA InFlight ==
    ASSUME TypeOK, NEW p \in Procs, pc[p] = "putTest"
    PROVE  Incs + Puts <= Cardinality(Procs) - 1
<1> DEFINE A == AtPc({"putInc"})
           B == AtPc({"putLoad", "putCas"})
<1>1. A \cap B = {} /\ A \cup B \in SUBSET (Procs \ {p})
  BY DEF AtPc
<1>2. IsFiniteSet(Procs \ {p}) /\ Cardinality(Procs \ {p}) = Cardinality(Procs) - 1
  BY FS_RemoveElement, PoolAssumption DEF PoolAssumption
<1>3. Cardinality(A \cup B) <= Cardinality(Procs) - 1
  BY <1>1, <1>2, FS_Subset
<1>4. Cardinality(A \cup B) = Cardinality(A) + Cardinality(B) - Cardinality(A \cap B)
  BY FiniteParts, FS_Union
<1>5. Cardinality(A \cap B) = 0
  BY <1>1, FS_EmptySet
<1>6. Cardinality(A) \in Nat /\ Cardinality(B) \in Nat
  BY FiniteParts
<1> QED BY <1>3, <1>4, <1>5, <1>6, Counts DEF Incs, Puts

LEMMA CountStep == IInv /\ CountInv /\ [Next]_vars => CountInv'
<1> SUFFICES ASSUME IInv, CountInv, [Next]_vars PROVE CountInv'
  OBVIOUS
<1>0. TypeOK
  BY DEF IInv
<1>t. /\ Length \in Nat /\ Incs \in Nat /\ Decs \in Nat /\ Puts \in Nat
      /\ Incs <= Cardinality(Procs) /\ Decs <= Cardinality(Procs)
      /\ count \in 0..(Word - 1)
  BY <1>0, CountTypes
<1>c. /\ Signed = Length - Incs + Decs /\ Signed' = Length' - Incs' + Decs'
      /\ count = IF Signed < 0 THEN Signed + Word ELSE Signed
      /\ Length + Puts <= MaxPoolSize + Cardinality(Procs) - 1
  BY DEF CountInv, CountAccounted, OverrunBounded, Signed
<1>1. ASSUME NEW p \in Procs,
             \/ GetLoad(p) \/ GetFromSyncPool(p) \/ GetCasLoses(p) \/ PreAllocate(p)
             \/ PutTestFull(p) \/ PutLoad(p) \/ PutCasLoses(p)
             \/ \E b \in Buffers : Put(p, b)
      PROVE  CountInv'
  <2>1. PICK from \in SUBSET Labels, to \in Labels :
          /\ Step(p, from, to)
          /\ pc[p] \notin {"putInc", "getDec"} /\ to \notin {"putInc", "getDec"}
          /\ pc[p] \in {"putLoad", "putCas"} <=> to \in {"putLoad", "putCas"}
    BY <1>1 DEF GetLoad, GetFromSyncPool, GetCasLoses, PreAllocate, PutTestFull, PutLoad,
                PutCasLoses, Put, Step, Labels
  <2>2. Incs' = Incs /\ Decs' = Decs /\ Puts' = Puts
    BY <1>0, <2>1, AtPcChange, SMTT(60) DEF Incs, Decs, Puts
  <2>3. count' = count /\ Length' = Length
    BY <1>1 DEF GetLoad, GetFromSyncPool, GetCasLoses, PreAllocate, PutTestFull, PutLoad,
                PutCasLoses, Put, Length
  <2> QED BY <2>2, <2>3, QuietStep
<1>2. ASSUME NEW p \in Procs, GetCasWins(p) PROVE CountInv'
  <2>1. cur[p] \in linked /\ cur[p] \in Nodes
    BY <1>2 DEF GetCasWins, Step, IInv, LocalsMatchPc, ListIntact, TypeOK
  <2>2. Length' = Length - 1
    BY <1>0, <1>2, <2>1, SizeChange DEF GetCasWins
  <2>3. Incs' = Incs /\ Decs' = Decs + 1 /\ Puts' = Puts
    <3>1. Step(p, {"getCas"}, "getDec") /\ pc[p] = "getCas"
      BY <1>2 DEF GetCasWins, Step
    <3> QED BY <1>0, <3>1, AtPcChange DEF Incs, Decs, Puts
  <2>4. Signed' = Signed /\ count' = count
    BY <1>t, <1>c, <1>2, <2>2, <2>3 DEF GetCasWins
  <2>5. OverrunBounded'
    BY <1>t, <1>c, <2>2, <2>3, Counts DEF OverrunBounded
  <2> QED BY <1>c, <2>4, <2>5 DEF CountInv, CountAccounted
<1>3. ASSUME NEW p \in Procs, GetDec(p) PROVE CountInv'
  <2>1. Step(p, {"getDec"}, "idle") /\ pc[p] = "getDec"
    BY <1>3 DEF GetDec, Step
  <2>2. Incs' = Incs /\ Decs' = Decs - 1 /\ Puts' = Puts /\ Length' = Length
    <3>1. Length' = Length
      BY <1>3 DEF GetDec, Length
    <3> QED BY <1>0, <2>1, <3>1, AtPcChange DEF Incs, Decs, Puts
  <2>3. Signed' = Signed - 1
    BY <1>t, <1>c, <2>2
  <2>4. count' = IF count = 0 THEN Word - 1 ELSE count - 1
    BY <1>3 DEF GetDec
  <2>5. Signed \in Int /\ Signed >= -Cardinality(Procs)
    BY <1>t, <1>c, Counts
  <2>6. CountAccounted'
    BY <1>c, <2>3, <2>4, <2>5, Counts DEF CountAccounted
  <2>7. OverrunBounded'
    BY <1>c, <2>2 DEF OverrunBounded
  <2> QED BY <2>6, <2>7 DEF CountInv
<1>4. ASSUME NEW p \in Procs, PutTestRoom(p) PROVE CountInv'
  <2>1. Step(p, {"putTest"}, "putLoad") /\ pc[p] = "putTest" /\ count < MaxPoolSize
    BY <1>4 DEF PutTestRoom, Step
  <2>2. Incs' = Incs /\ Decs' = Decs /\ Puts' = Puts + 1 /\ Length' = Length /\ count' = count
    BY <1>0, <1>4, <2>1, AtPcChange DEF Incs, Decs, Puts, Length, PutTestRoom
  <2>3. Incs + Puts <= Cardinality(Procs) - 1
    BY <1>0, <2>1, InFlight
  <2>4. Length - Incs + Decs <= MaxPoolSize - 1
    BY <1>t, <1>c, <2>1, Counts
  <2>5. OverrunBounded'
    BY <1>t, <2>2, <2>3, <2>4, Counts DEF OverrunBounded
  <2>6. Signed' = Signed
    BY <1>c, <2>2
  <2> QED BY <1>c, <2>2, <2>5, <2>6 DEF CountInv, CountAccounted
<1>5. ASSUME NEW p \in Procs, PutCasWins(p) PROVE CountInv'
  <2>1. Step(p, {"putCas"}, "putInc") /\ pc[p] = "putCas"
    BY <1>5 DEF PutCasWins, Step
  <2>2. Incs' = Incs + 1 /\ Decs' = Decs /\ Puts' = Puts - 1
    BY <1>0, <2>1, AtPcChange DEF Incs, Decs, Puts
  <2>3. node[p] \in Nodes /\ node[p] \notin linked
    BY <2>1 DEF IInv, LocalsMatchPc, NewNodesPrivate, Publishing, TypeOK
  <2>4. Length' = Length + 1
    BY <1>0, <1>5, <2>3, SizeChange DEF PutCasWins
  <2>5. Signed' = Signed /\ count' = count
    BY <1>t, <1>c, <1>5, <2>2, <2>4 DEF PutCasWins
  <2>6. OverrunBounded'
    BY <1>t, <1>c, <2>2, <2>4 DEF OverrunBounded
  <2> QED BY <1>c, <2>5, <2>6 DEF CountInv, CountAccounted
<1>6. ASSUME NEW p \in Procs, PutInc(p) PROVE CountInv'
  <2>1. Step(p, {"putInc"}, "idle") /\ pc[p] = "putInc"
    BY <1>6 DEF PutInc, Step
  <2>2. Incs' = Incs - 1 /\ Decs' = Decs /\ Puts' = Puts /\ Length' = Length
    <3>1. Length' = Length
      BY <1>6 DEF PutInc, Length
    <3> QED BY <1>0, <2>1, <3>1, AtPcChange, SMTT(60) DEF Incs, Decs, Puts
  <2>3. Signed' = Signed + 1
    BY <1>t, <1>c, <2>2
  <2>4. count' = IF count = Word - 1 THEN 0 ELSE count + 1
    BY <1>6 DEF PutInc
  <2>5. /\ Signed \in Int /\ Signed >= -Cardinality(Procs)
        /\ Signed <= MaxPoolSize + 2 * Cardinality(Procs) - 1
    BY <1>t, <1>c, Counts
  <2>6. CountAccounted'
    BY <1>c, <2>3, <2>4, <2>5, Counts DEF CountAccounted
  <2>7. OverrunBounded'
    BY <1>c, <2>2 DEF OverrunBounded
  <2> QED BY <2>6, <2>7 DEF CountInv
<1>7. ASSUME UNCHANGED <<pc, linked, count>> PROVE CountInv'
  <2>1. Length' = Length /\ Incs' = Incs /\ Decs' = Decs /\ Puts' = Puts
    BY <1>7 DEF Length, Incs, Decs, Puts, AtPc
  <2> QED BY <1>7, <2>1, QuietStep
<1> QED
  BY <1>1, <1>2, <1>3, <1>4, <1>5, <1>6, <1>7
  DEF Next, GetStep, PutStep, CollectSynced, vars

LEMMA CountInductive == Spec => []CountInv
BY CountInit, CountStep, StructureInductive, PTL DEF Spec

(* The counter is off by exactly the operations in flight, and wraps below *)
(* zero only by as many as there are goroutines between CAS and add.       *)
THEOREM CountAccountedHolds == Spec => []CountAccounted
BY CountInductive, PTL DEF CountInv

(* N goroutines overrun maxPoolSize by at most N - 1 buffers, although the *)
(* test against it is stale when the node is linked.                       *)
THEOREM OverrunBoundedHolds == Spec => []OverrunBounded
BY CountInductive, PTL DEF CountInv
=============================================================================
