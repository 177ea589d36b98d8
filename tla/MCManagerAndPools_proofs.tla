---------------------- MODULE MCManagerAndPools_proofs ----------------------
(***************************************************************************)
(* Proofs about the two pools of core/pool/enhanced_pool.go and what tunes *)
(* (core/performance), as the run of MCManagerAndPools checks them, for    *)
(* any connections, protocols, workers, requests, shares and bounds.       *)
(***************************************************************************)
EXTENDS MCManagerAndPools, TLAPS, SequenceTheorems, FiniteSetTheorems,
        WellFoundedInduction

(* Sequences without repetition, as the groups of the connection pool are. *)
LEMMA RemovedAt ==
    ASSUME NEW S, NEW s \in Seq(S), NEW k \in 1..Len(s), Conns!IsInjective(s)
    PROVE  Conns!RemoveFirst(s, s[k]) = SubSeq(s, 1, k - 1) \o SubSeq(s, k + 1, Len(s))
<1>1. {i \in 1..Len(s) : s[i] = s[k]} = {k}
  BY DEF Conns!IsInjective
<1>2. Conns!SelectInSeq(s, LAMBDA v : v = s[k]) = k
  <2>1. Len(s) \in Nat
    BY LenProperties
  <2> QED BY <1>1, <2>1 DEF Conns!SelectInSeq, Conns!Min
<1> QED BY <1>2 DEF Conns!RemoveFirst, Conns!RemoveAt

LEMMA RemovedFrom ==
    ASSUME NEW S, NEW s \in Seq(S), NEW e, Conns!IsInjective(s)
    PROVE  LET r == Conns!RemoveFirst(s, e)
           IN  r \in Seq(S) /\ Conns!IsInjective(r) /\ Conns!ToSet(r) = Conns!ToSet(s) \ {e}
<1>1. CASE e \notin Conns!ToSet(s)
  <2>1. Conns!RemoveFirst(s, e) = s
    BY <1>1, LenProperties DEF Conns!RemoveFirst, Conns!ToSet
  <2> QED BY <1>1, <2>1
<1>2. CASE e \in Conns!ToSet(s)
  <2>0. Len(s) \in Nat /\ DOMAIN s = 1..Len(s)
    BY LenProperties
  <2>1. PICK k \in 1..Len(s) : s[k] = e
    BY <1>2, <2>0 DEF Conns!ToSet
  <2> DEFINE a == SubSeq(s, 1, k - 1)
             b == SubSeq(s, k + 1, Len(s))
             r == a \o b
  <2>2. Conns!RemoveFirst(s, e) = r
    BY <2>1, RemovedAt
  <2>3. \A i \in 1..Len(s) : s[i] \in S
    BY ElementOfSeq
  <2>4. a \in Seq(S) /\ Len(a) = k - 1 /\ \A i \in 1..(k - 1) : a[i] = s[i]
    <3>1. k - 1 \in Int /\ \A i \in 1..(k - 1) : s[i] \in S
      BY <2>0, <2>3
    <3>2. /\ a \in Seq(S) /\ Len(a) = IF 1 <= k - 1 THEN k - 1 - 1 + 1 ELSE 0
          /\ \A i \in 1..(k - 1 - 1 + 1) : a[i] = s[1 + i - 1]
      BY <3>1, SubSeqProperties
    <3>3. k - 1 - 1 + 1 = k - 1 /\ k \in Nat \ {0}
      BY <2>0
    <3>4. \A i \in 1..(k - 1) : 1 + i - 1 = i
      BY <3>3
    <3>5. Len(a) = k - 1
      BY <3>2, <3>3
    <3>6. \A i \in 1..(k - 1) : a[i] = s[i]
      BY <3>2, <3>3, <3>4
    <3> HIDE DEF a
    <3> QED BY <3>2, <3>5, <3>6
  <2>5. /\ b \in Seq(S) /\ Len(b) = Len(s) - k
        /\ \A i \in 1..(Len(s) - k) : b[i] = s[k + i]
    <3>1. k + 1 \in Int /\ Len(s) \in Int /\ \A i \in (k + 1)..Len(s) : s[i] \in S
      BY <2>0, <2>3
    <3>2. /\ b \in Seq(S) /\ Len(b) = IF k + 1 <= Len(s) THEN Len(s) - (k + 1) + 1 ELSE 0
          /\ \A i \in 1..(Len(s) - (k + 1) + 1) : b[i] = s[k + 1 + i - 1]
      BY <3>1, SubSeqProperties
    <3>3. Len(s) - (k + 1) + 1 = Len(s) - k /\ k <= Len(s) /\ k \in Nat
      BY <2>0
    <3>4. \A i \in 1..(Len(s) - k) : k + 1 + i - 1 = k + i
      BY <2>0, <3>3
    <3>5. Len(b) = Len(s) - k
      <4> HIDE DEF b
      <4>1. Len(b) = IF k + 1 <= Len(s) THEN Len(s) - (k + 1) + 1 ELSE 0
        BY <3>2
      <4>2. Len(s) \in Int /\ k \in Int /\ k <= Len(s)
        BY <2>0, <3>3
      <4>3. CASE k + 1 <= Len(s)
        BY <4>1, <4>2, <4>3
      <4>4. CASE k = Len(s)
        <5>1. ~(k + 1 <= Len(s)) /\ Len(s) - k = 0
          BY <4>2, <4>4
        <5> QED BY <4>1, <5>1
      <4> QED BY <4>2, <4>3, <4>4
    <3>6. \A i \in 1..(Len(s) - k) : b[i] = s[k + i]
      <4> HIDE DEF b
      <4> SUFFICES ASSUME NEW i \in 1..(Len(s) - k)  PROVE b[i] = s[k + i]
        OBVIOUS
      <4>1. i \in 1..(Len(s) - (k + 1) + 1) /\ k + 1 + i - 1 = k + i
        BY <3>3, <3>4
      <4> QED BY <3>2, <4>1
    <3> QED BY <3>2, <3>5, <3>6
  <2> HIDE DEF a, b
  <2>6. /\ r \in Seq(S) /\ Len(r) = Len(s) - 1
        /\ \A i \in 1..(Len(s) - 1) : r[i] = IF i <= k - 1 THEN a[i] ELSE b[i - (k - 1)]
    <3>1. Len(a) + Len(b) = Len(s) - 1
      BY <2>0, <2>4, <2>5
    <3>2. /\ r \in Seq(S) /\ Len(r) = Len(a) + Len(b)
          /\ \A i \in 1..(Len(a) + Len(b)) : r[i] = IF i <= Len(a) THEN a[i] ELSE b[i - Len(a)]
      BY <2>4, <2>5, ConcatProperties
    <3> QED BY <2>4, <3>1, <3>2
  <2>7. \A i \in 1..(Len(s) - 1) : r[i] = IF i < k THEN s[i] ELSE s[i + 1]
    <3> SUFFICES ASSUME NEW i \in 1..(Len(s) - 1)
                 PROVE  r[i] = IF i < k THEN s[i] ELSE s[i + 1]
      OBVIOUS
    <3>1. r[i] = IF i <= k - 1 THEN a[i] ELSE b[i - (k - 1)]
      BY <2>6
    <3>2. CASE i < k
      <4>1. i <= k - 1 /\ i \in 1..(k - 1)
        BY <2>0, <3>2
      <4> QED BY <2>4, <3>1, <3>2, <4>1
    <3>3. CASE ~(i < k)
      <4>1. ~(i <= k - 1) /\ i - (k - 1) \in 1..(Len(s) - k) /\ k + (i - (k - 1)) = i + 1
        BY <2>0, <3>3
      <4> QED BY <2>5, <3>1, <3>3, <4>1
    <3> QED BY <3>2, <3>3
  <2>8. DOMAIN r = 1..(Len(s) - 1)
    BY <2>6, LenProperties
  <2> HIDE DEF r
  <2>9. Conns!IsInjective(r)
    BY <2>0, <2>7, <2>8, SMTT(60) DEF Conns!IsInjective
  <2>10. ASSUME NEW x \in Conns!ToSet(r) PROVE x \in Conns!ToSet(s) \ {e}
    BY <2>0, <2>1, <2>7, <2>8 DEF Conns!IsInjective, Conns!ToSet
  <2>11. ASSUME NEW x \in Conns!ToSet(s) \ {e} PROVE x \in Conns!ToSet(r)
    <3>1. PICK j \in 1..Len(s) : s[j] = x /\ j # k
      BY <2>0, <2>1 DEF Conns!ToSet
    <3>2. CASE j < k
      BY <2>0, <2>7, <2>8, <3>1, <3>2 DEF Conns!ToSet
    <3>3. CASE j > k
      <4>1. j - 1 \in 1..(Len(s) - 1) /\ r[j - 1] = x
        BY <2>0, <2>7, <3>1, <3>3
      <4> QED BY <2>8, <4>1 DEF Conns!ToSet
    <3> QED BY <2>0, <3>1, <3>2, <3>3
  <2> QED BY <2>2, <2>6, <2>9, <2>10, <2>11
<1> QED BY <1>1, <1>2

LEMMA AppendedTo ==
    ASSUME NEW S, NEW s \in Seq(S), NEW e \in S \ Conns!ToSet(s), Conns!IsInjective(s)
    PROVE  LET r == Append(s, e)
           IN  r \in Seq(S) /\ Conns!IsInjective(r) /\ Conns!ToSet(r) = Conns!ToSet(s) \cup {e}
<1> DEFINE r == Append(s, e)
<1>0. Len(s) \in Nat /\ DOMAIN s = 1..Len(s)
  BY LenProperties
<1>1. /\ r \in Seq(S) /\ Len(r) = Len(s) + 1
      /\ \A i \in 1..Len(s) : r[i] = s[i]
      /\ r[Len(s) + 1] = e
  BY AppendProperties
<1>2. DOMAIN r = 1..(Len(s) + 1)
  BY <1>1, LenProperties
<1> HIDE DEF r
<1>3. \A i \in 1..Len(s) : s[i] # e
  BY <1>0 DEF Conns!ToSet
<1>4. Conns!IsInjective(r)
  BY <1>0, <1>1, <1>2, <1>3 DEF Conns!IsInjective
<1>5. Conns!ToSet(r) = Conns!ToSet(s) \cup {e}
  BY <1>0, <1>1, <1>2 DEF Conns!ToSet
<1> QED BY <1>1, <1>4, <1>5 DEF r
-----------------------------------------------------------------------------
(* Cardinality as the pool's module names it.                              *)
LEMMA Counted == \A S : Conns!Cardinality(S) = Cardinality(S)
BY DEF Conns!Cardinality, Cardinality, Conns!IsFiniteSet, IsFiniteSet

(* The connection pool.  What has not been offered yet has been neither    *)
(* closed nor classified.                                                  *)
Fresh == \A c \in Connections \ offered : closes[c] = 0 /\ protocolOf[c] = NoProtocol

ConnsInv ==
    /\ Conns!TypeOK /\ Conns!PoolAgrees
    /\ Fresh /\ IsFiniteSet(pooled)

(* What MapsAgree says of the groups, for the groups that a step leaves.   *)
Grouped(g, members, protocol) ==
    \A p \in Protocols :
        /\ Conns!IsInjective(g[p])
        /\ Conns!ToSet(g[p]) = {c \in members : protocol[c] = p}

LEMMA GroupsAreGrouped ==
    ConnsInv => Grouped(groups, pooled, protocolOf)
BY DEF ConnsInv, Conns!PoolAgrees, Conns!MapsAgree, Grouped

LEMMA GroupLeft ==
    ASSUME ConnsInv, NEW c \in pooled
    PROVE  /\ Conns!LeaveGroup(c) \in [Protocols -> Seq(Connections)]
           /\ Grouped(Conns!LeaveGroup(c), pooled \ {c}, protocolOf)
<1>0. /\ groups \in [Protocols -> Seq(Connections)] /\ Grouped(groups, pooled, protocolOf)
      /\ protocolOf[c] \in Protocols \cup {NoProtocol}
  BY GroupsAreGrouped DEF ConnsInv, Conns!TypeOK
<1>1. CASE protocolOf[c] = NoProtocol
  <2>1. Conns!LeaveGroup(c) = groups /\ \A p \in Protocols : protocolOf[c] # p
    BY <1>1, PoolsAssumption DEF Conns!LeaveGroup, PoolsAssumption
  <2> QED BY <1>0, <2>1 DEF Grouped
<1>2. CASE protocolOf[c] \in Protocols
  <2> DEFINE q == protocolOf[c]
             r == Conns!RemoveFirst(groups[q], c)
  <2>1. Conns!LeaveGroup(c) = [groups EXCEPT ![q] = r]
    BY <1>2, PoolsAssumption DEF Conns!LeaveGroup, PoolsAssumption
  <2>2. groups[q] \in Seq(Connections) /\ Conns!IsInjective(groups[q])
    BY <1>0, <1>2 DEF Grouped
  <2>3. /\ r \in Seq(Connections) /\ Conns!IsInjective(r)
        /\ Conns!ToSet(r) = Conns!ToSet(groups[q]) \ {c}
    BY <2>2, RemovedFrom
  <2> HIDE DEF r
  <2>4. ASSUME NEW p \in Protocols
        PROVE  /\ Conns!IsInjective(Conns!LeaveGroup(c)[p])
               /\ Conns!ToSet(Conns!LeaveGroup(c)[p]) = {d \in pooled \ {c} : protocolOf[d] = p}
    <3>1. CASE p = q
      <4>1. Conns!LeaveGroup(c)[p] = r
        BY <1>0, <2>1, <3>1
      <4> QED BY <1>0, <2>3, <3>1, <4>1 DEF Grouped
    <3>2. CASE p # q
      <4>1. Conns!LeaveGroup(c)[p] = groups[p]
        BY <1>0, <2>1, <3>2
      <4> QED BY <1>0, <3>2, <4>1 DEF Grouped
    <3> QED BY <3>1, <3>2
  <2> QED BY <1>0, <2>1, <2>3, <2>4 DEF Grouped
<1> QED BY <1>0, <1>1, <1>2

(* A step that leaves the maps and the counter alone.                      *)
LEMMA MapsKept ==
    ASSUME ConnsInv, UNCHANGED <<offered, Conns!mapVars, poolOpen>>,
           lost' \subseteq offered, healthy' \subseteq offered, stale' \subseteq offered,
           toCheck' \subseteq offered, toClean' \subseteq offered
    PROVE  ConnsInv'
BY DEF ConnsInv, Conns!TypeOK, Conns!PoolAgrees, Conns!MapsAgree, Conns!ClosedExactlyOnce,
       Fresh, Conns!mapVars

(* RemoveConnection, whoever calls it.                                     *)
LEMMA TakenOut ==
    ASSUME ConnsInv, NEW c \in offered, Conns!TakeOut(c),
           UNCHANGED <<offered, Conns!userVars, poolOpen>>,
           toCheck' \subseteq offered, toClean' \subseteq offered
    PROVE  ConnsInv'
<1>0. Conns!TypeOK /\ Conns!MapsAgree /\ Conns!ClosedExactlyOnce /\ Fresh /\ IsFiniteSet(pooled)
  BY DEF ConnsInv, Conns!PoolAgrees
<1>1. CASE UNCHANGED Conns!mapVars
  BY <1>0, <1>1, MapsKept DEF Conns!userVars, Conns!TypeOK
<1>2. CASE /\ c \in pooled
           /\ groups' = Conns!LeaveGroup(c)
           /\ pooled' = pooled \ {c}
           /\ closes' = [closes EXCEPT ![c] = @ + 1]
           /\ total' = total - 1
           /\ UNCHANGED protocolOf
  <2>1. groups' \in [Protocols -> Seq(Connections)] /\ Grouped(groups', pooled', protocolOf')
    BY <1>2, GroupLeft
  <2>2. closes \in [Connections -> Nat] /\ c \in Connections /\ closes[c] = 0
    BY <1>0, <1>2 DEF Conns!TypeOK, Conns!ClosedExactlyOnce
  <2>3. closes' \in [Connections -> Nat] /\ closes'[c] = 1
    BY <1>2, <2>2
  <2>4. Conns!TypeOK'
    BY <1>0, <1>2, <2>1, <2>3 DEF Conns!TypeOK, Conns!userVars
  <2>5. IsFiniteSet(pooled') /\ Cardinality(pooled') = Cardinality(pooled) - 1
    BY <1>0, <1>2, FS_RemoveElement
  <2>6. Conns!MapsAgree'
    <3>1. poolOpen' => total' = Conns!Cardinality(pooled')
      BY <1>0, <1>2, <2>5, Counted DEF Conns!MapsAgree, Conns!TypeOK
    <3> QED BY <2>1, <3>1 DEF Conns!MapsAgree, Grouped
  <2>7. Conns!ClosedExactlyOnce'
    BY <1>0, <1>2, <2>2, <2>3 DEF Conns!ClosedExactlyOnce, Conns!TypeOK
  <2>8. Fresh'
    BY <1>0, <1>2, <2>2 DEF Fresh
  <2> QED BY <2>4, <2>5, <2>6, <2>7, <2>8 DEF ConnsInv, Conns!PoolAgrees
<1> QED BY <1>1, <1>2 DEF Conns!TakeOut

LEMMA Added ==
    ASSUME ConnsInv, NEW c \in Connections, Conns!AddConnection(c)
    PROVE  ConnsInv'
<1>0. /\ Conns!TypeOK /\ Conns!MapsAgree /\ Conns!ClosedExactlyOnce /\ Fresh /\ IsFiniteSet(pooled)
      /\ Grouped(groups, pooled, protocolOf)
  BY GroupsAreGrouped DEF ConnsInv, Conns!PoolAgrees
<1>1. /\ c \notin offered /\ c \notin pooled /\ offered' = offered \cup {c}
      /\ closes[c] = 0 /\ protocolOf[c] = NoProtocol
      /\ UNCHANGED <<protocolOf, groups, lost, stale, poolOpen, toCheck, toClean>>
  BY <1>0 DEF Conns!AddConnection, Conns!TypeOK, Fresh
<1>2. CASE /\ closes' = [closes EXCEPT ![c] = @ + 1]
           /\ UNCHANGED <<pooled, healthy, total>>
  <2>1. closes' \in [Connections -> Nat] /\ closes'[c] = 1
    <3>1. closes \in [Connections -> Nat]
      BY <1>0 DEF Conns!TypeOK
    <3> QED BY <1>1, <1>2, <3>1
  <2>2. Conns!TypeOK'
    BY <1>0, <1>1, <1>2, <2>1 DEF Conns!TypeOK
  <2>3. Conns!MapsAgree'
    BY <1>0, <1>1, <1>2 DEF Conns!MapsAgree
  <2>4. Conns!ClosedExactlyOnce' /\ Fresh'
    BY <1>0, <1>1, <1>2, <2>1 DEF Conns!ClosedExactlyOnce, Conns!TypeOK, Fresh
  <2> QED BY <1>0, <1>2, <2>2, <2>3, <2>4 DEF ConnsInv, Conns!PoolAgrees
<1>3. CASE /\ pooled' = pooled \cup {c}
           /\ healthy' = healthy \cup {c}
           /\ total' = total + 1
           /\ UNCHANGED closes
  <2>1. IsFiniteSet(pooled') /\ Cardinality(pooled') = Cardinality(pooled) + 1
    BY <1>0, <1>1, <1>3, FS_AddElement
  <2>2. Conns!TypeOK'
    BY <1>0, <1>1, <1>3 DEF Conns!TypeOK
  <2>3. \A p \in Protocols : protocolOf[c] # p
    BY <1>1, PoolsAssumption DEF PoolsAssumption
  <2>4. Grouped(groups', pooled', protocolOf')
    BY <1>0, <1>1, <1>3, <2>3 DEF Grouped
  <2>5. Conns!MapsAgree'
    <3>1. poolOpen' => total' = Conns!Cardinality(pooled')
      BY <1>0, <1>1, <1>3, <2>1, Counted DEF Conns!MapsAgree, Conns!TypeOK
    <3> QED BY <2>4, <3>1 DEF Conns!MapsAgree, Grouped
  <2>6. Conns!ClosedExactlyOnce' /\ Fresh'
    BY <1>0, <1>1, <1>3 DEF Conns!ClosedExactlyOnce, Fresh
  <2> QED BY <2>1, <2>2, <2>5, <2>6 DEF ConnsInv, Conns!PoolAgrees
<1> QED BY <1>2, <1>3 DEF Conns!AddConnection

LEMMA Reclassified ==
    ASSUME ConnsInv, NEW c \in Connections, NEW p \in Protocols,
           Conns!UpdateConnectionProtocol(c, p)
    PROVE  ConnsInv'
<1>0. /\ Conns!TypeOK /\ Conns!MapsAgree /\ Conns!ClosedExactlyOnce /\ Fresh /\ IsFiniteSet(pooled)
  BY DEF ConnsInv, Conns!PoolAgrees
<1> DEFINE g == Conns!LeaveGroup(c)
           r == Append(g[p], c)
<1>1. /\ c \in pooled
      /\ groups' = [g EXCEPT ![p] = r]
      /\ protocolOf' = [protocolOf EXCEPT ![c] = p]
      /\ UNCHANGED <<offered, pooled, closes, lost, healthy, stale, total, poolOpen, toCheck, toClean>>
  BY DEF Conns!UpdateConnectionProtocol, Conns!userVars
<1>2. g \in [Protocols -> Seq(Connections)] /\ Grouped(g, pooled \ {c}, protocolOf)
  BY <1>1, GroupLeft
<1> HIDE DEF g
<1>3. /\ r \in Seq(Connections) /\ Conns!IsInjective(r)
      /\ Conns!ToSet(r) = Conns!ToSet(g[p]) \cup {c}
  <2>1. g[p] \in Seq(Connections) /\ Conns!IsInjective(g[p]) /\ c \notin Conns!ToSet(g[p])
    BY <1>2 DEF Grouped
  <2> QED BY <2>1, AppendedTo
<1> HIDE DEF r
<1>4. protocolOf \in [Connections -> Protocols \cup {NoProtocol}]
  BY <1>0 DEF Conns!TypeOK
<1>5. ASSUME NEW q \in Protocols
      PROVE  /\ Conns!IsInjective(groups'[q])
             /\ Conns!ToSet(groups'[q]) = {d \in pooled : protocolOf'[d] = q}
  <2>0. pooled \subseteq Connections
    BY <1>0 DEF Conns!TypeOK
  <2>1. CASE q = p
    <3>1. groups'[q] = r
      BY <1>1, <1>2, <2>1
    <3> QED BY <1>1, <1>2, <1>3, <1>4, <2>0, <2>1, <3>1 DEF Grouped
  <2>2. CASE q # p
    <3>1. groups'[q] = g[q]
      BY <1>1, <1>2, <2>2
    <3> QED BY <1>1, <1>2, <1>4, <2>0, <2>2, <3>1 DEF Grouped
  <2> QED BY <2>1, <2>2
<1>6. Conns!TypeOK'
  BY <1>0, <1>1, <1>2, <1>3, <1>4 DEF Conns!TypeOK
<1>7. Conns!MapsAgree'
  BY <1>0, <1>1, <1>5 DEF Conns!MapsAgree
<1>8. Conns!ClosedExactlyOnce' /\ Fresh'
  BY <1>0, <1>1 DEF Conns!ClosedExactlyOnce, Fresh, Conns!TypeOK
<1> QED BY <1>0, <1>1, <1>6, <1>7, <1>8 DEF ConnsInv, Conns!PoolAgrees

LEMMA AllClosed ==
    ASSUME ConnsInv, Conns!Close
    PROVE  ConnsInv'
<1>0. /\ Conns!TypeOK /\ Conns!MapsAgree /\ Conns!ClosedExactlyOnce /\ Fresh
  BY DEF ConnsInv, Conns!PoolAgrees
<1>1. /\ ~poolOpen' /\ pooled' = {} /\ groups' = [p \in Protocols |-> <<>>]
      /\ closes' = [c \in Connections |-> IF c \in pooled THEN closes[c] + 1 ELSE closes[c]]
      /\ UNCHANGED <<offered, protocolOf, total, lost, healthy, stale, toCheck, toClean>>
  BY DEF Conns!Close, Conns!userVars
<1>2. \A p \in Protocols : groups'[p] = <<>>
  BY <1>1
<1>3. /\ <<>> \in Seq(Connections)
      /\ Conns!IsInjective(<<>>) /\ Conns!ToSet(<<>>) = {}
  <2>1. <<>> \in Seq(Connections) /\ DOMAIN <<>> = {}
    BY EmptySeq, LenProperties
  <2> QED BY <2>1 DEF Conns!IsInjective, Conns!ToSet
<1>4. closes' \in [Connections -> Nat]
  BY <1>0, <1>1 DEF Conns!TypeOK
<1>5. Conns!TypeOK'
  BY <1>0, <1>1, <1>3, <1>4 DEF Conns!TypeOK, Conns!Close
<1>6. Conns!MapsAgree'
  BY <1>1, <1>2, <1>3 DEF Conns!MapsAgree
<1>7. Conns!ClosedExactlyOnce' /\ Fresh'
  BY <1>0, <1>1 DEF Conns!ClosedExactlyOnce, Fresh, Conns!TypeOK
<1> QED BY <1>1, <1>5, <1>6, <1>7, FS_EmptySet DEF ConnsInv, Conns!PoolAgrees

LEMMA ConnsInit == Conns!Init => ConnsInv
<1> SUFFICES ASSUME Conns!Init PROVE ConnsInv
  OBVIOUS
<1>1. /\ <<>> \in Seq(Connections)
      /\ Conns!IsInjective(<<>>) /\ Conns!ToSet(<<>>) = {}
  <2>1. <<>> \in Seq(Connections) /\ DOMAIN <<>> = {}
    BY EmptySeq, LenProperties
  <2> QED BY <2>1 DEF Conns!IsInjective, Conns!ToSet
<1>2. Conns!TypeOK
  BY <1>1 DEF Conns!Init, Conns!TypeOK
<1>3. Conns!MapsAgree
  BY <1>1, FS_EmptySet, Counted DEF Conns!Init, Conns!MapsAgree
<1>4. Conns!ClosedExactlyOnce /\ Fresh
  BY DEF Conns!Init, Conns!ClosedExactlyOnce, Fresh
<1> QED BY <1>2, <1>3, <1>4, FS_EmptySet DEF Conns!Init, ConnsInv, Conns!PoolAgrees

LEMMA ConnsStep == ConnsInv /\ [Conns!Next]_(Conns!vars) => ConnsInv'
<1> SUFFICES ASSUME ConnsInv, [Conns!Next]_(Conns!vars) PROVE ConnsInv'
  OBVIOUS
<1>0. Conns!TypeOK
  BY DEF ConnsInv
<1>1. ASSUME NEW c \in Connections,
             Conns!RemoveConnection(c) \/ Conns!RemoveFailed(c) \/ Conns!CleanOne(c)
      PROVE  ConnsInv'
  BY <1>0, <1>1, TakenOut DEF Conns!RemoveConnection, Conns!RemoveFailed, Conns!CleanOne,
                              Conns!TypeOK
<1>2. ASSUME NEW c \in Connections,
             \/ Conns!Use(c) \/ Conns!CheckPassed(c) \/ Conns!CheckFailed(c)
             \/ Conns!GoIdle(c) \/ Conns!UserCloses(c)
      PROVE  ConnsInv'
  BY <1>0, <1>2, MapsKept DEF Conns!Use, Conns!CheckPassed, Conns!CheckFailed, Conns!GoIdle,
                              Conns!UserCloses, Conns!TypeOK
<1>3. CASE Conns!HealthSnapshot \/ Conns!CleanSnapshot \/ UNCHANGED Conns!vars
  BY <1>0, <1>3, MapsKept DEF Conns!HealthSnapshot, Conns!CleanSnapshot, Conns!vars,
                              Conns!userVars, Conns!mapVars, Conns!TypeOK
<1>4. ASSUME NEW p \in Protocols, Conns!GetConnectionByProtocol(p)
      PROVE  \E c \in Connections : Conns!Use(c)
  <2>1. groups[p] \in Seq(Connections)
    BY <1>0 DEF Conns!TypeOK
  <2>2. Conns!ToSet(groups[p]) \subseteq Connections
    BY <2>1, LenProperties, ElementOfSeq DEF Conns!ToSet
  <2> QED BY <1>4, <2>2 DEF Conns!GetConnectionByProtocol
<1> QED
  BY <1>1, <1>2, <1>3, <1>4, Added, Reclassified, AllClosed
  DEF Conns!Next, Conns!GetConnection

LEMMA ConnsHolds == SuiteSpec => []ConnsInv
<1>1. SuiteInit => ConnsInv
  BY ConnsInit DEF SuiteInit
<1>2. ConnsInv /\ [SuiteNext]_suiteVars => ConnsInv'
  <2>1. [SuiteNext]_suiteVars => [Conns!Next]_(Conns!vars)
    BY DEF SuiteNext, suiteVars, connectionsVars, Conns!vars
  <2> QED BY <2>1, ConnsStep
<1> QED BY <1>1, <1>2, PTL DEF SuiteSpec

(* The connection pool of core/pool/enhanced_pool.go: connections and      *)
(* protocolMap agree, TotalConnections counts the connections until Close, *)
(* and each connection that the pool does not keep it has closed, once,    *)
(* whether Remove, the health checker, the cleaner or Close took it out.   *)
THEOREM PoolAgreesHolds == SuiteSpec => []PoolAgrees
<1>1. ConnsInv => PoolAgrees
  BY DEF ConnsInv, PoolAgrees
<1> QED BY <1>1, ConnsHolds, PTL
-----------------------------------------------------------------------------
(* How many of W are in one of some states, when one of them moves.        *)
InStates(W, f, states) == {x \in W : f[x] \in states}
OneIf(x, states) == IF x \in states THEN 1 ELSE 0
OnlyAt(W, f, g, w, to) == \A x \in W : g[x] = IF x = w THEN to ELSE f[x]

LEMMA CountIsNat ==
    ASSUME NEW W, IsFiniteSet(W), NEW f, NEW states
    PROVE  IsFiniteSet(InStates(W, f, states)) /\ Cardinality(InStates(W, f, states)) \in Nat
<1>1. InStates(W, f, states) \subseteq W
  BY DEF InStates
<1>2. IsFiniteSet(InStates(W, f, states))
  BY <1>1, FS_Subset
<1> QED BY <1>2, FS_CardinalityType

LEMMA CountMoved ==
    ASSUME NEW W, IsFiniteSet(W), NEW f, NEW g, NEW w \in W, NEW to, NEW states,
           OnlyAt(W, f, g, w, to)
    PROVE  Cardinality(InStates(W, g, states))
            = Cardinality(InStates(W, f, states)) - OneIf(f[w], states) + OneIf(to, states)
<1> USE DEF OnlyAt
<1> DEFINE A == InStates(W, f, states)
           B == InStates(W, g, states)
<1>1. IsFiniteSet(A) /\ Cardinality(A) \in Nat
  BY CountIsNat
<1>2. CASE f[w] \in states /\ to \in states
  <2>1. B = A
    BY <1>2 DEF InStates
  <2> QED BY <1>1, <1>2, <2>1 DEF OneIf
<1>3. CASE f[w] \in states /\ to \notin states
  <2>1. B = A \ {w} /\ w \in A
    BY <1>3 DEF InStates
  <2>2. Cardinality(B) = Cardinality(A) - 1
    BY <1>1, <2>1, FS_RemoveElement
  <2> QED BY <1>1, <1>3, <2>2 DEF OneIf
<1>4. CASE f[w] \notin states /\ to \in states
  <2>1. B = A \cup {w} /\ w \notin A
    BY <1>4 DEF InStates
  <2>2. Cardinality(B) = Cardinality(A) + 1
    BY <1>1, <2>1, FS_AddElement
  <2> QED BY <1>1, <1>4, <2>2 DEF OneIf
<1>5. CASE f[w] \notin states /\ to \notin states
  <2>1. B = A
    BY <1>5 DEF InStates
  <2> QED BY <1>1, <1>5, <2>1 DEF OneIf
<1> QED BY <1>2, <1>3, <1>4, <1>5
-----------------------------------------------------------------------------
(* The goroutine pool.  The scaler's numbers are out of date when it adds  *)
(* workers, but only it adds any: there is room for what it is about to    *)
(* add.                                                                    *)
RoomForMore ==
    /\ scaler.at # "add" => ~scaler.counted
    /\ scaler.at = "read" => workerCount <= scaler.count
    /\ scaler.at = "add" =>
        /\ scaler.more >= 1
        /\ workerCount + scaler.more <= MaxWorkers + OneIf(scaler.counted, {TRUE})

WorkersInv ==
    /\ Goroutines!TypeOK /\ Goroutines!Accounted /\ Goroutines!WithinMaxWorkers
    /\ RoomForMore

(* The counts of Accounted, as sums that one step changes.                 *)
Busy(f) == Cardinality(InStates(Slots, f, {"received", "running"}))
Idle(f) == Cardinality(InStates(Slots, f, {"select", "received", "expiring"}))
Free(f) == Cardinality(InStates(Slots, f, {"none"}))
Sent(f) == Cardinality(InStates(Submitters, f, {"sent"}))

Sums ==
    /\ workerCount = Cardinality(Slots) - Free(worker) + OneIf(scaler.counted, {TRUE})
    /\ idleWorkers = Idle(worker)
    /\ queued + Busy(worker) + completed = submitted + Sent(submit)

LEMMA AccountedAsSums ==
    (Goroutines!Accounted <=> Sums) /\ (Goroutines!Accounted' <=> Sums')
<1>1. \A S : Goroutines!Cardinality(S) = Cardinality(S)
  BY DEF Goroutines!Cardinality, Cardinality, Goroutines!IsFiniteSet, IsFiniteSet
<1>2. \A states : Goroutines!Workers(states) = Cardinality(InStates(Slots, worker, states))
  BY <1>1 DEF Goroutines!Workers, InStates
<1>3. {s \in Submitters : submit[s] = "sent"} = InStates(Submitters, submit, {"sent"})
  BY DEF InStates
<1>4. Goroutines!Accounted <=> Sums
  BY <1>1, <1>2, <1>3 DEF Goroutines!Accounted, Sums, Busy, Idle, Free, Sent, OneIf
<1> QED BY <1>4, PTL

LEMMA SumsAreNat ==
    \A f, h : Busy(f) \in Nat /\ Idle(f) \in Nat /\ Free(f) \in Nat /\ Sent(h) \in Nat
BY CountIsNat, PoolsAssumption DEF PoolsAssumption, Busy, Idle, Free, Sent

WorkerStates == {"none", "select", "received", "running", "finished", "updated",
                 "expiring", "leaving"}
SubmitStates == {"idle", "try", "wait", "sent"}

LEMMA WorkerMoved ==
    ASSUME NEW w \in Slots, NEW from, NEW to, worker \in [Slots -> WorkerStates],
           Goroutines!Moves(w, from, to)
    PROVE  /\ Busy(worker') = Busy(worker) - OneIf(from, {"received", "running"})
                                           + OneIf(to, {"received", "running"})
           /\ Idle(worker') = Idle(worker) - OneIf(from, {"select", "received", "expiring"})
                                           + OneIf(to, {"select", "received", "expiring"})
           /\ Free(worker') = Free(worker) - OneIf(from, {"none"}) + OneIf(to, {"none"})
<1>1. worker[w] = from /\ OnlyAt(Slots, worker, worker', w, to)
  BY DEF Goroutines!Moves, OnlyAt
<1>2. IsFiniteSet(Slots)
  BY PoolsAssumption DEF PoolsAssumption
<1>3. ASSUME NEW states
      PROVE  Cardinality(InStates(Slots, worker', states))
              = Cardinality(InStates(Slots, worker, states))
                  - OneIf(from, states) + OneIf(to, states)
  BY <1>1, <1>2, CountMoved
<1> QED BY <1>3 DEF Busy, Idle, Free

LEMMA SubmitterMoved ==
    ASSUME NEW s \in Submitters, NEW to, submit \in [Submitters -> SubmitStates],
           Goroutines!SubmitTo(s, to)
    PROVE  Sent(submit') = Sent(submit) - OneIf(submit[s], {"sent"}) + OneIf(to, {"sent"})
<1>1. OnlyAt(Submitters, submit, submit', s, to)
  BY DEF Goroutines!SubmitTo, OnlyAt
<1>2. IsFiniteSet(Submitters)
  BY PoolsAssumption DEF PoolsAssumption
<1>3. ASSUME NEW states
      PROVE  Cardinality(InStates(Submitters, submit', states))
              = Cardinality(InStates(Submitters, submit, states))
                  - OneIf(submit[s], states) + OneIf(to, states)
  BY <1>1, <1>2, CountMoved
<1> QED BY <1>3 DEF Sent

LEMMA WorkersInit == Goroutines!Init => WorkersInv
<1> SUFFICES ASSUME Goroutines!Init PROVE WorkersInv
  OBVIOUS
<1>0. /\ IsFiniteSet(Slots) /\ IsFiniteSet(Submitters) /\ MinWorkers \in Nat /\ MaxWorkers \in Nat
      /\ MinWorkers <= MaxWorkers /\ TaskQueueSize \in Nat /\ MaxSubmits \in Nat
  BY PoolsAssumption DEF PoolsAssumption
<1>1. PICK first \in SUBSET Slots :
        /\ Goroutines!Cardinality(first) = MinWorkers
        /\ worker = [w \in Slots |-> IF w \in first THEN "select" ELSE "none"]
  BY DEF Goroutines!Init
<1>2. Cardinality(first) = MinWorkers
  BY <1>1 DEF Goroutines!Cardinality, Cardinality, Goroutines!IsFiniteSet, IsFiniteSet
<1>3. /\ InStates(Slots, worker, {"none"}) = Slots \ first
      /\ InStates(Slots, worker, {"select", "received", "expiring"}) = first
      /\ InStates(Slots, worker, {"received", "running"}) = {}
  BY <1>1 DEF InStates
<1>4. InStates(Submitters, submit, {"sent"}) = {}
  BY DEF Goroutines!Init, InStates
<1>5. /\ Cardinality(Slots) \in Nat
      /\ Cardinality(Slots \ first) = Cardinality(Slots) - Cardinality(first)
  <2>1. IsFiniteSet(first) /\ Slots \cap first = first
    BY <1>0, <1>1, FS_Subset
  <2> QED BY <1>0, <2>1, FS_CardinalityType, FS_Difference
<1>6. Goroutines!Accounted
  <2>1. Free(worker) = Cardinality(Slots) - MinWorkers /\ Idle(worker) = MinWorkers
    BY <1>2, <1>3, <1>5 DEF Free, Idle
  <2>2. Busy(worker) = 0 /\ Sent(submit) = 0
    BY <1>3, <1>4, FS_EmptySet DEF Busy, Sent
  <2> QED BY <1>0, <1>5, <2>1, <2>2, AccountedAsSums DEF Goroutines!Init, OneIf, Sums
<1>7. Goroutines!TypeOK
  BY <1>0, <1>1 DEF Goroutines!Init, Goroutines!TypeOK, Goroutines!ScalerStates
<1>8. Goroutines!WithinMaxWorkers /\ RoomForMore
  BY <1>0 DEF Goroutines!Init, Goroutines!WithinMaxWorkers, RoomForMore
<1> QED BY <1>6, <1>7, <1>8 DEF WorkersInv

LEMMA SubmitterStep ==
    ASSUME WorkersInv, NEW s \in Submitters,
           \/ \E kind \in {"try", "wait"} : Goroutines!CheckRunning(s, kind)
           \/ Goroutines!Send(s) \/ Goroutines!CountSubmitted(s) \/ Goroutines!RejectTask(s)
    PROVE  WorkersInv'
<1>0. Goroutines!TypeOK /\ Goroutines!WithinMaxWorkers /\ RoomForMore /\ Sums
  BY AccountedAsSums DEF WorkersInv
<1>1. /\ submit \in [Submitters -> SubmitStates] /\ worker \in [Slots -> WorkerStates]
      /\ queued \in 0..TaskQueueSize /\ submitted \in Nat /\ completed \in Nat
      /\ TaskQueueSize \in Nat /\ MaxSubmits \in Nat /\ goroutinesBegun \in 0..MaxSubmits
      /\ rejected \in Nat
  BY <1>0, PoolsAssumption DEF Goroutines!TypeOK, SubmitStates, WorkerStates, PoolsAssumption
<1>2. Busy(worker) \in Nat /\ Sent(submit) \in Nat
  BY SumsAreNat
<1>3. UNCHANGED <<worker, workerCount, idleWorkers, completed, scaler, open, closing>>
  BY DEF Goroutines!CheckRunning, Goroutines!Send, Goroutines!CountSubmitted,
         Goroutines!RejectTask, Goroutines!countVars, Goroutines!metricVars,
         Goroutines!closeVars
<1>4. Goroutines!TypeOK'
  BY <1>0, <1>1, <1>3
  DEF Goroutines!TypeOK, Goroutines!CheckRunning, Goroutines!Send, Goroutines!CountSubmitted,
      Goroutines!RejectTask, Goroutines!SubmitTo, Goroutines!metricVars, SubmitStates
<1>5. queued' + Busy(worker) + completed = submitted' + Sent(submit')
  <2>1. CASE \E kind \in {"try", "wait"} : Goroutines!CheckRunning(s, kind)
    <3>1. CASE UNCHANGED submit
      BY <1>0, <2>1, <3>1 DEF Sums, Goroutines!CheckRunning
    <3>2. PICK kind \in {"try", "wait"} : Goroutines!CheckRunning(s, kind)
      BY <2>1
    <3>3. CASE Goroutines!SubmitTo(s, kind)
      <4>1. Sent(submit') = Sent(submit)
        BY <1>1, <1>2, <3>2, <3>3, SubmitterMoved DEF Goroutines!CheckRunning, OneIf
      <4> QED BY <1>0, <3>2, <4>1 DEF Sums, Goroutines!CheckRunning
    <3> QED BY <3>1, <3>2, <3>3 DEF Goroutines!CheckRunning
  <2>2. CASE Goroutines!Send(s)
    <3>1. Sent(submit') = Sent(submit) + 1
      BY <1>1, <1>2, <2>2, SubmitterMoved DEF Goroutines!Send, OneIf
    <3> QED BY <1>0, <1>1, <1>2, <2>2, <3>1 DEF Sums, Goroutines!Send, Goroutines!metricVars
  <2>3. CASE Goroutines!CountSubmitted(s)
    <3>1. Sent(submit') = Sent(submit) - 1
      BY <1>1, <1>2, <2>3, SubmitterMoved DEF Goroutines!CountSubmitted, OneIf
    <3> QED BY <1>0, <1>1, <1>2, <2>3, <3>1 DEF Sums, Goroutines!CountSubmitted
  <2>4. CASE Goroutines!RejectTask(s)
    <3>1. Sent(submit') = Sent(submit)
      BY <1>1, <1>2, <2>4, SubmitterMoved DEF Goroutines!RejectTask, OneIf
    <3> QED BY <1>0, <2>4, <3>1 DEF Sums, Goroutines!RejectTask
  <2> QED BY <2>1, <2>2, <2>3, <2>4
<1>6. Sums'
  BY <1>0, <1>3, <1>5 DEF Sums
<1>7. Goroutines!WithinMaxWorkers' /\ RoomForMore'
  BY <1>0, <1>3 DEF Goroutines!WithinMaxWorkers, RoomForMore
<1> QED
  BY <1>4, <1>6, <1>7, AccountedAsSums DEF WorkersInv

LEMMA WorkerStepKeeps ==
    ASSUME WorkersInv, NEW w \in Slots, Goroutines!WorkerStep(w)
    PROVE  WorkersInv'
<1>0. Goroutines!TypeOK /\ Goroutines!WithinMaxWorkers /\ RoomForMore /\ Sums
  BY AccountedAsSums DEF WorkersInv
<1>1. /\ worker \in [Slots -> WorkerStates] /\ queued \in 0..TaskQueueSize
      /\ workerCount \in Int /\ idleWorkers \in Int /\ completed \in Nat
      /\ submitted \in Nat /\ TaskQueueSize \in Nat /\ MaxWorkers \in Nat
      /\ scaler \in Goroutines!ScalerStates /\ Cardinality(Slots) \in Nat
  BY <1>0, PoolsAssumption, FS_CardinalityType
  DEF Goroutines!TypeOK, WorkerStates, PoolsAssumption
<1>2. Busy(worker) \in Nat /\ Idle(worker) \in Nat /\ Free(worker) \in Nat /\ Sent(submit) \in Nat
  BY SumsAreNat
<1>3. UNCHANGED <<submitted, rejected, submit, goroutinesBegun, scaler, open, closing>>
  BY DEF Goroutines!WorkerStep, Goroutines!Receive, Goroutines!BeginTask, Goroutines!EndTask,
         Goroutines!UpdateTaskTime, Goroutines!Resume, Goroutines!Expire, Goroutines!DropIdle,
         Goroutines!Leave, Goroutines!submitVars, Goroutines!metricVars, Goroutines!closeVars
<1>4. /\ Sums' /\ workerCount' <= workerCount /\ workerCount' \in Int /\ idleWorkers' \in Int
      /\ queued' \in 0..TaskQueueSize /\ completed' \in Nat
      /\ worker' \in [Slots -> WorkerStates]
  <2>1. CASE Goroutines!Receive(w)
    <3>1. /\ Busy(worker') = Busy(worker) + 1
          /\ Idle(worker') = Idle(worker) /\ Free(worker') = Free(worker)
      BY <1>1, <1>2, <2>1, WorkerMoved DEF Goroutines!Receive, OneIf
    <3> QED BY <1>0, <1>1, <1>2, <1>3, <2>1, <3>1
            DEF Goroutines!Receive, Goroutines!Moves, Goroutines!countVars,
                Goroutines!metricVars, Sums, WorkerStates
  <2>2. CASE Goroutines!BeginTask(w)
    <3>1. /\ Busy(worker') = Busy(worker)
          /\ Idle(worker') = Idle(worker) - 1 /\ Free(worker') = Free(worker)
      BY <1>1, <1>2, <2>2, WorkerMoved DEF Goroutines!BeginTask, OneIf
    <3> QED BY <1>0, <1>1, <1>2, <1>3, <2>2, <3>1
            DEF Goroutines!BeginTask, Goroutines!Moves, Goroutines!metricVars, Sums, WorkerStates
  <2>3. CASE Goroutines!EndTask(w)
    <3>1. /\ Busy(worker') = Busy(worker) - 1
          /\ Idle(worker') = Idle(worker) /\ Free(worker') = Free(worker)
      BY <1>1, <1>2, <2>3, WorkerMoved DEF Goroutines!EndTask, OneIf
    <3> QED BY <1>0, <1>1, <1>2, <1>3, <2>3, <3>1
            DEF Goroutines!EndTask, Goroutines!Moves, Goroutines!countVars, Sums, WorkerStates
  <2>4. CASE Goroutines!UpdateTaskTime(w)
    <3>1. /\ Busy(worker') = Busy(worker)
          /\ Idle(worker') = Idle(worker) /\ Free(worker') = Free(worker)
      BY <1>1, <1>2, <2>4, WorkerMoved DEF Goroutines!UpdateTaskTime, OneIf
    <3> QED BY <1>0, <1>1, <1>2, <1>3, <2>4, <3>1
            DEF Goroutines!UpdateTaskTime, Goroutines!Moves, Goroutines!countVars,
                Goroutines!metricVars, Sums, WorkerStates
  <2>5. CASE Goroutines!Resume(w)
    <3>1. /\ Busy(worker') = Busy(worker)
          /\ Idle(worker') = Idle(worker) + 1 /\ Free(worker') = Free(worker)
      BY <1>1, <1>2, <2>5, WorkerMoved DEF Goroutines!Resume, OneIf
    <3> QED BY <1>0, <1>1, <1>2, <1>3, <2>5, <3>1
            DEF Goroutines!Resume, Goroutines!Moves, Goroutines!metricVars, Sums, WorkerStates
  <2>6. CASE Goroutines!Expire(w)
    <3>1. /\ Busy(worker') = Busy(worker)
          /\ Idle(worker') = Idle(worker) /\ Free(worker') = Free(worker)
      BY <1>1, <1>2, <2>6, WorkerMoved DEF Goroutines!Expire, OneIf
    <3> QED BY <1>0, <1>1, <1>2, <1>3, <2>6, <3>1
            DEF Goroutines!Expire, Goroutines!Moves, Goroutines!countVars,
                Goroutines!metricVars, Sums, WorkerStates
  <2>7. CASE Goroutines!DropIdle(w)
    <3>1. /\ Busy(worker') = Busy(worker)
          /\ Idle(worker') = Idle(worker) - 1 /\ Free(worker') = Free(worker)
      BY <1>1, <1>2, <2>7, WorkerMoved DEF Goroutines!DropIdle, OneIf
    <3> QED BY <1>0, <1>1, <1>2, <1>3, <2>7, <3>1
            DEF Goroutines!DropIdle, Goroutines!Moves, Goroutines!metricVars, Sums, WorkerStates
  <2>8. CASE Goroutines!Leave(w)
    <3>1. /\ Busy(worker') = Busy(worker)
          /\ Idle(worker') = Idle(worker) /\ Free(worker') = Free(worker) + 1
      BY <1>1, <1>2, <2>8, WorkerMoved DEF Goroutines!Leave, OneIf
    <3>2. OneIf(scaler.counted, {TRUE}) \in Nat
      BY DEF OneIf
    <3>3. worker' \in [Slots -> WorkerStates]
      BY <1>1, <2>8 DEF Goroutines!Leave, Goroutines!Moves, WorkerStates
    <3> QED BY <1>0, <1>1, <1>2, <1>3, <2>8, <3>1, <3>2, <3>3
            DEF Goroutines!Leave, Goroutines!metricVars, Sums
  <2> QED BY <2>1, <2>2, <2>3, <2>4, <2>5, <2>6, <2>7, <2>8 DEF Goroutines!WorkerStep
<1>5. Goroutines!TypeOK'
  BY <1>0, <1>3, <1>4 DEF Goroutines!TypeOK, WorkerStates
<1>6. Goroutines!WithinMaxWorkers'
  BY <1>0, <1>1, <1>4 DEF Goroutines!WithinMaxWorkers
<1>7. RoomForMore'
  <2>1. /\ scaler.more \in Int /\ scaler.count \in Int
        /\ OneIf(scaler.counted, {TRUE}) \in Nat
    BY <1>1 DEF Goroutines!ScalerStates, OneIf
  <2> QED BY <1>0, <1>1, <1>3, <1>4, <2>1 DEF RoomForMore
<1> QED BY <1>4, <1>5, <1>6, <1>7, AccountedAsSums DEF WorkersInv

\* What ScaleDecide finds to be missing is missing.
LEMMA FifthFits ==
    ASSUME NEW free \in Int, free > 0
    PROVE  LET fifth == free \div 5
           IN  /\ fifth \in Int /\ fifth <= free
OBVIOUS

LEMMA ScalerStepKeeps ==
    ASSUME WorkersInv, Goroutines!ScalerStep
    PROVE  WorkersInv'
<1>0. Goroutines!TypeOK /\ Goroutines!WithinMaxWorkers /\ RoomForMore /\ Sums
  BY AccountedAsSums DEF WorkersInv
<1>1. /\ worker \in [Slots -> WorkerStates] /\ queued \in 0..TaskQueueSize
      /\ workerCount \in Int /\ idleWorkers \in Int /\ MaxWorkers \in Nat
      /\ scaler \in Goroutines!ScalerStates /\ Cardinality(Slots) \in Nat
      /\ scaler.more \in 0..10 /\ scaler.count \in Int /\ scaler.counted \in BOOLEAN
      /\ TaskQueueSize \in Nat
  BY <1>0, PoolsAssumption, FS_CardinalityType
  DEF Goroutines!TypeOK, WorkerStates, PoolsAssumption, Goroutines!ScalerStates
<1>2. Idle(worker) \in Nat /\ Free(worker) \in Nat
  BY SumsAreNat
<1>3. UNCHANGED <<queued, submitted, completed, rejected, submit, goroutinesBegun, open, closing>>
  BY DEF Goroutines!ScalerStep, Goroutines!ScaleRead, Goroutines!ScaleDecide,
         Goroutines!AddCount, Goroutines!AddStart, Goroutines!ScalerExit,
         Goroutines!submitVars, Goroutines!metricVars, Goroutines!closeVars
<1>4. Goroutines!Rest \in Goroutines!ScalerStates
  BY <1>1 DEF Goroutines!Rest, Goroutines!ScalerStates
<1> DEFINE n == OneIf(scaler.counted, {TRUE})
<1>10. /\ n \in Nat /\ (scaler.counted => n = 1) /\ (~scaler.counted => n = 0)
       /\ scaler'.counted = TRUE => n' = 1
       /\ scaler'.counted = FALSE => n' = 0
       /\ scaler'.counted = scaler.counted => n' = n
  BY <1>1 DEF OneIf
<1>11. workerCount = Cardinality(Slots) - Free(worker) + n
  BY <1>0 DEF Sums
<1>12. Sums' <=> /\ workerCount' = Cardinality(Slots) - Free(worker') + n'
                 /\ idleWorkers' = Idle(worker')
                 /\ queued' + Busy(worker') + completed' = submitted' + Sent(submit')
  BY DEF Sums
<1>13. RoomForMore <=>
        /\ scaler.at # "add" => ~scaler.counted
        /\ scaler.at = "read" => workerCount <= scaler.count
        /\ scaler.at = "add" => scaler.more >= 1 /\ workerCount + scaler.more <= MaxWorkers + n
  BY DEF RoomForMore
<1>14. RoomForMore' <=>
        /\ scaler'.at # "add" => ~scaler'.counted
        /\ scaler'.at = "read" => workerCount' <= scaler'.count
        /\ scaler'.at = "add" => scaler'.more >= 1 /\ workerCount' + scaler'.more <= MaxWorkers + n'
  BY DEF RoomForMore
<1> HIDE DEF n
<1>5. CASE Goroutines!ScaleRead
  <2>1. /\ scaler' = [scaler EXCEPT !.at = "read", !.queued = queued, !.count = workerCount]
        /\ UNCHANGED <<worker, workerCount, idleWorkers>> /\ scaler.at = "select"
    BY <1>5 DEF Goroutines!ScaleRead, Goroutines!countVars
  <2>2. /\ scaler' \in Goroutines!ScalerStates /\ scaler'.counted = scaler.counted
        /\ scaler'.at = "read" /\ scaler'.count = workerCount
    BY <1>1, <2>1 DEF Goroutines!ScalerStates
  <2>3. Goroutines!TypeOK'
    BY <1>0, <1>3, <2>1, <2>2 DEF Goroutines!TypeOK
  <2>4. Sums' /\ Goroutines!WithinMaxWorkers'
    BY <1>0, <1>3, <1>10, <2>1, <2>2 DEF Sums, n, Goroutines!WithinMaxWorkers
  <2>5. RoomForMore'
    BY <1>0, <1>1, <2>1, <2>2 DEF RoomForMore
  <2> QED BY <2>3, <2>4, <2>5, AccountedAsSums DEF WorkersInv
<1>6. CASE Goroutines!ScaleDecide
  <2>1. /\ scaler' = IF Goroutines!ScaleCount = 0 THEN Goroutines!Rest
                     ELSE [Goroutines!Rest EXCEPT !.at = "add", !.more = Goroutines!ScaleCount]
        /\ UNCHANGED <<worker, workerCount, idleWorkers>> /\ scaler.at = "read"
    BY <1>6 DEF Goroutines!ScaleDecide, Goroutines!countVars
  <2>2. ~scaler.counted /\ workerCount <= scaler.count
    BY <1>0, <2>1 DEF RoomForMore
  <2>3. Goroutines!ScaleCount # 0 => /\ Goroutines!ScaleCount \in 1..10
                                     /\ Goroutines!ScaleCount <= MaxWorkers - scaler.count
    <3>1. CASE scaler.count >= MaxWorkers
      BY <3>1 DEF Goroutines!ScaleCount
    <3>2. CASE scaler.count < MaxWorkers
      <4> DEFINE free == MaxWorkers - scaler.count
      <4>1. free \in Int /\ free > 0
        BY <1>1, <3>2
      <4>2. free \div 5 \in Int /\ free \div 5 <= free
        BY <4>1, FifthFits
      <4> QED BY <4>1, <4>2 DEF Goroutines!ScaleCount
    <3> QED BY <1>1, <3>1, <3>2
  <2>4. CASE Goroutines!ScaleCount = 0
    <3>1. scaler' = Goroutines!Rest
      BY <2>1, <2>4
    <3>2. Goroutines!TypeOK'
      BY <1>0, <1>3, <1>4, <2>1, <3>1 DEF Goroutines!TypeOK
    <3>3. Sums' /\ Goroutines!WithinMaxWorkers'
      <4>1. scaler'.counted = FALSE
        BY <3>1 DEF Goroutines!Rest
      <4> QED BY <1>0, <1>3, <1>10, <1>11, <1>12, <2>1, <2>2, <4>1
              DEF Sums, Goroutines!WithinMaxWorkers
    <3>4. RoomForMore'
      BY <3>1 DEF RoomForMore, Goroutines!Rest
    <3> QED BY <3>2, <3>3, <3>4, AccountedAsSums DEF WorkersInv
  <2>5. CASE Goroutines!ScaleCount # 0
    <3>1. /\ scaler' \in Goroutines!ScalerStates /\ scaler'.at = "add" /\ scaler'.counted = FALSE
          /\ scaler'.more = Goroutines!ScaleCount
      <4>1. Goroutines!ScaleCount \in 0..10
        BY <2>3, <2>5
      <4>2. scaler' = [Goroutines!Rest EXCEPT !.at = "add", !.more = Goroutines!ScaleCount]
        BY <2>1, <2>5
      <4>3. PICK more \in 0..10 : more = Goroutines!ScaleCount
        BY <4>1
      <4>4. scaler' = [at |-> "add", queued |-> 0, count |-> 0, more |-> more, counted |-> FALSE]
        BY <4>2, <4>3 DEF Goroutines!Rest
      <4> QED BY <1>1, <4>3, <4>4 DEF Goroutines!ScalerStates
    <3>2. Goroutines!TypeOK'
      BY <1>0, <1>3, <2>1, <3>1 DEF Goroutines!TypeOK
    <3>3. Sums' /\ Goroutines!WithinMaxWorkers'
      BY <1>0, <1>3, <1>10, <1>11, <1>12, <2>1, <2>2, <3>1
      DEF Sums, Goroutines!WithinMaxWorkers
    <3>4. RoomForMore'
      BY <1>1, <1>10, <1>14, <2>1, <2>2, <2>3, <2>5, <3>1
    <3> QED BY <3>2, <3>3, <3>4, AccountedAsSums DEF WorkersInv
  <2> QED BY <2>4, <2>5
<1>7. CASE Goroutines!AddCount
  <2>1. /\ scaler' = [scaler EXCEPT !.counted = TRUE] /\ workerCount' = workerCount + 1
        /\ UNCHANGED <<worker, idleWorkers>> /\ scaler.at = "add" /\ ~scaler.counted
    BY <1>7 DEF Goroutines!AddCount
  <2>2. /\ scaler' \in Goroutines!ScalerStates /\ scaler'.counted = TRUE
        /\ scaler'.at = "add" /\ scaler'.more = scaler.more
    BY <1>1, <2>1 DEF Goroutines!ScalerStates
  <2>3. scaler.more >= 1 /\ workerCount + scaler.more <= MaxWorkers
    BY <1>0, <1>1, <1>10, <1>13, <2>1
  <2>4. Goroutines!TypeOK'
    BY <1>0, <1>1, <1>3, <2>1, <2>2 DEF Goroutines!TypeOK
  <2>5. Sums'
    <3>1. workerCount' = Cardinality(Slots) - Free(worker') + n'
      BY <1>1, <1>2, <1>10, <1>11, <2>1, <2>2
    <3> QED BY <1>0, <1>3, <1>12, <2>1, <3>1 DEF Sums
  <2>6. Goroutines!WithinMaxWorkers' /\ RoomForMore'
    BY <1>1, <1>10, <1>14, <2>1, <2>2, <2>3 DEF Goroutines!WithinMaxWorkers
  <2> QED BY <2>4, <2>5, <2>6, AccountedAsSums DEF WorkersInv
<1>8. CASE Goroutines!AddStart
  <2>1. /\ idleWorkers' = idleWorkers + 1 /\ workerCount' = workerCount
        /\ scaler.at = "add" /\ scaler.counted
    BY <1>8 DEF Goroutines!AddStart
  <2>2. PICK w \in Slots : Goroutines!Moves(w, "none", "select")
    BY <1>8 DEF Goroutines!AddStart
  <2>3. scaler.more >= 1 /\ workerCount + scaler.more <= MaxWorkers + 1
    BY <1>0, <1>1, <1>10, <1>13, <2>1
  <2>4. /\ scaler' \in Goroutines!ScalerStates /\ scaler'.counted = FALSE
        /\ \/ scaler'.at = "select"
           \/ scaler'.at = "add" /\ scaler.more > 1 /\ scaler'.more = scaler.more - 1
    <3>1. CASE scaler.more = 1
      <4>1. scaler' = Goroutines!Rest
        BY <1>8, <3>1 DEF Goroutines!AddStart
      <4> QED BY <1>4, <4>1 DEF Goroutines!Rest
    <3>2. CASE scaler.more # 1
      <4>1. scaler' = [scaler EXCEPT !.more = @ - 1, !.counted = FALSE]
        BY <1>8, <3>2 DEF Goroutines!AddStart
      <4>2. scaler.more - 1 \in 0..10 /\ scaler.more > 1
        BY <1>1, <2>3, <3>2
      <4> QED BY <1>1, <2>1, <4>1, <4>2 DEF Goroutines!ScalerStates
    <3> QED BY <3>1, <3>2
  <2>5. /\ Free(worker') = Free(worker) - 1 /\ Idle(worker') = Idle(worker) + 1
        /\ Busy(worker') = Busy(worker)
    BY <1>1, <1>2, <2>2, SumsAreNat, WorkerMoved DEF OneIf
  <2>6. worker' \in [Slots -> WorkerStates]
    BY <1>1, <2>2 DEF Goroutines!Moves, WorkerStates
  <2>7. Goroutines!TypeOK'
    BY <1>0, <1>1, <1>3, <2>1, <2>4, <2>6 DEF Goroutines!TypeOK, WorkerStates
  <2>8. Sums'
    BY <1>0, <1>1, <1>2, <1>3, <1>10, <1>11, <1>12, <2>1, <2>4, <2>5 DEF Sums
  <2>9. Goroutines!WithinMaxWorkers' /\ RoomForMore'
    BY <1>0, <1>1, <1>10, <1>14, <2>1, <2>3, <2>4 DEF Goroutines!WithinMaxWorkers
  <2> QED BY <2>7, <2>8, <2>9, AccountedAsSums DEF WorkersInv
<1>9. CASE Goroutines!ScalerExit
  <2>1. /\ scaler' = [scaler EXCEPT !.at = "exited"]
        /\ UNCHANGED <<worker, workerCount, idleWorkers>>
    BY <1>9 DEF Goroutines!ScalerExit, Goroutines!countVars
  <2>2. /\ scaler' \in Goroutines!ScalerStates /\ scaler'.counted = scaler.counted
        /\ scaler'.at = "exited" /\ scaler.at = "select"
    BY <1>1, <1>9, <2>1 DEF Goroutines!ScalerStates, Goroutines!ScalerExit
  <2>3. Goroutines!TypeOK'
    BY <1>0, <1>3, <2>1, <2>2 DEF Goroutines!TypeOK
  <2>4. Sums' /\ Goroutines!WithinMaxWorkers' /\ RoomForMore'
    BY <1>0, <1>3, <2>1, <2>2 DEF Sums, Goroutines!WithinMaxWorkers, RoomForMore
  <2> QED BY <2>3, <2>4, AccountedAsSums DEF WorkersInv
<1> QED BY <1>5, <1>6, <1>7, <1>8, <1>9 DEF Goroutines!ScalerStep

LEMMA WorkersStep == WorkersInv /\ [Goroutines!Next]_(Goroutines!vars) => WorkersInv'
<1> SUFFICES ASSUME WorkersInv, [Goroutines!Next]_(Goroutines!vars) PROVE WorkersInv'
  OBVIOUS
<1>1. CASE \/ Goroutines!ShutdownBegin \/ Goroutines!ShutdownReturn
           \/ UNCHANGED Goroutines!vars
  <2>1. UNCHANGED <<queued, worker, workerCount, idleWorkers, submitted, completed, rejected,
                    submit, goroutinesBegun, scaler>>
    BY <1>1 DEF Goroutines!ShutdownBegin, Goroutines!ShutdownReturn, Goroutines!vars,
                Goroutines!countVars, Goroutines!metricVars, Goroutines!submitVars
  <2>2. Goroutines!TypeOK /\ Goroutines!WithinMaxWorkers /\ RoomForMore /\ Sums
    BY AccountedAsSums DEF WorkersInv
  <2>3. Goroutines!TypeOK'
    BY <1>1, <2>1, <2>2 DEF Goroutines!TypeOK, Goroutines!ShutdownBegin,
         Goroutines!ShutdownReturn, Goroutines!vars, Goroutines!closeVars
  <2>4. Goroutines!WithinMaxWorkers' /\ RoomForMore' /\ Sums'
    BY <2>1, <2>2 DEF Goroutines!WithinMaxWorkers, RoomForMore, Sums
  <2> QED BY <2>3, <2>4, AccountedAsSums DEF WorkersInv
<1> QED
  BY <1>1, SubmitterStep, WorkerStepKeeps, ScalerStepKeeps DEF Goroutines!Next

LEMMA WorkersHold == SuiteSpec => []WorkersInv
<1>1. SuiteInit => WorkersInv
  BY WorkersInit DEF SuiteInit
<1>2. WorkersInv /\ [SuiteNext]_suiteVars => WorkersInv'
  <2>1. [SuiteNext]_suiteVars => [Goroutines!Next]_(Goroutines!vars)
    BY DEF SuiteNext, suiteVars, goroutinesVars, Goroutines!vars, Goroutines!countVars,
           Goroutines!metricVars, Goroutines!submitVars, Goroutines!closeVars
  <2> QED BY <2>1, WorkersStep
<1> QED BY <1>1, <1>2, PTL DEF SuiteSpec

(* The elastic goroutine pool of core/pool/enhanced_pool.go: its atomic    *)
(* counters tell how many workers, idle workers and tasks there are, up to *)
(* the instructions under way, and autoScaler, which decides by a count it *)
(* read earlier, never takes the pool over MaxWorkers.                     *)
THEOREM CountsAndLimitHolds == SuiteSpec => []CountsAndLimit
<1>1. WorkersInv => CountsAndLimit
  BY DEF WorkersInv, CountsAndLimit, Goroutines!CountsAndLimit
<1> QED BY <1>1, WorkersHold, PTL
-----------------------------------------------------------------------------
(* Division, one step further.                                             *)
LEMMA Quotient ==
    ASSUME NEW n \in Nat, NEW m \in Nat \ {0}
    PROVE  /\ n = (m * (n \div m)) + (n % m)
           /\ n % m \in 0..(m - 1) /\ n \div m \in Nat
OBVIOUS

LEMMA QuotientUnique ==
    ASSUME NEW m \in Nat \ {0}, NEW q \in Int, NEW p \in Int,
           NEW r \in 0..(m - 1), NEW t \in 0..(m - 1), m * q + r = m * p + t
    PROVE  q = p /\ r = t
OBVIOUS

LEMMA NextQuotient ==
    ASSUME NEW n \in Nat, NEW m \in Nat \ {0}
    PROVE  /\ n % m = m - 1 => (n + 1) % m = 0 /\ (n + 1) \div m = (n \div m) + 1
           /\ n % m # m - 1 => (n + 1) % m = (n % m) + 1 /\ (n + 1) \div m = n \div m
<1> DEFINE q == n \div m
           r == n % m
           p == (n + 1) \div m
           t == (n + 1) % m
<1>1. n = m * q + r /\ r \in 0..(m - 1) /\ q \in Nat
  BY Quotient
<1>2. n + 1 = m * p + t /\ t \in 0..(m - 1) /\ p \in Nat
  <2>1. PICK k \in Nat : k = n + 1
    OBVIOUS
  <2>2. k = m * (k \div m) + (k % m) /\ k % m \in 0..(m - 1) /\ k \div m \in Nat
    BY Quotient
  <2> QED BY <2>1, <2>2
<1> HIDE DEF q, r, p, t
<1>3. CASE r = m - 1
  <2>1. m * (q + 1) + 0 = m * p + t
    BY <1>1, <1>2, <1>3
  <2>2. q + 1 = p /\ 0 = t
    BY <1>1, <1>2, <2>1, QuotientUnique
  <2> QED BY <1>3, <2>2 DEF q, r, p, t
<1>4. CASE r # m - 1
  <2>1. m * q + (r + 1) = m * p + t /\ r + 1 \in 0..(m - 1)
    BY <1>1, <1>2, <1>4
  <2>2. q = p /\ r + 1 = t
    BY <1>1, <1>2, <2>1, QuotientUnique
  <2> QED BY <1>4, <2>2 DEF q, r, p, t
<1> QED BY <1>3, <1>4

(* The processor manager.  The turns taken are those served and those that *)
(* wait for their pick: handler i has had one of every size turns, of      *)
(* those begun the first ones.                                             *)
Share(i, turns) == (turns \div size) + (IF i < turns % size THEN 1 ELSE 0)
PickOf(s) == IF pc[s] = "pick" THEN cur[s] % size ELSE 0 - 1
Picks(i) == Cardinality(InStates(Selectors, [s \in Selectors |-> PickOf(s)], {i}))
Selecting == InStates(Selectors, pc, {"readGroup", "wantM", "takeM"})
Appended == InStates(Adders, pc, {"unlock", "done"})

EvenTurns ==
    size = InitialSize /\ size > 0 =>
        \A i \in 0..(size - 1) : served[i] + Picks(i) = Share(i, rrIndex)

Places ==
    /\ \A s \in Selectors : /\ pc[s] \in {"idle", "readGroup", "wantM", "takeM", "pick"}
                            /\ pc[s] # "idle" => size > 0
    /\ \A a \in Adders : pc[a] \in {"idle", "takeM", "wantGroup", "takeGroup", "unlock", "done"}

TurnsInv ==
    /\ TypeOK /\ Places /\ DistinctTurns /\ EvenTurns
    /\ size = InitialSize + Cardinality(Appended)
    /\ rrIndex + Cardinality(Selecting) <= begun

\* The state of one goroutine moves on.
LEMMA PcMoved ==
    ASSUME TypeOK, NEW p \in Procs, NEW from, NEW to, Goto(p, from, to)
    PROVE  /\ pc[p] = from /\ pc'[p] = to
           /\ \A x \in Procs : pc'[x] = IF x = p THEN to ELSE pc[x]
BY DEF TypeOK, Goto

LEMMA SelectorMoved ==
    ASSUME TypeOK, NEW s \in Selectors, NEW from, NEW to, Goto(s, from, to)
    PROVE  /\ Cardinality(Selecting') = Cardinality(Selecting)
                - OneIf(from, {"readGroup", "wantM", "takeM"})
                + OneIf(to, {"readGroup", "wantM", "takeM"})
           /\ Appended' = Appended
<1>1. /\ pc[s] = from /\ s \in Procs
      /\ \A x \in Procs : pc'[x] = IF x = s THEN to ELSE pc[x]
  BY PcMoved DEF Procs
<1>2. IsFiniteSet(Selectors) /\ Selectors \subseteq Procs /\ Adders \subseteq Procs \ {s}
  BY ManagerAssumption DEF ManagerAssumption, Procs
<1>3. ASSUME NEW states
      PROVE  Cardinality(InStates(Selectors, pc', states))
              = Cardinality(InStates(Selectors, pc, states)) - OneIf(from, states) + OneIf(to, states)
  <2>1. OnlyAt(Selectors, pc, pc', s, to)
    BY <1>1, <1>2 DEF OnlyAt
  <2>2. pc[s] = from /\ IsFiniteSet(Selectors)
    BY <1>1, <1>2
  <2> QED BY <2>1, <2>2, CountMoved
<1>4. Appended' = Appended
  BY <1>1, <1>2 DEF Appended, InStates
<1> QED BY <1>3, <1>4 DEF Selecting

LEMMA AdderMoved ==
    ASSUME TypeOK, NEW a \in Adders, NEW from, NEW to, Goto(a, from, to)
    PROVE  /\ Cardinality(Appended') = Cardinality(Appended)
                - OneIf(from, {"unlock", "done"}) + OneIf(to, {"unlock", "done"})
           /\ \A s \in Selectors : pc'[s] = pc[s]
<1>1. /\ pc[a] = from /\ a \in Procs
      /\ \A x \in Procs : pc'[x] = IF x = a THEN to ELSE pc[x]
  BY PcMoved DEF Procs
<1>2. IsFiniteSet(Adders) /\ Adders \subseteq Procs /\ Selectors \subseteq Procs \ {a}
  BY ManagerAssumption DEF ManagerAssumption, Procs
<1>3. ASSUME NEW states
      PROVE  Cardinality(InStates(Adders, pc', states))
              = Cardinality(InStates(Adders, pc, states)) - OneIf(from, states) + OneIf(to, states)
  <2>1. OnlyAt(Adders, pc, pc', a, to)
    BY <1>1, <1>2 DEF OnlyAt
  <2>2. pc[a] = from /\ IsFiniteSet(Adders)
    BY <1>1, <1>2
  <2> QED BY <2>1, <2>2, CountMoved
<1> QED BY <1>1, <1>2, <1>3 DEF Appended

\* What a step leaves that neither takes a turn nor uses one.
LEMMA PicksKept ==
    ASSUME \A s \in Selectors : PickOf(s)' = PickOf(s), UNCHANGED <<size, rrIndex>>
    PROVE  \A i : Picks(i)' = Picks(i) /\ Share(i, rrIndex)' = Share(i, rrIndex)
BY DEF Picks, InStates, Share

LEMMA TurnsCounts ==
    /\ MaxSize \in Nat /\ InitialSize \in Nat /\ MaxSelects \in Nat
    /\ Cardinality(Appended) \in 0..Cardinality(Adders) /\ Cardinality(Selecting) \in Nat
    /\ Cardinality(Appended') \in 0..Cardinality(Adders) /\ Cardinality(Selecting') \in Nat
    /\ MaxSize = InitialSize + Cardinality(Adders)
    /\ Cardinality(Adders) \in Nat
<1>1. /\ IsFiniteSet(Adders) /\ IsFiniteSet(Selectors)
      /\ InitialSize \in Nat /\ MaxSelects \in Nat
  BY ManagerAssumption DEF ManagerAssumption
<1>2. Cardinality(Adders) \in Nat /\ Cardinality(Selecting) \in Nat
  BY <1>1, FS_CardinalityType, CountIsNat DEF Selecting
<1>3. Appended \subseteq Adders
  BY DEF Appended, InStates
<1>4. Cardinality(Appended) \in Nat /\ Cardinality(Appended) <= Cardinality(Adders)
  BY <1>1, <1>3, FS_Subset, FS_CardinalityType
<1>5. Appended' \subseteq Adders /\ Selecting' \subseteq Selectors
  BY DEF Appended, Selecting, InStates
<1>6. /\ Cardinality(Appended') \in Nat /\ Cardinality(Appended') <= Cardinality(Adders)
      /\ Cardinality(Selecting') \in Nat
  BY <1>1, <1>5, FS_Subset, FS_CardinalityType
<1> QED BY <1>1, <1>2, <1>4, <1>6 DEF MaxSize

LEMMA TurnsTypes ==
    ASSUME TypeOK
    PROVE  /\ size \in Nat /\ rrIndex \in Nat /\ begun \in Nat /\ rrIndex <= MaxSelects
           /\ begun <= MaxSelects /\ size <= MaxSize
<1>1. size \in 0..MaxSize /\ rrIndex \in 0..MaxSelects /\ begun \in 0..MaxSelects
  BY DEF TypeOK
<1>2. MaxSize \in Nat /\ MaxSelects \in Nat
  BY TurnsCounts
<1> QED BY <1>1, <1>2

LEMMA TurnsInit == Init => TurnsInv
<1> SUFFICES ASSUME Init PROVE TurnsInv
  OBVIOUS
<1>1. /\ \A p \in Procs : pc[p] = "idle"
      /\ Selectors \subseteq Procs /\ Adders \subseteq Procs
  BY DEF Init, Procs
<1>2. Appended = {} /\ Selecting = {}
  BY <1>1 DEF Appended, Selecting, InStates
<1>3. Cardinality(Appended) = 0 /\ Cardinality(Selecting) = 0
  BY <1>2, FS_EmptySet
<1>4. TypeOK
  BY TurnsCounts DEF Init, TypeOK
<1>5. DistinctTurns
  BY <1>1 DEF DistinctTurns, Picking
<1>6. ASSUME size > 0, NEW i \in 0..(size - 1)
      PROVE  served[i] + Picks(i) = Share(i, rrIndex)
  <2>1. \A s \in Selectors : PickOf(s) = 0 - 1
    BY <1>1 DEF PickOf
  <2>2. InStates(Selectors, [s \in Selectors |-> PickOf(s)], {i}) = {}
    BY <1>6, <2>1, TurnsCounts DEF InStates, Init
  <2>3. Picks(i) = 0
    BY <2>2, FS_EmptySet DEF Picks
  <2>4. rrIndex = 0 /\ size \in Nat /\ size > 0 /\ size <= MaxSize
    BY <1>6, TurnsCounts DEF Init
  <2>5. 0 % size = 0 /\ 0 \div size = 0
    BY <2>4
  <2>6. served[i] = 0
    BY <1>6, <2>4, TurnsCounts DEF Init
  <2> QED BY <1>6, <2>3, <2>4, <2>5, <2>6 DEF Share
<1>7. size = InitialSize /\ rrIndex = 0 /\ begun = 0 /\ InitialSize \in Nat
  BY TurnsCounts DEF Init
<1>8. size = InitialSize + Cardinality(Appended) /\ rrIndex + Cardinality(Selecting) <= begun
  BY <1>3, <1>7
<1>9. Places
  BY <1>1 DEF Places
<1> HIDE DEF Picks, Share
<1> QED BY <1>4, <1>5, <1>6, <1>8, <1>9 DEF TurnsInv, EvenTurns

\* The locks are held by goroutines.
LocksOK ==
    /\ readers \in [Locks -> SUBSET Procs]
    /\ writer \in [Locks -> SUBSET Procs]
    /\ announced \in [Locks -> SUBSET Procs]

LEMMA LocksTyped ==
    ASSUME LocksOK, NEW p \in Procs, NEW l \in Locks,
           \/ RLock(p, l) \/ RUnlock(p, l) \/ Announce(p, l) \/ Lock(p, l)
           \/ LockUnlock(p, l) \/ UNCHANGED locks
    PROVE  LocksOK'
BY DEF LocksOK, RLock, RUnlock, Announce, Lock, LockUnlock, locks

\* A step that takes no turn and uses none.
LEMMA TurnsKept ==
    ASSUME TurnsInv, UNCHANGED <<rrIndex, cur, served>>, size' \in Nat,
           size' = size \/ size' # InitialSize,
           \A s \in Selectors : pc'[s] = "pick" <=> pc[s] = "pick"
    PROVE  DistinctTurns' /\ EvenTurns'
<1>1. Picking' = Picking
  BY DEF Picking
<1>2. DistinctTurns'
  BY <1>1 DEF TurnsInv, DistinctTurns
<1>3. ASSUME size' = size, size = InitialSize, size > 0, NEW i \in 0..(size - 1)
      PROVE  served'[i] + Picks(i)' = Share(i, rrIndex)'
  <2>1. \A s \in Selectors : PickOf(s)' = PickOf(s)
    BY <1>3 DEF PickOf
  <2>2. Picks(i)' = Picks(i) /\ Share(i, rrIndex)' = Share(i, rrIndex)
    BY <1>3, <2>1, PicksKept
  <2> HIDE DEF Picks, Share
  <2> QED BY <1>3, <2>2 DEF TurnsInv, EvenTurns
<1> HIDE DEF Picks, Share
<1> QED BY <1>2, <1>3 DEF EvenTurns

\* One step of an adder; the handler is appended in one of them.
LEMMA AdderStep ==
    ASSUME TurnsInv, LocksOK', NEW a \in Adders, NEW more \in {0, 1},
           NEW from \in {"idle", "takeM", "wantGroup", "takeGroup", "unlock"},
           NEW to \in {"takeM", "wantGroup", "takeGroup", "unlock", "done"},
           Goto(a, from, to), size' = size + more,
           OneIf(to, {"unlock", "done"}) = OneIf(from, {"unlock", "done"}) + more,
           UNCHANGED <<rrIndex, cur, begun, served>>
    PROVE  TurnsInv'
<1>0. /\ TypeOK /\ Places /\ a \in Procs
      /\ Selectors \subseteq Procs /\ Adders \subseteq Procs
      /\ size = InitialSize + Cardinality(Appended)
      /\ rrIndex + Cardinality(Selecting) <= begun
  BY DEF TurnsInv, Procs
<1>1. /\ Cardinality(Appended') = Cardinality(Appended)
           - OneIf(from, {"unlock", "done"}) + OneIf(to, {"unlock", "done"})
      /\ \A s \in Selectors : pc'[s] = pc[s]
  BY <1>0, AdderMoved
<1>2. /\ size' = InitialSize + Cardinality(Appended') /\ size' \in 0..MaxSize
      /\ size' = size \/ size' # InitialSize
  <2>1. /\ Cardinality(Appended) \in Nat /\ InitialSize \in Nat /\ Cardinality(Adders) \in Nat
        /\ MaxSize = InitialSize + Cardinality(Adders)
        /\ Cardinality(Appended') \in 0..Cardinality(Adders)
    BY TurnsCounts
  <2>2. Cardinality(Appended') = Cardinality(Appended) + more
    <3>1. OneIf(from, {"unlock", "done"}) \in Nat
      BY DEF OneIf
    <3> QED BY <1>1, <2>1, <3>1
  <2> QED BY <1>0, <2>1, <2>2
<1>3. /\ pc[a] = from /\ pc'[a] = to
      /\ \A x \in Procs : pc'[x] = IF x = a THEN to ELSE pc[x]
  BY <1>0, PcMoved
<1>4. TypeOK'
  BY <1>0, <1>2 DEF TypeOK, LocksOK, Goto
<1>5. size \in Nat /\ size' \in Nat /\ size' >= size
  BY <1>0, TurnsTypes
<1>6. Places'
  <2>1. \A x \in Adders : pc'[x] = IF x = a THEN to ELSE pc[x]
    BY <1>0, <1>3
  <2> QED BY <1>0, <1>1, <1>5, <2>1 DEF Places
<1>7. DistinctTurns' /\ EvenTurns'
  BY <1>1, <1>2, <1>5, TurnsKept
<1>8. Selecting' = Selecting
  BY <1>1 DEF Selecting, InStates
<1> QED BY <1>0, <1>2, <1>4, <1>6, <1>7, <1>8 DEF TurnsInv

LEMMA AdderKeeps ==
    ASSUME TurnsInv, NEW a \in Adders, AddWantM(a) \/ Add(a)
    PROVE  TurnsInv'
<1>0. /\ LocksOK /\ a \in Procs /\ "m" \in Locks /\ "group" \in Locks
  BY DEF TurnsInv, TypeOK, LocksOK, Procs, Locks
<1>1. size \in Nat
  BY TurnsTypes DEF TurnsInv
<1>2. UNCHANGED <<rrIndex, cur, begun, served>>
  BY DEF AddWantM, Add, AddLockM, WantGroup, AddAppend, AddUnlock
<1>3. LocksOK'
  <2>1. CASE AddUnlock(a)
    BY <1>0, <2>1 DEF AddUnlock, LocksOK
  <2>2. CASE ~AddUnlock(a)
    BY <1>0, <2>2, LocksTyped DEF AddWantM, Add, AddLockM, WantGroup, AddAppend
  <2> QED BY <2>1, <2>2
<1>4. /\ OneIf("idle", {"unlock", "done"}) = 0 /\ OneIf("takeM", {"unlock", "done"}) = 0
      /\ OneIf("wantGroup", {"unlock", "done"}) = 0 /\ OneIf("takeGroup", {"unlock", "done"}) = 0
      /\ OneIf("unlock", {"unlock", "done"}) = 1 /\ OneIf("done", {"unlock", "done"}) = 1
  BY DEF OneIf
<1>5. CASE AddWantM(a)
  <2>1. Goto(a, "idle", "takeM") /\ size' = size + 0
    BY <1>1, <1>5 DEF AddWantM
  <2> QED BY <1>2, <1>3, <1>4, <2>1, AdderStep
<1>6. CASE AddLockM(a)
  <2>1. Goto(a, "takeM", "wantGroup") /\ size' = size + 0
    BY <1>1, <1>6 DEF AddLockM
  <2> QED BY <1>2, <1>3, <1>4, <2>1, AdderStep
<1>7. CASE WantGroup(a)
  <2>1. Goto(a, "wantGroup", "takeGroup") /\ size' = size + 0
    BY <1>1, <1>7 DEF WantGroup
  <2> QED BY <1>2, <1>3, <1>4, <2>1, AdderStep
<1>8. CASE AddAppend(a)
  <2>1. Goto(a, "takeGroup", "unlock") /\ size' = size + 1
    BY <1>8 DEF AddAppend
  <2> QED BY <1>2, <1>3, <1>4, <2>1, AdderStep
<1>9. CASE AddUnlock(a)
  <2>1. Goto(a, "unlock", "done") /\ size' = size + 0
    BY <1>1, <1>9 DEF AddUnlock
  <2> QED BY <1>2, <1>3, <1>4, <2>1, AdderStep
<1> QED BY <1>5, <1>6, <1>7, <1>8, <1>9 DEF Add

LEMMA UpdaterKeeps ==
    ASSUME TurnsInv, UpdateReadM \/ Update
    PROVE  TurnsInv'
<1>0. /\ TypeOK /\ Places /\ LocksOK /\ Updater \in Procs /\ "m" \in Locks /\ "group" \in Locks
      /\ Selectors \subseteq Procs \ {Updater} /\ Adders \subseteq Procs \ {Updater}
  BY ManagerAssumption DEF TurnsInv, TypeOK, LocksOK, Procs, Locks, ManagerAssumption
<1>1. UNCHANGED <<size, rrIndex, cur, begun, served>>
  BY DEF UpdateReadM, Update, WantGroup, UpdateGroup, UpdateUnlock
<1>2. LocksOK'
  BY <1>0, LocksTyped DEF UpdateReadM, Update, WantGroup, UpdateGroup, UpdateUnlock
<1>3. PICK from, to :
        /\ Goto(Updater, from, to) /\ to \in {"idle", "wantGroup", "takeGroup", "unlock"}
  BY DEF UpdateReadM, Update, WantGroup, UpdateGroup, UpdateUnlock
<1>4. \A x \in Procs : pc'[x] = IF x = Updater THEN to ELSE pc[x]
  BY <1>0, <1>3, PcMoved
<1>5. (\A s \in Selectors : pc'[s] = pc[s]) /\ (\A a \in Adders : pc'[a] = pc[a])
  BY <1>0, <1>4
<1>6. Appended' = Appended /\ Selecting' = Selecting
  BY <1>5 DEF Appended, Selecting, InStates
<1>7. TypeOK'
  BY <1>0, <1>1, <1>2, <1>3 DEF TypeOK, LocksOK, Goto
<1>8. Places'
  BY <1>0, <1>1, <1>5 DEF Places
<1>9. DistinctTurns' /\ EvenTurns'
  <2>1. size \in Nat
    BY <1>0, TurnsTypes
  <2> QED BY <1>1, <1>5, <2>1, TurnsKept
<1> QED BY <1>1, <1>6, <1>7, <1>8, <1>9 DEF TurnsInv

\* What every step of a selector leaves and moves.
LEMMA SelectorFrame ==
    ASSUME TurnsInv, LocksOK', NEW s \in Selectors,
           NEW from \in {"idle", "readGroup", "wantM", "takeM", "pick"},
           NEW to \in {"idle", "readGroup", "wantM", "takeM", "pick"},
           Goto(s, from, to), UNCHANGED size, to # "idle" => size > 0
    PROVE  /\ Places' /\ size' = InitialSize + Cardinality(Appended')
           /\ pc' \in [Procs -> {"idle", "readGroup", "wantM", "takeM", "pick", "wantGroup",
                                 "takeGroup", "unlock", "done"}]
           /\ pc[s] = from /\ pc'[s] = to /\ \A r \in Selectors \ {s} : pc'[r] = pc[r]
           /\ Cardinality(Selecting') = Cardinality(Selecting)
                - OneIf(from, {"readGroup", "wantM", "takeM"})
                + OneIf(to, {"readGroup", "wantM", "takeM"})
<1>0. /\ TypeOK /\ Places /\ s \in Procs /\ size = InitialSize + Cardinality(Appended)
      /\ Selectors \subseteq Procs /\ Adders \subseteq Procs \ {s}
  BY ManagerAssumption DEF TurnsInv, Procs, ManagerAssumption
<1>1. /\ pc[s] = from /\ pc'[s] = to
      /\ \A x \in Procs : pc'[x] = IF x = s THEN to ELSE pc[x]
  BY <1>0, PcMoved
<1>2. Appended' = Appended /\ Cardinality(Selecting') = Cardinality(Selecting)
        - OneIf(from, {"readGroup", "wantM", "takeM"}) + OneIf(to, {"readGroup", "wantM", "takeM"})
  BY <1>0, SelectorMoved
<1>3. pc' \in [Procs -> {"idle", "readGroup", "wantM", "takeM", "pick", "wantGroup",
                         "takeGroup", "unlock", "done"}]
  BY <1>0 DEF TypeOK, Goto
<1>4. /\ \A r \in Selectors \ {s} : pc'[r] = pc[r]
      /\ \A a \in Adders : pc'[a] = pc[a]
  BY <1>0, <1>1
<1>5. Places'
  BY <1>0, <1>1, <1>4 DEF Places
<1> QED BY <1>0, <1>1, <1>2, <1>3, <1>4, <1>5

LEMMA SelectorKeeps ==
    ASSUME TurnsInv, NEW s \in Selectors, SelectLookup(s) \/ SelectReadGroup(s) \/ SelectWantM(s)
    PROVE  TurnsInv'
<1>0. /\ TypeOK /\ Places /\ LocksOK /\ s \in Procs /\ "m" \in Locks /\ "group" \in Locks
      /\ rrIndex + Cardinality(Selecting) <= begun
      /\ rrIndex \in Nat /\ begun \in Nat /\ size \in Nat /\ MaxSelects \in Nat
      /\ begun <= MaxSelects /\ Cardinality(Selecting) \in Nat
  BY TurnsTypes, TurnsCounts DEF TurnsInv, TypeOK, LocksOK, Procs, Locks
<1>1. UNCHANGED <<size, rrIndex, cur, served>>
  BY DEF SelectLookup, SelectReadGroup, SelectWantM
<1>2. LocksOK'
  BY <1>0, LocksTyped DEF SelectLookup, SelectReadGroup, SelectWantM
<1>3. CASE SelectLookup(s)
  <2> DEFINE to == IF size = 0 THEN "idle" ELSE "readGroup"
  <2>1. Goto(s, "idle", to) /\ begun < MaxSelects /\ begun' = begun + 1
    BY <1>3 DEF SelectLookup
  <2>2. to \in {"idle", "readGroup"} /\ (to # "idle" => size > 0)
    BY <1>0
  <2> HIDE DEF to
  <2>3. /\ Places' /\ size' = InitialSize + Cardinality(Appended')
        /\ pc' \in [Procs -> {"idle", "readGroup", "wantM", "takeM", "pick", "wantGroup",
                              "takeGroup", "unlock", "done"}]
        /\ pc[s] = "idle" /\ pc'[s] = to /\ \A r \in Selectors \ {s} : pc'[r] = pc[r]
        /\ Cardinality(Selecting') = Cardinality(Selecting)
             - OneIf("idle", {"readGroup", "wantM", "takeM"})
             + OneIf(to, {"readGroup", "wantM", "takeM"})
    BY <1>1, <1>2, <2>1, <2>2, SelectorFrame
  <2>4. Cardinality(Selecting') <= Cardinality(Selecting) + 1 /\ Cardinality(Selecting') \in Int
    BY <1>0, <2>3 DEF OneIf
  <2>5. begun' \in 0..MaxSelects /\ rrIndex' + Cardinality(Selecting') <= begun'
    BY <1>0, <1>1, <2>1, <2>4
  <2>6. TypeOK'
    BY <1>0, <1>1, <1>2, <2>3, <2>5 DEF TypeOK, LocksOK
  <2>7. DistinctTurns' /\ EvenTurns'
    BY <1>0, <1>1, <2>2, <2>3, TurnsKept
  <2> QED BY <2>3, <2>5, <2>6, <2>7 DEF TurnsInv
<1>4. ASSUME NEW from \in {"readGroup", "wantM"}, NEW to \in {"wantM", "takeM"},
             Goto(s, from, to), UNCHANGED begun
      PROVE  TurnsInv'
  <2>1. size > 0
    BY <1>0, <1>4 DEF Places, Goto
  <2>2. /\ Places' /\ size' = InitialSize + Cardinality(Appended')
        /\ pc' \in [Procs -> {"idle", "readGroup", "wantM", "takeM", "pick", "wantGroup",
                              "takeGroup", "unlock", "done"}]
        /\ pc[s] = from /\ pc'[s] = to /\ \A r \in Selectors \ {s} : pc'[r] = pc[r]
        /\ Cardinality(Selecting') = Cardinality(Selecting)
             - OneIf(from, {"readGroup", "wantM", "takeM"})
             + OneIf(to, {"readGroup", "wantM", "takeM"})
    BY <1>1, <1>2, <1>4, <2>1, SelectorFrame
  <2>3. Cardinality(Selecting') = Cardinality(Selecting)
    BY <1>0, <1>4, <2>2 DEF OneIf
  <2>4. TypeOK'
    BY <1>0, <1>1, <1>2, <1>4, <2>2 DEF TypeOK, LocksOK
  <2>5. DistinctTurns' /\ EvenTurns'
    BY <1>0, <1>1, <1>4, <2>2, TurnsKept
  <2> QED BY <1>0, <1>1, <1>4, <2>2, <2>3, <2>4, <2>5 DEF TurnsInv
<1>5. CASE SelectReadGroup(s)
  BY <1>4, <1>5 DEF SelectReadGroup
<1>6. CASE SelectWantM(s)
  BY <1>4, <1>6 DEF SelectWantM
<1> QED BY <1>3, <1>5, <1>6

\* One more pick is outstanding, of the handler whose turn it is.
LEMMA PicksMoved ==
    ASSUME NEW s \in Selectors, \A r \in Selectors \ {s} : PickOf(r)' = PickOf(r), NEW i
    PROVE  Picks(i)' = Picks(i) - OneIf(PickOf(s), {i}) + OneIf(PickOf(s)', {i})
<1> DEFINE f == [r \in Selectors |-> PickOf(r)]
           g == [r \in Selectors |-> PickOf(r)']
           to == PickOf(s)'
<1>1. OnlyAt(Selectors, f, g, s, to)
  BY DEF OnlyAt
<1>2. IsFiniteSet(Selectors) /\ f[s] = PickOf(s)
  BY ManagerAssumption DEF ManagerAssumption
<1>3. Picks(i) = Cardinality(InStates(Selectors, f, {i}))
  BY DEF Picks
<1>4. Picks(i)' = Cardinality(InStates(Selectors, g, {i}))
  BY DEF Picks
<1> HIDE DEF f, g, to
<1>5. ASSUME NEW states
      PROVE  Cardinality(InStates(Selectors, g, states))
              = Cardinality(InStates(Selectors, f, states)) - OneIf(f[s], states) + OneIf(to, states)
  BY <1>1, <1>2, CountMoved
<1> QED BY <1>2, <1>3, <1>4, <1>5 DEF to

LEMMA PicksNat == \A i : Picks(i) \in Nat
BY CountIsNat, ManagerAssumption DEF Picks, ManagerAssumption

LEMMA ShareGrows ==
    ASSUME NEW m \in Nat \ {0}, size = m, NEW n \in Nat, NEW i \in 0..(m - 1)
    PROVE  Share(i, n + 1) = Share(i, n) + OneIf(n % size, {i}) /\ Share(i, n) \in Nat
<1> DEFINE q == n \div m
           r == n % m
<1>1. r \in 0..(m - 1) /\ q \in Nat
  BY Quotient
<1>2. /\ r = m - 1 => (n + 1) % m = 0 /\ (n + 1) \div m = q + 1
      /\ r # m - 1 => (n + 1) % m = r + 1 /\ (n + 1) \div m = q
  BY NextQuotient
<1> DEFINE q1 == (n + 1) \div m
           r1 == (n + 1) % m
<1>3. /\ Share(i, n) = q + (IF i < r THEN 1 ELSE 0)
      /\ Share(i, n + 1) = q1 + (IF i < r1 THEN 1 ELSE 0)
      /\ OneIf(n % size, {i}) = IF r = i THEN 1 ELSE 0
  BY DEF Share, OneIf
<1>4. /\ r = m - 1 => r1 = 0 /\ q1 = q + 1
      /\ r # m - 1 => r1 = r + 1 /\ q1 = q
  BY <1>2
<1> HIDE DEF q, r, q1, r1
<1> QED BY <1>1, <1>3, <1>4

LEMMA TurnKeeps ==
    ASSUME TurnsInv, NEW s \in Selectors, SelectTurn(s)
    PROVE  TurnsInv'
<1>0. /\ TypeOK /\ Places /\ DistinctTurns /\ EvenTurns
      /\ LocksOK /\ s \in Procs /\ "m" \in Locks
      /\ rrIndex + Cardinality(Selecting) <= begun
      /\ rrIndex \in Nat /\ begun \in Nat /\ size \in Nat /\ MaxSelects \in Nat
      /\ begun <= MaxSelects /\ Cardinality(Selecting) \in Nat /\ Cardinality(Selecting') \in Nat
      /\ cur \in [Selectors -> 0..MaxSelects] /\ served \in [0..(MaxSize - 1) -> Nat]
      /\ size <= MaxSize /\ MaxSize \in Nat
  BY TurnsTypes, TurnsCounts DEF TurnsInv, TypeOK, LocksOK, Procs, Locks
<1>1. /\ Goto(s, "takeM", "pick") /\ LockUnlock(s, "m")
      /\ cur' = [cur EXCEPT ![s] = rrIndex] /\ rrIndex' = rrIndex + 1
      /\ UNCHANGED <<size, begun, served>>
  BY DEF SelectTurn
<1>2. LocksOK' /\ size > 0
  BY <1>0, <1>1, LocksTyped DEF Places, Goto
<1>3. /\ Places' /\ size' = InitialSize + Cardinality(Appended')
      /\ pc' \in [Procs -> {"idle", "readGroup", "wantM", "takeM", "pick", "wantGroup",
                            "takeGroup", "unlock", "done"}]
      /\ pc[s] = "takeM" /\ pc'[s] = "pick" /\ \A r \in Selectors \ {s} : pc'[r] = pc[r]
      /\ Cardinality(Selecting') = Cardinality(Selecting)
           - OneIf("takeM", {"readGroup", "wantM", "takeM"})
           + OneIf("pick", {"readGroup", "wantM", "takeM"})
  BY <1>1, <1>2, SelectorFrame
<1>4. Cardinality(Selecting') = Cardinality(Selecting) - 1
  BY <1>0, <1>3 DEF OneIf
<1>5. rrIndex' + Cardinality(Selecting') <= begun' /\ rrIndex \in 0..MaxSelects /\ rrIndex' \in 0..MaxSelects
  BY <1>0, <1>1, <1>4
<1>6. cur' \in [Selectors -> 0..MaxSelects]
  BY <1>0, <1>1, <1>5
<1>7. TypeOK'
  BY <1>0, <1>1, <1>2, <1>3, <1>5, <1>6 DEF TypeOK, LocksOK
<1>8. DistinctTurns'
  <2>1. Picking' = Picking \cup {s} /\ s \notin Picking
    BY <1>3 DEF Picking
  <2>2. cur'[s] = rrIndex /\ \A t \in Picking : cur'[t] = cur[t] /\ cur[t] \in Nat
    BY <1>0, <1>1, <2>1 DEF Picking
  <2> QED BY <1>0, <1>1, <2>1, <2>2 DEF DistinctTurns
<1>9. ASSUME size = InitialSize, NEW i \in 0..(size - 1)
      PROVE  served'[i] + Picks(i)' = Share(i, rrIndex)'
  <2>1. PickOf(s) = 0 - 1 /\ PickOf(s)' = rrIndex % size
    BY <1>0, <1>1, <1>3 DEF PickOf
  <2>2. \A r \in Selectors \ {s} : PickOf(r)' = PickOf(r)
    BY <1>0, <1>1, <1>3 DEF PickOf
  <2>3. Picks(i)' = Picks(i) - OneIf(PickOf(s), {i}) + OneIf(PickOf(s)', {i})
    BY <2>2, PicksMoved
  <2>4. OneIf(0 - 1, {i}) = 0 /\ OneIf(rrIndex % size, {i}) \in Nat
    BY <1>0 DEF OneIf
  <2>5. Share(i, rrIndex)' = Share(i, rrIndex + 1)
    BY <1>1 DEF Share
  <2>6. Share(i, rrIndex + 1) = Share(i, rrIndex) + OneIf(rrIndex % size, {i}) /\ Share(i, rrIndex) \in Nat
    <3>1. PICK m \in Nat \ {0} : size = m
      BY <1>0, <1>2
    <3>2. i \in 0..(m - 1)
      BY <1>9, <3>1
    <3> QED BY <1>0, <3>1, <3>2, ShareGrows
  <2>7. served[i] + Picks(i) = Share(i, rrIndex)
    BY <1>0, <1>2, <1>9 DEF EvenTurns
  <2>8. served[i] \in Nat /\ Picks(i) \in Nat
    BY <1>0, PicksNat
  <2> HIDE DEF Picks, Share, PickOf
  <2>9. Picks(i)' = Picks(i) + OneIf(rrIndex % size, {i})
    BY <2>1, <2>3, <2>4, <2>8
  <2> QED BY <1>1, <2>4, <2>5, <2>6, <2>7, <2>8, <2>9
<1>10. EvenTurns'
  BY <1>1, <1>9 DEF EvenTurns
<1> QED BY <1>3, <1>5, <1>7, <1>8, <1>10 DEF TurnsInv

LEMMA PickKeeps ==
    ASSUME TurnsInv, NEW s \in Selectors, SelectPick(s)
    PROVE  TurnsInv'
<1>0. /\ TypeOK /\ Places /\ DistinctTurns /\ EvenTurns
      /\ LocksOK /\ s \in Procs /\ "group" \in Locks
      /\ rrIndex + Cardinality(Selecting) <= begun
      /\ size \in Nat /\ Cardinality(Selecting) \in Nat
      /\ cur \in [Selectors -> 0..MaxSelects] /\ served \in [0..(MaxSize - 1) -> Nat]
      /\ size <= MaxSize /\ MaxSize \in Nat /\ MaxSelects \in Nat
  BY TurnsTypes, TurnsCounts DEF TurnsInv, TypeOK, LocksOK, Procs, Locks
<1>1. /\ Goto(s, "pick", "idle") /\ RUnlock(s, "group")
      /\ served' = [served EXCEPT ![Index(s)] = @ + 1]
      /\ UNCHANGED <<size, rrIndex, cur, begun>>
  BY DEF SelectPick
<1>2. LocksOK' /\ size > 0
  BY <1>0, <1>1, LocksTyped DEF Places, Goto
<1>3. /\ Places' /\ size' = InitialSize + Cardinality(Appended')
      /\ pc' \in [Procs -> {"idle", "readGroup", "wantM", "takeM", "pick", "wantGroup",
                            "takeGroup", "unlock", "done"}]
      /\ pc[s] = "pick" /\ pc'[s] = "idle" /\ \A r \in Selectors \ {s} : pc'[r] = pc[r]
      /\ Cardinality(Selecting') = Cardinality(Selecting)
           - OneIf("pick", {"readGroup", "wantM", "takeM"})
           + OneIf("idle", {"readGroup", "wantM", "takeM"})
  BY <1>1, <1>2, SelectorFrame
<1>4. Cardinality(Selecting') = Cardinality(Selecting)
  BY <1>0, <1>3 DEF OneIf
<1>5. Index(s) \in 0..(size - 1)
  <2>1. cur[s] \in Nat /\ size \in Nat \ {0}
    BY <1>0, <1>2
  <2> QED BY <2>1, Quotient DEF Index
<1>6. served' \in [0..(MaxSize - 1) -> Nat]
  <2>1. Index(s) \in 0..(MaxSize - 1)
    BY <1>0, <1>5
  <2> HIDE DEF Index
  <2> QED BY <1>0, <1>1, <2>1
<1>7. TypeOK'
  BY <1>0, <1>1, <1>2, <1>3, <1>6 DEF TypeOK, LocksOK
<1>8. DistinctTurns'
  <2>1. Picking' \subseteq Picking
    BY <1>3 DEF Picking
  <2> QED BY <1>0, <1>1, <2>1 DEF DistinctTurns
<1>9. ASSUME size = InitialSize, NEW i \in 0..(size - 1)
      PROVE  served'[i] + Picks(i)' = Share(i, rrIndex)'
  <2>1. PickOf(s) = Index(s) /\ PickOf(s)' = 0 - 1
    <3>1. pc'[s] # "pick"
      BY <1>3
    <3> QED BY <1>3, <3>1 DEF PickOf, Index
  <2>2. \A r \in Selectors \ {s} : PickOf(r)' = PickOf(r)
    BY <1>1, <1>3 DEF PickOf
  <2>3. Picks(i)' = Picks(i) - OneIf(PickOf(s), {i}) + OneIf(PickOf(s)', {i})
    BY <2>2, PicksMoved
  <2>4. OneIf(0 - 1, {i}) = 0
    BY <1>0 DEF OneIf
  <2>5. Share(i, rrIndex)' = Share(i, rrIndex)
    BY <1>1 DEF Share
  <2>6. served[i] + Picks(i) = Share(i, rrIndex)
    BY <1>0, <1>2, <1>9 DEF EvenTurns
  <2>7. served[i] \in Nat /\ Picks(i) \in Nat
    BY <1>0, PicksNat
  <2>8. PICK k \in 0..(size - 1) : k = Index(s)
    BY <1>5
  <2>9. served' = [served EXCEPT ![k] = @ + 1] /\ i \in 0..(MaxSize - 1)
    BY <1>0, <1>1, <2>8
  <2> HIDE DEF Picks, Share, PickOf, Index
  <2>10. CASE k = i
    <3>1. OneIf(PickOf(s), {i}) = 1
      BY <2>1, <2>8, <2>10 DEF OneIf
    <3>2. Picks(i)' = Picks(i) - 1
      BY <2>1, <2>3, <2>4, <2>7, <3>1
    <3>3. served'[i] = served[i] + 1
      BY <1>0, <2>9, <2>10
    <3> QED BY <2>5, <2>6, <2>7, <3>2, <3>3
  <2>11. CASE k # i
    <3>1. OneIf(PickOf(s), {i}) = 0
      BY <2>1, <2>8, <2>11 DEF OneIf
    <3>2. Picks(i)' = Picks(i)
      BY <2>1, <2>3, <2>4, <2>7, <3>1
    <3>3. served'[i] = served[i]
      BY <1>0, <2>9, <2>11
    <3> QED BY <2>5, <2>6, <3>2, <3>3
  <2> QED BY <2>10, <2>11
<1>10. EvenTurns'
  BY <1>1, <1>9 DEF EvenTurns
<1> QED BY <1>0, <1>1, <1>3, <1>4, <1>7, <1>8, <1>10 DEF TurnsInv

LEMMA TurnsStep == TurnsInv /\ [Next]_vars => TurnsInv'
<1> SUFFICES ASSUME TurnsInv, [Next]_vars PROVE TurnsInv'
  OBVIOUS
<1>1. CASE UNCHANGED vars
  <2>1. TypeOK' /\ Places' /\ DistinctTurns' /\ Appended' = Appended /\ Selecting' = Selecting
    BY <1>1 DEF TurnsInv, vars, TypeOK, Places, DistinctTurns, Picking, Appended, Selecting, InStates
  <2>2. EvenTurns'
    BY <1>1, TurnsTypes, TurnsKept DEF TurnsInv, vars
  <2> QED BY <1>1, <2>1, <2>2 DEF TurnsInv, vars
<1> QED
  BY <1>1, SelectorKeeps, TurnKeeps, PickKeeps, AdderKeeps, UpdaterKeeps DEF Next, Select

\* When nobody is selecting, the shares served are the shares of the turns.
LEMMA TurnsAreFair == TurnsInv => FairTurns
<1> SUFFICES ASSUME TurnsInv PROVE FairTurns
  OBVIOUS
<1>1. ASSUME size = InitialSize, \A s \in Selectors : pc[s] = "idle",
             NEW i \in 0..(size - 1), NEW j \in 0..(size - 1)
      PROVE  served[i] <= served[j] + 1
  <2>1. size \in Nat \ {0} /\ rrIndex \in Nat
    BY <1>1, TurnsTypes DEF TurnsInv
  <2>2. ASSUME NEW k \in 0..(size - 1)
        PROVE  served[k] = Share(k, rrIndex)
    <3>1. InStates(Selectors, [s \in Selectors |-> PickOf(s)], {k}) = {}
      <4>1. \A s \in Selectors : PickOf(s) = 0 - 1
        BY <1>1 DEF PickOf
      <4> QED BY <2>1, <4>1 DEF InStates
    <3>2. Picks(k) = 0
      BY <3>1, FS_EmptySet DEF Picks
    <3>3. served[k] + Picks(k) = Share(k, rrIndex)
      BY <1>1, <2>1 DEF TurnsInv, EvenTurns
    <3>4. served[k] \in Nat
      <4>1. served \in [0..(MaxSize - 1) -> Nat] /\ size <= MaxSize /\ MaxSize \in Nat
        BY TurnsTypes, TurnsCounts DEF TurnsInv, TypeOK
      <4> QED BY <2>1, <4>1
    <3> QED BY <3>2, <3>3, <3>4
  <2>3. rrIndex % size \in 0..(size - 1) /\ rrIndex \div size \in Nat
    BY <2>1, Quotient
  <2> QED BY <2>2, <2>3 DEF Share
<1> QED BY <1>1 DEF TurnsInv, FairTurns, EvenShares

(* The round robin of core/handler/processor_manager.go, with any number   *)
(* of handlers and of goroutines that select, register and measure: two    *)
(* selections never use the same turn, and while no handler is registered  *)
(* the handlers' shares differ by at most one whenever nobody is selecting.*)
THEOREM TurnsFairHolds == SuiteSpec => []TurnsFair
<1>1. SuiteInit => TurnsInv
  BY TurnsInit DEF SuiteInit
<1>2. TurnsInv /\ [SuiteNext]_suiteVars => TurnsInv'
  <2>1. [SuiteNext]_suiteVars => [Next]_vars
    BY DEF SuiteNext, suiteVars
  <2> QED BY <2>1, TurnsStep
<1>3. TurnsInv => TurnsFair
  BY TurnsAreFair DEF TurnsInv, TurnsFair
<1> QED BY <1>1, <1>2, <1>3, PTL DEF SuiteSpec
-----------------------------------------------------------------------------
(* Sums of a function over a finite set, as the size of a set of pairs.    *)
Pairs(k, n) == {k} \X (1..n)
PairsOf(f, D) == UNION {Pairs(k, f[k]) : k \in D}

LEMMA PairsCount ==
    ASSUME NEW k, NEW n \in Nat
    PROVE  IsFiniteSet(Pairs(k, n)) /\ Cardinality(Pairs(k, n)) = n
<1>1. IsFiniteSet(1..n) /\ Cardinality(1..n) = n
  BY FS_Interval
<1>2. IsFiniteSet({k}) /\ Cardinality({k}) = 1
  BY FS_Singleton
<1> QED BY <1>1, <1>2, FS_Product DEF Pairs

LEMMA PairsAreFinite ==
    ASSUME NEW f, NEW D, IsFiniteSet(D), \A k \in D : f[k] \in Nat
    PROVE  IsFiniteSet(PairsOf(f, D)) /\ Cardinality(PairsOf(f, D)) \in Nat
<1> DEFINE parts == {Pairs(k, f[k]) : k \in D}
<1>1. IsFiniteSet(parts)
  <2> DEFINE g == [k \in D |-> Pairs(k, f[k])]
  <2>1. g \in Surjection(D, parts)
    BY DEF Surjection
  <2> QED BY <2>1, FS_Surjection
<1>2. \A T \in parts : IsFiniteSet(T)
  BY PairsCount
<1>3. PairsOf(f, D) = UNION parts
  BY DEF PairsOf
<1> HIDE DEF parts
<1> QED BY <1>1, <1>2, <1>3, FS_UNION, FS_CardinalityType

\* One of D adds its own pairs.
LEMMA PairsGrow ==
    ASSUME NEW f, NEW D, IsFiniteSet(D), NEW k \in D, \A j \in D : f[j] \in Nat
    PROVE  Cardinality(PairsOf(f, D)) = Cardinality(PairsOf(f, D \ {k})) + f[k]
<1> DEFINE A == PairsOf(f, D \ {k})
           B == Pairs(k, f[k])
<1>1. PairsOf(f, D) = A \cup B
  BY DEF PairsOf
<1>2. A \cap B = {}
  BY DEF PairsOf, Pairs
<1>3. IsFiniteSet(D \ {k})
  BY FS_Subset
<1>4. IsFiniteSet(A) /\ Cardinality(A) \in Nat
  BY <1>3, PairsAreFinite
<1>5. IsFiniteSet(B) /\ Cardinality(B) = f[k] /\ f[k] \in Nat
  BY PairsCount
<1>6. Cardinality({}) = 0
  BY FS_EmptySet
<1> HIDE DEF A, B
<1>7. Cardinality(A \cup B) = Cardinality(A) + Cardinality(B) - Cardinality(A \cap B)
  BY <1>4, <1>5, FS_Union
<1>8. Cardinality(A \cap B) = 0
  BY <1>2, <1>6
<1>9. Cardinality(A \cup B) = Cardinality(A) + f[k]
  BY <1>4, <1>5, <1>7, <1>8
<1> QED BY <1>1, <1>9 DEF A

\* When one value changes, the sum changes as much.
LEMMA PairsMoved ==
    ASSUME NEW f, NEW g, NEW D, IsFiniteSet(D), NEW k \in D,
           \A j \in D : f[j] \in Nat /\ g[j] \in Nat,
           \A j \in D \ {k} : g[j] = f[j]
    PROVE  /\ Cardinality(PairsOf(g, D)) = Cardinality(PairsOf(f, D)) - f[k] + g[k]
           /\ Cardinality(PairsOf(g, D)) = Cardinality(PairsOf(f, D \ {k})) + g[k]
           /\ Cardinality(PairsOf(f, D)) \in Nat /\ Cardinality(PairsOf(g, D)) \in Nat
           /\ f[k] <= Cardinality(PairsOf(f, D)) /\ g[k] <= Cardinality(PairsOf(g, D))
<1>1. PairsOf(g, D \ {k}) = PairsOf(f, D \ {k})
  BY DEF PairsOf
<1>2. IsFiniteSet(D \ {k})
  BY FS_Subset
<1>3. Cardinality(PairsOf(f, D \ {k})) \in Nat
  BY <1>2, PairsAreFinite
<1>4. /\ Cardinality(PairsOf(f, D)) = Cardinality(PairsOf(f, D \ {k})) + f[k]
      /\ Cardinality(PairsOf(g, D)) = Cardinality(PairsOf(g, D \ {k})) + g[k]
  BY PairsGrow
<1>5. f[k] \in Nat /\ g[k] \in Nat
  OBVIOUS
<1> QED BY <1>1, <1>3, <1>4, <1>5
-----------------------------------------------------------------------------
(* Quotas.  What has been checked still fits, unless another was stored.   *)
LEMMA QuotasCount == \A S : Quotas!Cardinality(S) = Cardinality(S)
BY DEF Quotas!Cardinality, Cardinality, Quotas!IsFiniteSet, IsFiniteSet

QuotasInv ==
    /\ Quotas!TypeOK
    /\ ~disturbed =>
        /\ Cardinality(PairsOf(quotas, Quotas!Types)) <= Whole
        /\ \A s \in QuotaSetters : setter[s] # Quotas!Idle =>
            setter[s].quota <= Whole - Cardinality(PairsOf(quotas, Quotas!Types \ {setter[s].type}))

LEMMA PartsAsPairs == \A T : Quotas!Parts(T) = PairsOf(quotas, T)
BY DEF Quotas!Parts, PairsOf, Pairs

LEMMA QuotasInit == Quotas!Init => QuotasInv
<1> SUFFICES ASSUME Quotas!Init PROVE QuotasInv
  OBVIOUS
<1>1. Cardinality(PairsOf(quotas, Quotas!Types)) <= Whole
  BY TuningAssumption DEF Quotas!Init, PairsOf, Pairs, Quotas!Types
<1>2. Quotas!TypeOK
  BY TuningAssumption DEF Quotas!Init, Quotas!TypeOK, Quotas!Types
<1> QED BY <1>1, <1>2 DEF QuotasInv, Quotas!Init

LEMMA QuotasStep == QuotasInv /\ [Quotas!Next]_(Quotas!vars) => QuotasInv'
<1> SUFFICES ASSUME QuotasInv, [Quotas!Next]_(Quotas!vars) PROVE QuotasInv'
  OBVIOUS
<1>0. Quotas!TypeOK /\ IsFiniteSet(Quotas!Types) /\ Whole \in Nat
  BY TuningAssumption DEF QuotasInv, Quotas!Types
<1>1. CASE UNCHANGED Quotas!vars
  BY <1>0, <1>1 DEF QuotasInv, Quotas!TypeOK, Quotas!vars
<1>2. ASSUME NEW s \in QuotaSetters, NEW t \in Quotas!Types, NEW q \in 0..Whole,
             Quotas!SetQuotaCheck(s, t, q)
      PROVE  QuotasInv'
  <2>1. /\ UNCHANGED <<quotas, disturbed>>
        /\ setter' = [setter EXCEPT ![s] = [doing |-> "storing", type |-> t, quota |-> q]]
        /\ q <= Whole - Cardinality(PairsOf(quotas, Quotas!Types \ {t}))
    BY <1>2, QuotasCount, PartsAsPairs DEF Quotas!SetQuotaCheck, Quotas!Fits
  <2>2. Quotas!TypeOK'
    BY <1>0, <2>1 DEF Quotas!TypeOK
  <2> QED BY <1>0, <2>1, <2>2 DEF QuotasInv, Quotas!TypeOK
<1>3. ASSUME NEW s \in QuotaSetters, Quotas!SetQuotaStore(s) PROVE QuotasInv'
  <2> DEFINE t == setter[s].type
             q == setter[s].quota
  <2>1. /\ quotas' = [quotas EXCEPT ![t] = q] /\ setter' = [setter EXCEPT ![s] = Quotas!Idle]
        /\ ~disturbed' => ~disturbed /\ \A r \in QuotaSetters \ {s} : setter[r] = Quotas!Idle
        /\ disturbed' \in BOOLEAN /\ setter[s] # Quotas!Idle
    BY <1>0, <1>3 DEF Quotas!SetQuotaStore, Quotas!TypeOK
  <2>2. t \in Quotas!Types /\ q \in 0..Whole
    BY <1>0, <2>1 DEF Quotas!TypeOK
  <2>3. Quotas!TypeOK'
    BY <1>0, <2>1, <2>2 DEF Quotas!TypeOK
  <2>4. ~disturbed' => \A r \in QuotaSetters : setter'[r] = Quotas!Idle
    BY <1>0, <2>1 DEF Quotas!TypeOK
  <2>5. ~disturbed' => Cardinality(PairsOf(quotas', Quotas!Types)) <= Whole
    <3>1. /\ \A j \in Quotas!Types : quotas[j] \in Nat /\ quotas'[j] \in Nat
          /\ \A j \in Quotas!Types \ {t} : quotas'[j] = quotas[j]
          /\ quotas'[t] = q
      BY <1>0, <2>1, <2>2 DEF Quotas!TypeOK
    <3>2. Cardinality(PairsOf(quotas', Quotas!Types))
            = Cardinality(PairsOf(quotas, Quotas!Types \ {t})) + q
      BY <1>0, <2>2, <3>1, PairsMoved
    <3>3. ~disturbed' => q <= Whole - Cardinality(PairsOf(quotas, Quotas!Types \ {t}))
      BY <2>1 DEF QuotasInv
    <3>4. Cardinality(PairsOf(quotas, Quotas!Types \ {t})) \in Nat
      <4>1. IsFiniteSet(Quotas!Types \ {t})
        BY <1>0, FS_Subset
      <4> QED BY <3>1, <4>1, PairsAreFinite
    <3> QED BY <1>0, <2>2, <3>2, <3>3, <3>4
  <2> QED BY <2>3, <2>4, <2>5 DEF QuotasInv
<1> QED BY <1>1, <1>2, <1>3 DEF Quotas!Next

LEMMA QuotasInvFit == QuotasInv => Quotas!TypeOK /\ Quotas!QuotasFit
BY QuotasCount, PartsAsPairs DEF QuotasInv, Quotas!QuotasFit, Quotas!Total
-----------------------------------------------------------------------------
(* Requests counted are in the histogram or about to be; decisions are     *)
(* marked but for the last while it is executed.                           *)
LEMMA AdaptiveCounts == \A S : Adaptive!Cardinality(S) = Cardinality(S)
BY DEF Adaptive!Cardinality, Cardinality, Adaptive!IsFiniteSet, IsFiniteSet

Decision == [id : 0..MaxSecond, executed : BOOLEAN]
Executed == {i \in 1..Len(decisions) : decisions[i].executed}

AdaptiveInv ==
    /\ Adaptive!TypeOK
    /\ decisions \in Seq(Decision)
    /\ Cardinality(PairsOf(histogram, Buckets)) + Cardinality(Adaptive!Waiting) = requests
    /\ "monitoring" \notin loops => holder = "none"
    /\ tuning.stage = "executing" => Len(decisions) > 0 /\ decisions[Len(decisions)].id = tuning.id
    /\ \A i \in 1..Len(decisions) :
        decisions[i].executed <=>
            /\ \A j \in 1..Len(decisions) : decisions[j].id = decisions[i].id => i <= j
            /\ ~(i = Len(decisions) /\ tuning.stage = "executing")
    /\ learned >= LearningLimit \/ learned >= Cardinality(Executed)

\* The least of some positions.
LEMMA FirstOfName ==
    ASSUME NEW n \in Nat, NEW S \in SUBSET (1..n)
    PROVE  /\ S # {} => Adaptive!Min(S) \in S /\ \A j \in S : Adaptive!Min(S) <= j
           /\ \A i \in S : i = Adaptive!Min(S) <=> \A j \in S : i <= j
<1>1. ASSUME S # {} PROVE \E i \in S : \A j \in S : i <= j
  <2>1. S \subseteq Nat
    OBVIOUS
  <2>2. PICK i \in S : \A j \in S : ~(<<j, i>> \in OpToRel(<, Nat))
    BY <1>1, <2>1, NatLessThanWellFounded, WFMin
  <2>3. \A j \in S : ~(j < i)
    BY <2>1, <2>2 DEF OpToRel
  <2> QED BY <2>1, <2>3
<1>2. ASSUME S # {} PROVE Adaptive!Min(S) \in S /\ \A j \in S : Adaptive!Min(S) <= j
  BY <1>1, <1>2 DEF Adaptive!Min
<1>3. ASSUME NEW i \in S PROVE i = Adaptive!Min(S) <=> \A j \in S : i <= j
  <2>1. Adaptive!Min(S) \in S /\ \A j \in S : Adaptive!Min(S) <= j
    BY <1>2, <1>3
  <2>2. i \in Nat /\ S \subseteq Nat
    BY <1>3
  <2>3. ASSUME \A j \in S : i <= j PROVE i = Adaptive!Min(S)
    <3>1. i <= Adaptive!Min(S) /\ Adaptive!Min(S) <= i /\ Adaptive!Min(S) \in Nat
      BY <1>3, <2>1, <2>2, <2>3
    <3> QED BY <2>2, <3>1
  <2> QED BY <2>1, <2>3
<1> QED BY <1>2, <1>3

LEMMA CountedAsPairs == Adaptive!Counted = PairsOf(histogram, Buckets)
BY DEF Adaptive!Counted, PairsOf, Pairs

LEMMA ExecutedIsFinite ==
    ASSUME AdaptiveInv
    PROVE  IsFiniteSet(Executed) /\ Cardinality(Executed) \in Nat /\ Len(decisions) \in Nat
<1>1. Len(decisions) \in Nat
  BY LenProperties DEF AdaptiveInv
<1>2. IsFiniteSet(1..Len(decisions)) /\ Executed \in SUBSET (1..Len(decisions))
  BY <1>1, FS_Interval DEF Executed
<1>3. IsFiniteSet(Executed)
  BY <1>2, FS_Subset
<1> QED BY <1>1, <1>3, FS_CardinalityType

LEMMA AdaptiveInvFind == AdaptiveInv => Adaptive!TypeOK /\ Adaptive!ResultsFindDecisions
<1> SUFFICES ASSUME AdaptiveInv PROVE Adaptive!TypeOK /\ Adaptive!ResultsFindDecisions
  OBVIOUS
<1>1. Len(decisions) \in Nat /\ Cardinality(Executed) \in Nat
  BY ExecutedIsFinite
<1>2. \A id : Adaptive!Named(id) \in SUBSET (1..Len(decisions))
  BY DEF Adaptive!Named
<1>3. ASSUME NEW i \in 1..Len(decisions)
      PROVE  i = Adaptive!Min(Adaptive!Named(decisions[i].id))
                <=> \A j \in 1..Len(decisions) : decisions[j].id = decisions[i].id => i <= j
  <2>1. i \in Adaptive!Named(decisions[i].id)
    BY DEF Adaptive!Named
  <2>2. i = Adaptive!Min(Adaptive!Named(decisions[i].id))
            <=> \A j \in Adaptive!Named(decisions[i].id) : i <= j
    BY <1>1, <1>2, <2>1, FirstOfName
  <2> QED BY <2>2 DEF Adaptive!Named
<1>4. learned >= Adaptive!Min({LearningLimit, Cardinality(Executed)})
  <2> DEFINE n == Cardinality(Executed)
  <2> HIDE DEF n
  <2>1. n \in Nat /\ LearningLimit \in Nat /\ learned \in Nat
    BY <1>1, TuningAssumption DEF n, AdaptiveInv, Adaptive!TypeOK
  <2>2. learned >= LearningLimit \/ learned >= n
    BY DEF AdaptiveInv, n
  <2>3. \E x \in {LearningLimit, n} : \A y \in {LearningLimit, n} : x <= y
    BY <2>1
  <2>4. /\ Adaptive!Min({LearningLimit, n}) \in {LearningLimit, n}
        /\ \A y \in {LearningLimit, n} : Adaptive!Min({LearningLimit, n}) <= y
    BY <2>3 DEF Adaptive!Min
  <2>5. learned >= Adaptive!Min({LearningLimit, n})
    BY <2>1, <2>2, <2>4
  <2> QED BY <2>5 DEF n
<1>5. Adaptive!Cardinality({i \in 1..Len(decisions) : decisions[i].executed}) = Cardinality(Executed)
  BY AdaptiveCounts DEF Executed
<1> QED
  BY <1>3, <1>4, <1>5, AdaptiveCounts, CountedAsPairs DEF AdaptiveInv, Adaptive!ResultsFindDecisions

LEMMA AdaptiveInit == Adaptive!Init => AdaptiveInv
<1> SUFFICES ASSUME Adaptive!Init PROVE AdaptiveInv
  OBVIOUS
<1>1. Adaptive!TypeOK
  <2>1. decisions = <<>> /\ 1..Len(decisions) = {}
    BY DEF Adaptive!Init
  <2>2. 0 \in 0..MaxRequests /\ 0 \in 0..MaxSecond /\ 0 \in 0..LearningLimit
    BY TuningAssumption
  <2>3. tuning \in Adaptive!Tunings
    BY DEF Adaptive!Init, Adaptive!Tunings
  <2> QED BY <2>1, <2>2, <2>3 DEF Adaptive!Init, Adaptive!TypeOK
<1>2. decisions \in Seq(Decision) /\ Len(decisions) = 0 /\ Executed = {}
  BY DEF Adaptive!Init, Executed
<1>3. PairsOf(histogram, Buckets) = {}
  BY DEF Adaptive!Init, PairsOf, Pairs
<1>4. Adaptive!Waiting = {}
  BY DEF Adaptive!Init, Adaptive!Waiting
<1>5. Cardinality({}) = 0
  BY FS_EmptySet
<1>6. Cardinality(PairsOf(histogram, Buckets)) + Cardinality(Adaptive!Waiting) = requests
  <2>1. requests = 0
    BY DEF Adaptive!Init
  <2>2. Cardinality(PairsOf(histogram, Buckets)) = 0 /\ Cardinality(Adaptive!Waiting) = 0
    BY <1>3, <1>4, <1>5
  <2> QED BY <2>1, <2>2
<1>7. learned >= Cardinality(Executed)
  BY <1>2, <1>5 DEF Adaptive!Init
<1> QED BY <1>1, <1>2, <1>6, <1>7 DEF AdaptiveInv, Adaptive!Init

\* What the tuning loop leaves alone.
SameRequests == UNCHANGED <<requests, histogram, recorder>>
SameTuning == UNCHANGED <<second, decisions, learned, tuning>>

LEMMA RequestsStay ==
    ASSUME AdaptiveInv, SameRequests
    PROVE  (Cardinality(PairsOf(histogram, Buckets)) + Cardinality(Adaptive!Waiting) = requests)'
BY DEF AdaptiveInv, SameRequests, PairsOf, Adaptive!Waiting

RequestMoves(r) == \E b \in Buckets : Adaptive!RecordRequest(r, b)

LEMMA RequestRecorded ==
    ASSUME AdaptiveInv, NEW r \in Recorders, NEW b \in Buckets, Adaptive!RecordRequest(r, b)
    PROVE  AdaptiveInv'
<1>0. Adaptive!TypeOK /\ MaxRequests \in Nat /\ IsFiniteSet(Recorders) /\ 0 \notin Buckets
  BY TuningAssumption DEF AdaptiveInv
<1>1. /\ recorder[r] = 0 /\ requests < MaxRequests /\ requests' = requests + 1
      /\ recorder' = [recorder EXCEPT ![r] = b]
      /\ UNCHANGED <<holder, histogram, second, decisions, learned, tuning, loops, done>>
  BY DEF Adaptive!RecordRequest, Adaptive!tuningVars
<1>2. Adaptive!TypeOK'
  BY <1>0, <1>1 DEF Adaptive!TypeOK
<1>3. Adaptive!Waiting' = Adaptive!Waiting \cup {r} /\ r \notin Adaptive!Waiting
  BY <1>0, <1>1 DEF Adaptive!Waiting, Adaptive!TypeOK
<1>4. IsFiniteSet(Adaptive!Waiting)
  BY <1>0, FS_Subset DEF Adaptive!Waiting
<1>5. Cardinality(Adaptive!Waiting)' = Cardinality(Adaptive!Waiting) + 1
  BY <1>3, <1>4, FS_AddElement
<1>6. Cardinality(Adaptive!Waiting) \in Nat /\ Cardinality(PairsOf(histogram, Buckets)) \in Nat
  <2>1. \A k \in Buckets : histogram[k] \in Nat
    BY <1>0 DEF Adaptive!TypeOK
  <2> QED BY <1>4, <2>1, FS_CardinalityType, PairsAreFinite, TuningAssumption
<1>7. PairsOf(histogram, Buckets)' = PairsOf(histogram, Buckets)
  BY <1>1 DEF PairsOf
<1>8. (Cardinality(PairsOf(histogram, Buckets)) + Cardinality(Adaptive!Waiting) = requests)'
  BY <1>1, <1>5, <1>6, <1>7 DEF AdaptiveInv
<1> QED BY <1>1, <1>2, <1>8 DEF AdaptiveInv, Executed

LEMMA RequestEntered ==
    ASSUME AdaptiveInv, NEW r \in Recorders, Adaptive!updateLatencyHistogram(r)
    PROVE  AdaptiveInv'
<1>0. /\ Adaptive!TypeOK /\ MaxRequests \in Nat /\ 0 \notin Buckets
      /\ IsFiniteSet(Recorders) /\ IsFiniteSet(Buckets)
  BY TuningAssumption DEF AdaptiveInv
<1> DEFINE b == recorder[r]
<1>1. /\ b # 0 /\ histogram' = [histogram EXCEPT ![b] = @ + 1]
      /\ recorder' = [recorder EXCEPT ![r] = 0]
      /\ UNCHANGED <<holder, requests, second, decisions, learned, tuning, loops, done>>
  BY DEF Adaptive!updateLatencyHistogram, Adaptive!tuningVars
<1>2. b \in Buckets
  BY <1>0, <1>1 DEF Adaptive!TypeOK
<1>3. r \in Adaptive!Waiting /\ Adaptive!Waiting' = Adaptive!Waiting \ {r}
  BY <1>0, <1>1 DEF Adaptive!Waiting, Adaptive!TypeOK
<1>4. IsFiniteSet(Adaptive!Waiting)
  BY <1>0, FS_Subset DEF Adaptive!Waiting
<1>5. /\ Cardinality(Adaptive!Waiting)' = Cardinality(Adaptive!Waiting) - 1
      /\ Cardinality(Adaptive!Waiting) \in Nat /\ Cardinality(Adaptive!Waiting)' \in Nat
  BY <1>3, <1>4, FS_RemoveElement, FS_CardinalityType
<1>6. /\ \A j \in Buckets : histogram[j] \in Nat /\ histogram'[j] \in Nat
      /\ \A j \in Buckets \ {b} : histogram'[j] = histogram[j]
      /\ histogram'[b] = histogram[b] + 1 /\ histogram[b] \in Nat
  BY <1>0, <1>1, <1>2 DEF Adaptive!TypeOK
<1> HIDE DEF b
<1> DEFINE n == Cardinality(PairsOf(histogram, Buckets))
           m == Cardinality(PairsOf(histogram', Buckets))
<1>7. m = n - histogram[b] + histogram'[b] /\ n \in Nat /\ m \in Nat /\ histogram'[b] <= m
  <2>1. m = n - histogram[b] + histogram'[b]
    <3> DEFINE k == Cardinality(PairsOf(histogram, Buckets \ {b}))
    <3>1. k \in Nat
      <4>1. IsFiniteSet(Buckets \ {b})
        BY <1>0, FS_Subset
      <4> QED BY <1>6, <4>1, PairsAreFinite
    <3>2. m = k + histogram'[b]
      <4> DEFINE g == histogram'
      <4>1. \A j \in Buckets : g[j] \in Nat
        BY <1>6
      <4>2. PairsOf(g, Buckets \ {b}) = PairsOf(histogram, Buckets \ {b})
        BY <1>6 DEF PairsOf
      <4> HIDE DEF g
      <4>3. Cardinality(PairsOf(g, Buckets)) = Cardinality(PairsOf(g, Buckets \ {b})) + g[b]
        BY <1>0, <1>2, <4>1, PairsGrow
      <4> QED BY <4>2, <4>3 DEF g
    <3>3. n = k + histogram[b]
      BY <1>0, <1>2, <1>6, PairsGrow
    <3> HIDE DEF k, m, n
    <3> QED BY <1>6, <3>1, <3>2, <3>3
  <2>2. n \in Nat /\ m \in Nat
    BY <1>0, <1>6, PairsAreFinite
  <2>3. histogram'[b] <= m
    BY <1>0, <1>2, <1>6, PairsMoved
  <2> QED BY <2>1, <2>2, <2>3
<1>8. requests \in 0..MaxRequests /\ requests' = requests /\ n + Cardinality(Adaptive!Waiting) = requests
  BY <1>0, <1>1 DEF AdaptiveInv, Adaptive!TypeOK
<1> HIDE DEF n, m
<1>9. m + Cardinality(Adaptive!Waiting)' = requests'
  BY <1>5, <1>6, <1>7, <1>8
<1>10. histogram'[b] \in 0..MaxRequests
  BY <1>0, <1>5, <1>6, <1>7, <1>8, <1>9
<1>11. Adaptive!TypeOK'
  <2>1. histogram' \in [Buckets -> 0..MaxRequests] /\ recorder' \in [Recorders -> Buckets \cup {0}]
    BY <1>0, <1>1, <1>2, <1>6, <1>10 DEF Adaptive!TypeOK
  <2> QED BY <1>0, <1>1, <2>1 DEF Adaptive!TypeOK
<1> QED BY <1>1, <1>9, <1>11 DEF AdaptiveInv, Executed, m

LEMMA DecisionMade ==
    ASSUME AdaptiveInv, Adaptive!AnalyzeAndDecide
    PROVE  AdaptiveInv'
<1> DEFINE d == [id |-> second, executed |-> FALSE]
<1>0. Adaptive!TypeOK /\ decisions \in Seq(Decision) /\ MaxSecond \in Nat
  BY TuningAssumption DEF AdaptiveInv
<1>1. /\ tuning.stage = "deciding" /\ decisions' = Append(decisions, d)
      /\ tuning' = [stage |-> "executing", id |-> second] /\ SameRequests
      /\ UNCHANGED <<holder, second, learned, loops, done>>
  BY DEF Adaptive!AnalyzeAndDecide, SameRequests, Adaptive!requestVars
<1>2. d \in Decision /\ second \in 0..MaxSecond
  BY <1>0 DEF Adaptive!TypeOK, Decision
<1>3. /\ decisions' \in Seq(Decision) /\ Len(decisions') = Len(decisions) + 1 /\ Len(decisions) \in Nat
      /\ \A i \in 1..Len(decisions) : decisions'[i] = decisions[i]
      /\ decisions'[Len(decisions) + 1] = d
  BY <1>0, <1>1, <1>2, AppendProperties, LenProperties
<1>4. \A i \in 1..Len(decisions') : decisions'[i] \in Decision
  BY <1>3, ElementOfSeq
<1>5. Adaptive!TypeOK'
  BY <1>0, <1>1, <1>2, <1>4 DEF Adaptive!TypeOK, Adaptive!Tunings, Decision, SameRequests
<1>6. Executed' = Executed
  BY <1>3 DEF Executed
<1>7. ASSUME NEW i \in 1..Len(decisions')
      PROVE  decisions'[i].executed <=>
              /\ \A j \in 1..Len(decisions') : decisions'[j].id = decisions'[i].id => i <= j
              /\ ~(i = Len(decisions') /\ tuning'.stage = "executing")
  <2>1. CASE i = Len(decisions) + 1
    BY <1>1, <1>3, <2>1
  <2>2. CASE i \in 1..Len(decisions)
    <3>1. decisions[i].executed <=>
              \A j \in 1..Len(decisions) : decisions[j].id = decisions[i].id => i <= j
      BY <1>1, <2>2 DEF AdaptiveInv
    <3>2. (\A j \in 1..Len(decisions') : decisions'[j].id = decisions'[i].id => i <= j)
            <=> (\A j \in 1..Len(decisions) : decisions[j].id = decisions[i].id => i <= j)
      BY <1>3, <2>2
    <3> QED BY <1>3, <2>2, <3>1, <3>2
  <2> QED BY <1>3, <2>1, <2>2
<1>8. tuning'.stage = "executing" /\ tuning'.id = second
  BY <1>1
<1>9. Len(decisions') > 0 /\ decisions'[Len(decisions')].id = tuning'.id
  BY <1>3, <1>8
<1>10. "monitoring" \notin loops' => holder' = "none"
  BY <1>1 DEF AdaptiveInv
<1>11. learned' >= LearningLimit \/ learned' >= Cardinality(Executed)'
  BY <1>1, <1>6 DEF AdaptiveInv
<1> QED BY <1>1, <1>3, <1>5, <1>7, <1>9, <1>10, <1>11, RequestsStay DEF AdaptiveInv

LEMMA ResultRecorded ==
    ASSUME AdaptiveInv, Adaptive!RecordResult
    PROVE  AdaptiveInv'
<1> DEFINE n == Len(decisions)
           named == Adaptive!Named(tuning.id)
           f == Adaptive!Min(named)
<1>0. Adaptive!TypeOK /\ decisions \in Seq(Decision) /\ LearningLimit \in Nat /\ n \in Nat
  BY TuningAssumption, ExecutedIsFinite DEF AdaptiveInv
<1>1. /\ tuning.stage = "executing" /\ decisions' = [decisions EXCEPT ![f].executed = TRUE]
      /\ learned' = IF learned < LearningLimit THEN learned + 1 ELSE learned
      /\ tuning' = [stage |-> "idle"] /\ SameRequests
      /\ UNCHANGED <<holder, second, loops, done>>
  BY DEF Adaptive!RecordResult, SameRequests, Adaptive!requestVars
<1>2. n > 0 /\ decisions[n].id = tuning.id
  BY <1>1 DEF AdaptiveInv
<1>3. named \in SUBSET (1..n) /\ n \in named
  BY <1>0, <1>2 DEF Adaptive!Named
<1>4. f \in named /\ \A j \in named : f <= j
  BY <1>0, <1>3, FirstOfName
<1> HIDE DEF f
<1>5. f \in 1..n /\ decisions[f].id = tuning.id
  BY <1>4 DEF Adaptive!Named
<1>6. \A i \in 1..n : decisions[i].id = tuning.id => f <= i
  BY <1>4 DEF Adaptive!Named
<1>7. /\ \A i \in 1..n : decisions[i] \in Decision
      /\ decisions[f] \in Decision
  BY <1>0, <1>5, ElementOfSeq
<1> DEFINE e == [decisions[f] EXCEPT !.executed = TRUE]
<1>8. decisions' = [decisions EXCEPT ![f] = e] /\ e \in Decision /\ e.id = decisions[f].id /\ e.executed
  BY <1>1, <1>7 DEF Decision
<1> HIDE DEF e
<1>9. /\ decisions' \in Seq(Decision) /\ Len(decisions') = n
      /\ \A i \in 1..n : decisions'[i] = IF i = f THEN e ELSE decisions[i]
  BY <1>0, <1>5, <1>8, ExceptSeq
<1>10. \A i \in 1..n : decisions'[i] \in Decision /\ decisions'[i].id = decisions[i].id
  BY <1>7, <1>8, <1>9
<1>11. Executed' = Executed \cup {f}
  BY <1>5, <1>8, <1>9 DEF Executed
<1>12. IsFiniteSet(Executed) /\ Cardinality(Executed) \in Nat
  BY ExecutedIsFinite
<1>13. Cardinality(Executed)' <= Cardinality(Executed) + 1 /\ Cardinality(Executed)' \in Nat
  BY <1>11, <1>12, FS_AddElement
<1>14. learned \in 0..LearningLimit
  BY <1>0 DEF Adaptive!TypeOK
<1>15. learned' \in 0..LearningLimit
  BY <1>0, <1>1, <1>14
<1>16. learned' >= LearningLimit \/ learned' >= Cardinality(Executed)'
  <2>1. learned >= LearningLimit \/ learned >= Cardinality(Executed)
    BY DEF AdaptiveInv
  <2> QED BY <1>0, <1>1, <1>12, <1>13, <1>14, <2>1
<1>17. Adaptive!TypeOK'
  BY <1>0, <1>1, <1>9, <1>10, <1>15 DEF Adaptive!TypeOK, Adaptive!Tunings, Decision, SameRequests
<1>18. ASSUME NEW i \in 1..n
       PROVE  decisions'[i].executed <=>
                \A j \in 1..n : decisions'[j].id = decisions'[i].id => i <= j
  <2>1. decisions[i].executed <=>
            /\ \A j \in 1..n : decisions[j].id = decisions[i].id => i <= j
            /\ i # n
    BY <1>1 DEF AdaptiveInv
  <2>2. (\A j \in 1..n : decisions'[j].id = decisions'[i].id => i <= j)
          <=> (\A j \in 1..n : decisions[j].id = decisions[i].id => i <= j)
    BY <1>10
  <2>3. CASE i = f
    <3>1. \A j \in 1..n : decisions[j].id = decisions[i].id => i <= j
      BY <1>5, <1>6, <2>3
    <3> QED BY <1>8, <1>9, <2>2, <2>3, <3>1
  <2>4. CASE i # f
    <3>1. decisions'[i] = decisions[i]
      BY <1>9, <2>4
    <3>2. i = n => ~(\A j \in 1..n : decisions[j].id = decisions[i].id => i <= j)
      BY <1>0, <1>2, <1>4, <1>3, <1>5, <2>4
    <3> QED BY <2>1, <2>2, <3>1, <3>2
  <2> QED BY <2>3, <2>4
<1>19. tuning'.stage # "executing"
  BY <1>1
<1>20. "monitoring" \notin loops' => holder' = "none"
  BY <1>1 DEF AdaptiveInv
<1> QED BY <1>1, <1>9, <1>16, <1>17, <1>18, <1>19, <1>20, RequestsStay DEF AdaptiveInv

\* Steps that change neither requests nor decisions.
LEMMA AdaptiveElse ==
    ASSUME AdaptiveInv,
           \/ Adaptive!collectMetrics \/ Adaptive!performTuning \/ Adaptive!Tick \/ Adaptive!Stop
           \/ \E l \in Adaptive!Loops : Adaptive!LoopExits(l)
           \/ UNCHANGED Adaptive!vars
    PROVE  AdaptiveInv'
<1>0. Adaptive!TypeOK /\ MaxSecond \in Nat
  BY TuningAssumption DEF AdaptiveInv
<1>1. /\ SameRequests /\ UNCHANGED <<decisions, learned>>
      /\ tuning' = tuning \/ (tuning' = [stage |-> "deciding"] /\ tuning.stage = "idle")
  BY DEF Adaptive!collectMetrics, Adaptive!performTuning, Adaptive!Tick, Adaptive!Stop,
         Adaptive!LoopExits, Adaptive!vars, Adaptive!requestVars, Adaptive!tuningVars, SameRequests
<1>2. Adaptive!TypeOK'
  <2>1. second' = second \/ (second < MaxSecond /\ second' = second + 1)
    BY DEF Adaptive!collectMetrics, Adaptive!performTuning, Adaptive!Tick, Adaptive!Stop,
           Adaptive!LoopExits, Adaptive!vars, Adaptive!tuningVars
  <2>2. second' \in 0..MaxSecond
    BY <1>0, <2>1 DEF Adaptive!TypeOK
  <2>3. holder' \in {"none", "collector"} /\ done' \in BOOLEAN /\ loops' \subseteq Adaptive!Loops
    BY <1>0 DEF Adaptive!TypeOK, Adaptive!collectMetrics, Adaptive!performTuning, Adaptive!Tick,
                Adaptive!Stop, Adaptive!LoopExits, Adaptive!vars
  <2>4. tuning' \in Adaptive!Tunings
    BY <1>0, <1>1 DEF Adaptive!TypeOK, Adaptive!Tunings
  <2> QED BY <1>0, <1>1, <2>2, <2>3, <2>4 DEF Adaptive!TypeOK, SameRequests
<1>3. "monitoring" \notin loops' => holder' = "none"
  BY <1>0 DEF AdaptiveInv, Adaptive!collectMetrics, Adaptive!performTuning, Adaptive!Tick, Adaptive!Stop,
         Adaptive!LoopExits, Adaptive!vars, Adaptive!requestVars, Adaptive!tuningVars
<1>4. tuning'.stage = "executing" <=> tuning.stage = "executing"
  BY <1>1
<1>5. tuning'.stage = "executing" => tuning' = tuning
  BY <1>1
<1>6. Executed' = Executed
  BY <1>1 DEF Executed
<1> QED BY <1>1, <1>2, <1>3, <1>4, <1>5, <1>6, RequestsStay DEF AdaptiveInv

LEMMA AdaptiveStep == AdaptiveInv /\ [Adaptive!Next]_(Adaptive!vars) => AdaptiveInv'
BY RequestRecorded, RequestEntered, DecisionMade, ResultRecorded, AdaptiveElse DEF Adaptive!Next
-----------------------------------------------------------------------------
(* Tuning actions move from loop to channel, from channel to tuner and     *)
(* from tuner to history.                                                  *)
Act == 1..MaxActions
KindSet == {"cpu", "memory", "cache", "gc"}
Lens == [l \in Tuning!Loops |-> Len(Tuning!Held(l))]
SumHeld == Cardinality(PairsOf(Lens, Tuning!Loops))
AllHeld == UNION {Tuning!In(Tuning!Held(l)) : l \in Tuning!Loops}
Raised == {i \in 1..Len(tuningActions) : kindOf[tuningActions[i]] = "gc"}

PerfTypes ==
    /\ Tuning!TypeOK
    /\ toSend \in [Tuning!Loops -> Seq(Act)]
    /\ tuningChan \in Seq(Act) /\ tuningActions \in Seq(Act) /\ kindOf \in Seq(KindSet)

\* Loops that were not started do nothing.
LoopsStarted ==
    /\ \A l \in Tuning!Loops : l > starts => toSend[l] = <<>> /\ tuner[l] = Tuning!Ended
    /\ starts = 0 => kindOf = <<>> /\ tuningChan = <<>> /\ tuningActions = <<>> /\ procs = 0

ActionsPlaced ==
    /\ Tuning!In(tuningActions) \cup Tuning!In(tuningChan) \cup AllHeld = 1..Len(kindOf)
    /\ Len(tuningActions) + Len(tuningChan) + SumHeld = Len(kindOf)

InOrder ==
    starts = 1 => tuningActions \o Tuning!Hand(1) \o tuningChan \o toSend[1]
                    = [i \in 1..Len(kindOf) |-> i]

\* Raises under way are of actions done.
RaisesCounted ==
    /\ procs + Cardinality(Tuning!Setters) <= Cardinality(Raised)
    /\ \A t \in Tuning!Loops : tuner[t].at = "set" =>
        /\ tuner[t].read + Cardinality(Tuning!Setters) <= Cardinality(Raised)
        /\ starts = 1 => tuner[t].read = procs
    /\ starts = 1 => procs = Cardinality(Raised) - Cardinality(Tuning!Setters)

PerfInv == PerfTypes /\ LoopsStarted /\ ActionsPlaced /\ InOrder /\ RaisesCounted

LEMMA TuningCounts == \A S : Tuning!Cardinality(S) = Cardinality(S)
BY DEF Tuning!Cardinality, Cardinality, Tuning!IsFiniteSet, IsFiniteSet

LEMMA LoopsFinite == MaxStarts \in Nat /\ MaxActions \in Nat /\ IsFiniteSet(Tuning!Loops)
<1>1. MaxStarts \in Nat /\ MaxActions \in Nat
  BY TuningAssumption
<1>2. IsFiniteSet(1..MaxStarts)
  BY <1>1, FS_Interval
<1> QED BY <1>1, <1>2 DEF Tuning!Loops

LEMMA SettersFinite == IsFiniteSet(Tuning!Setters) /\ Cardinality(Tuning!Setters) \in Nat
<1>1. Tuning!Setters \in SUBSET Tuning!Loops
  BY DEF Tuning!Setters
<1> QED BY <1>1, LoopsFinite, FS_Subset, FS_CardinalityType

LEMMA RaisedFinite ==
    ASSUME tuningActions \in Seq(Act)
    PROVE  /\ IsFiniteSet(Raised) /\ Cardinality(Raised) \in Nat
           /\ Cardinality(Raised) <= Len(tuningActions)
<1>1. Len(tuningActions) \in Nat
  BY LenProperties
<1>2. IsFiniteSet(1..Len(tuningActions)) /\ Cardinality(1..Len(tuningActions)) = Len(tuningActions)
  BY <1>1, FS_Interval
<1>3. Raised \in SUBSET (1..Len(tuningActions))
  BY DEF Raised
<1> QED BY <1>2, <1>3, FS_Subset, FS_CardinalityType

\* The elements of sequences.
LEMMA InOf ==
    ASSUME NEW S
    PROVE  /\ Tuning!In(<<>>) = {}
           /\ \A e : Tuning!In(<<e>>) = {e}
           /\ \A s \in Seq(S), e \in S : Tuning!In(Append(s, e)) = Tuning!In(s) \cup {e}
           /\ \A s \in Seq(S) : s # <<>> => Tuning!In(s) = {Head(s)} \cup Tuning!In(Tail(s))
           /\ \A s \in Seq(S), t \in Seq(S) : Tuning!In(s \o t) = Tuning!In(s) \cup Tuning!In(t)
<1> USE DEF Tuning!In
<1>1. Tuning!In(<<>>) = {}
  OBVIOUS
<1>2. ASSUME NEW e PROVE Tuning!In(<<e>>) = {e}
  <2>1. Len(<<e>>) = 1 /\ <<e>>[1] = e /\ 1..1 = {1}
    OBVIOUS
  <2> QED BY <2>1
<1>3. ASSUME NEW s \in Seq(S), NEW e \in S PROVE Tuning!In(Append(s, e)) = Tuning!In(s) \cup {e}
  <2>1. Len(s) \in Nat
    BY LenProperties
  <2>2. /\ Len(Append(s, e)) = Len(s) + 1 /\ Append(s, e)[Len(s) + 1] = e
        /\ \A i \in 1..Len(s) : Append(s, e)[i] = s[i]
    BY AppendProperties
  <2>3. 1..(Len(s) + 1) = (1..Len(s)) \cup {Len(s) + 1}
    BY <2>1
  <2> QED BY <2>2, <2>3
<1>4. ASSUME NEW s \in Seq(S), s # <<>> PROVE Tuning!In(s) = {Head(s)} \cup Tuning!In(Tail(s))
  <2>1. Len(s) \in Nat \ {0} /\ Head(s) = s[1]
    BY <1>4, EmptySeq
  <2>2. Len(Tail(s)) = Len(s) - 1 /\ \A i \in 1..(Len(s) - 1) : Tail(s)[i] = s[i + 1]
    BY <1>4, HeadTailProperties
  <2>3. ASSUME NEW i \in 1..Len(s) PROVE s[i] \in {Head(s)} \cup Tuning!In(Tail(s))
    <3>1. CASE i = 1
      BY <2>1, <3>1
    <3>2. CASE i # 1
      <4>1. i - 1 \in 1..(Len(s) - 1) /\ (i - 1) + 1 = i
        BY <2>1, <3>2
      <4> QED BY <2>2, <4>1
    <3> QED BY <3>1, <3>2
  <2>4. ASSUME NEW i \in 1..(Len(s) - 1) PROVE Tail(s)[i] \in Tuning!In(s)
    <3>1. i + 1 \in 1..Len(s) /\ Tail(s)[i] = s[i + 1]
      BY <2>1, <2>2
    <3> QED BY <3>1
  <2>5. Head(s) \in Tuning!In(s)
    BY <2>1
  <2> QED BY <2>2, <2>3, <2>4, <2>5
<1>5. ASSUME NEW s \in Seq(S), NEW t \in Seq(S) PROVE Tuning!In(s \o t) = Tuning!In(s) \cup Tuning!In(t)
  <2> DEFINE c == s \o t
  <2>1. Len(s) \in Nat /\ Len(t) \in Nat
    BY LenProperties
  <2>2. Len(c) = Len(s) + Len(t) /\ \A i \in 1..(Len(s) + Len(t)) :
            c[i] = IF i <= Len(s) THEN s[i] ELSE t[i - Len(s)]
    BY ConcatProperties
  <2> HIDE DEF c
  <2>3. ASSUME NEW i \in 1..Len(s) PROVE s[i] \in Tuning!In(c)
    <3>1. i \in 1..Len(c) /\ c[i] = s[i]
      BY <2>1, <2>2
    <3> QED BY <3>1
  <2>4. ASSUME NEW i \in 1..Len(t) PROVE t[i] \in Tuning!In(c)
    <3>1. /\ Len(s) + i \in 1..Len(c) /\ ~(Len(s) + i <= Len(s)) /\ (Len(s) + i) - Len(s) = i
      BY <2>1, <2>2
    <3>2. c[Len(s) + i] = t[i]
      BY <2>2, <3>1
    <3> QED BY <3>1, <3>2
  <2>5. ASSUME NEW i \in 1..Len(c) PROVE c[i] \in Tuning!In(s) \cup Tuning!In(t)
    <3>1. CASE i <= Len(s)
      BY <2>1, <2>2, <3>1
    <3>2. CASE ~(i <= Len(s))
      <4>1. i - Len(s) \in 1..Len(t)
        BY <2>1, <2>2, <3>2
      <4> QED BY <2>2, <3>2, <4>1
    <3> QED BY <3>1, <3>2
  <2> QED BY <2>3, <2>4, <2>5 DEF c
<1> QED BY <1>1, <1>2, <1>3, <1>4, <1>5

\* What a loop holds is what its tuner has in hand and its monitor has to send.
LEMMA HeldIs ==
    ASSUME PerfTypes, NEW l \in Tuning!Loops
    PROVE  /\ Tuning!Hand(l) \in Seq(Act) /\ toSend[l] \in Seq(Act) /\ Tuning!Held(l) \in Seq(Act)
           /\ Len(Tuning!Held(l)) = Len(Tuning!Hand(l)) + Len(toSend[l])
           /\ Len(toSend[l]) \in Nat /\ Len(Tuning!Hand(l)) \in Nat
           /\ Tuning!In(Tuning!Held(l)) = Tuning!In(Tuning!Hand(l)) \cup Tuning!In(toSend[l])
           /\ tuner[l].at = "execute" => Tuning!Hand(l) = <<tuner[l].action>> /\ tuner[l].action \in Act
           /\ tuner[l].at # "execute" => Tuning!Hand(l) = <<>>
<1>1. /\ tuner[l].at = "execute" => Tuning!Hand(l) = <<tuner[l].action>> /\ tuner[l].action \in Act
      /\ tuner[l].at # "execute" => Tuning!Hand(l) = <<>>
  <2>1. tuner[l] \in {Tuning!Idle, Tuning!Ended} \cup Tuning!Doing \cup Tuning!Setting
    BY DEF PerfTypes, Tuning!TypeOK
  <2>2. tuner[l].at = "execute" => tuner[l].action \in Act
    BY <2>1 DEF Tuning!Idle, Tuning!Ended, Tuning!Doing, Tuning!Setting, Act
  <2> QED BY <2>2 DEF Tuning!Hand
<1>2. Tuning!Hand(l) \in Seq(Act)
  <2>1. \A a \in Act : <<a>> \in Seq(Act)
    OBVIOUS
  <2>2. <<>> \in Seq(Act)
    OBVIOUS
  <2> QED BY <1>1, <2>1, <2>2
<1>3. toSend[l] \in Seq(Act)
  BY DEF PerfTypes
<1>4. Len(toSend[l]) \in Nat /\ Len(Tuning!Hand(l)) \in Nat
  BY <1>2, <1>3, LenProperties
<1>5. /\ Tuning!Held(l) \in Seq(Act)
      /\ Len(Tuning!Held(l)) = Len(Tuning!Hand(l)) + Len(toSend[l])
  BY <1>2, <1>3, ConcatProperties DEF Tuning!Held
<1>6. Tuning!In(Tuning!Held(l)) = Tuning!In(Tuning!Hand(l)) \cup Tuning!In(toSend[l])
  BY <1>2, <1>3, InOf DEF Tuning!Held
<1> QED BY <1>1, <1>2, <1>3, <1>4, <1>5, <1>6

LEMMA HeldIsNext ==
    ASSUME PerfTypes', NEW l \in Tuning!Loops
    PROVE  /\ Tuning!Hand(l)' \in Seq(Act) /\ toSend'[l] \in Seq(Act) /\ Tuning!Held(l)' \in Seq(Act)
           /\ Len(Tuning!Held(l)') = Len(Tuning!Hand(l)') + Len(toSend'[l])
           /\ Len(toSend'[l]) \in Nat /\ Len(Tuning!Hand(l)') \in Nat
           /\ Tuning!In(Tuning!Held(l)') = Tuning!In(Tuning!Hand(l)') \cup Tuning!In(toSend'[l])
           /\ tuner'[l].at = "execute" => Tuning!Hand(l)' = <<tuner'[l].action>> /\ tuner'[l].action \in Act
           /\ tuner'[l].at # "execute" => Tuning!Hand(l)' = <<>>
<1>1. /\ tuner'[l].at = "execute" => Tuning!Hand(l)' = <<tuner'[l].action>> /\ tuner'[l].action \in Act
      /\ tuner'[l].at # "execute" => Tuning!Hand(l)' = <<>>
  <2>1. tuner'[l] \in {Tuning!Idle, Tuning!Ended} \cup Tuning!Doing \cup Tuning!Setting
    BY DEF PerfTypes, Tuning!TypeOK
  <2>2. tuner'[l].at = "execute" => tuner'[l].action \in Act
    BY <2>1 DEF Tuning!Idle, Tuning!Ended, Tuning!Doing, Tuning!Setting, Act
  <2> QED BY <2>2 DEF Tuning!Hand
<1>2. Tuning!Hand(l)' \in Seq(Act)
  <2>1. \A a \in Act : <<a>> \in Seq(Act)
    OBVIOUS
  <2>2. <<>> \in Seq(Act)
    OBVIOUS
  <2> QED BY <1>1, <2>1, <2>2
<1>3. toSend'[l] \in Seq(Act)
  BY DEF PerfTypes
<1>4. Len(toSend'[l]) \in Nat /\ Len(Tuning!Hand(l)') \in Nat
  BY <1>2, <1>3, LenProperties
<1>5. /\ Tuning!Held(l)' \in Seq(Act)
      /\ Len(Tuning!Held(l)') = Len(Tuning!Hand(l)') + Len(toSend'[l])
  BY <1>2, <1>3, ConcatProperties DEF Tuning!Held
<1>6. Tuning!In(Tuning!Held(l)') = Tuning!In(Tuning!Hand(l)') \cup Tuning!In(toSend'[l])
  BY <1>2, <1>3, InOf DEF Tuning!Held
<1> QED BY <1>1, <1>2, <1>3, <1>4, <1>5, <1>6

\* One loop moves.
LEMMA OneHolds ==
    ASSUME PerfTypes, PerfTypes', NEW m \in Tuning!Loops,
           \A l \in Tuning!Loops \ {m} : toSend'[l] = toSend[l] /\ tuner'[l] = tuner[l]
    PROVE  /\ SumHeld' = SumHeld - Len(Tuning!Held(m)) + Len(Tuning!Held(m)')
           /\ SumHeld \in Nat
           /\ \E rest : /\ AllHeld = rest \cup Tuning!In(Tuning!Held(m))
                        /\ AllHeld' = rest \cup Tuning!In(Tuning!Held(m)')
<1>1. /\ \A l \in Tuning!Loops : Lens[l] = Len(Tuning!Held(l)) /\ Lens[l] \in Nat
      /\ \A l \in Tuning!Loops : Lens'[l] = Len(Tuning!Held(l)') /\ Lens'[l] \in Nat
  BY HeldIs, HeldIsNext DEF Lens
<1>2. \A l \in Tuning!Loops \ {m} : Tuning!Held(l)' = Tuning!Held(l)
  BY DEF Tuning!Held, Tuning!Hand
<1>3. \A l \in Tuning!Loops \ {m} : Lens'[l] = Lens[l]
  BY <1>1, <1>2
<1> DEFINE rest == UNION {Tuning!In(Tuning!Held(l)) : l \in Tuning!Loops \ {m}}
           k == Cardinality(PairsOf(Lens, Tuning!Loops \ {m}))
<1>4. k \in Nat
  <2>1. IsFiniteSet(Tuning!Loops \ {m})
    BY LoopsFinite, FS_Subset
  <2> QED BY <1>1, <2>1, PairsAreFinite
<1>5. SumHeld = k + Lens[m]
  BY <1>1, LoopsFinite, PairsGrow DEF SumHeld
<1>6. SumHeld' = k + Lens'[m]
  <2>1. PairsOf(Lens', Tuning!Loops \ {m}) = PairsOf(Lens, Tuning!Loops \ {m})
    BY <1>3 DEF PairsOf
  <2>2. SumHeld' = Cardinality(PairsOf(Lens', Tuning!Loops))
    BY DEF SumHeld
  <2>3. Cardinality(PairsOf(Lens', Tuning!Loops))
          = Cardinality(PairsOf(Lens', Tuning!Loops \ {m})) + Lens'[m]
    BY <1>1, LoopsFinite, PairsGrow
  <2> QED BY <2>1, <2>2, <2>3
<1>7. /\ AllHeld = rest \cup Tuning!In(Tuning!Held(m))
      /\ AllHeld' = rest \cup Tuning!In(Tuning!Held(m)')
  BY <1>2 DEF AllHeld
<1> HIDE DEF k, rest
<1>8. SumHeld' = SumHeld - Len(Tuning!Held(m)) + Len(Tuning!Held(m)') /\ SumHeld \in Nat
  <2> DEFINE x == Len(Tuning!Held(m))
             y == Len(Tuning!Held(m)')
  <2>1. Lens[m] = x /\ Lens'[m] = y /\ x \in Nat /\ y \in Nat
    BY <1>1
  <2> HIDE DEF x, y
  <2>2. SumHeld' = SumHeld - x + y /\ SumHeld \in Nat
    BY <1>4, <1>5, <1>6, <2>1
  <2> QED BY <2>2 DEF x, y
<1> QED BY <1>7, <1>8

\* No loop moves.
LEMMA NoneMoves ==
    ASSUME \A l \in Tuning!Loops : Tuning!Held(l)' = Tuning!Held(l)
    PROVE  SumHeld' = SumHeld /\ AllHeld' = AllHeld
BY DEF SumHeld, AllHeld, Lens

LEMMA FirstThenRest ==
    ASSUME NEW S, NEW s \in Seq(S), s # <<>>
    PROVE  <<Head(s)>> \o Tail(s) = s
<1>1. Head(s) \in S /\ Tail(s) \in Seq(S) /\ Len(s) \in Nat \ {0} /\ Len(Tail(s)) = Len(s) - 1
  BY HeadTailProperties, EmptySeq
<1>2. \A i \in 1..(Len(s) - 1) : Tail(s)[i] = s[i + 1]
  BY <1>1, HeadTailProperties
<1> DEFINE h == <<Head(s)>>
           t == Tail(s)
           r == h \o t
<1>3. h \in Seq(S) /\ Len(h) = 1 /\ h[1] = s[1]
  BY <1>1
<1> HIDE DEF h, t
<1>4. t \in Seq(S) /\ Len(t) = Len(s) - 1 /\ \A i \in 1..(Len(s) - 1) : t[i] = s[i + 1]
  BY <1>1, <1>2 DEF t
<1>5. /\ r \in Seq(S) /\ Len(r) = Len(s)
      /\ \A i \in 1..Len(s) : r[i] = IF i <= 1 THEN h[i] ELSE t[i - 1]
  <2>1. /\ r \in Seq(S) /\ Len(r) = Len(h) + Len(t)
        /\ \A i \in 1..(Len(h) + Len(t)) : r[i] = IF i <= Len(h) THEN h[i] ELSE t[i - Len(h)]
    <3>1. h \in Seq(S) /\ t \in Seq(S)
      BY <1>3, <1>4
    <3> QED BY <3>1, ConcatProperties
  <2>2. Len(h) + Len(t) = Len(s) /\ Len(h) = 1
    BY <1>1, <1>3, <1>4
  <2> QED BY <2>1, <2>2
<1> HIDE DEF r
<1>6. Len(r) = Len(s)
  BY <1>1, <1>5
<1>7. ASSUME NEW i \in 1..Len(s) PROVE r[i] = s[i]
  <2>1. r[i] = IF i <= 1 THEN h[i] ELSE t[i - 1]
    BY <1>1, <1>5
  <2>2. CASE i = 1
    BY <1>3, <2>1, <2>2
  <2>3. CASE i # 1
    <3>1. i - 1 \in 1..(Len(s) - 1) /\ (i - 1) + 1 = i /\ ~(i <= 1)
      BY <1>1, <2>3
    <3> QED BY <1>4, <2>1, <3>1
  <2> QED BY <2>2, <2>3
<1>8. r = s
  BY <1>5, <1>6, <1>7, SeqEqual
<1> QED BY <1>8 DEF r, h, t
-----------------------------------------------------------------------------
LEMMA PerfInit == Tuning!Init => PerfInv
<1> SUFFICES ASSUME Tuning!Init PROVE PerfInv
  OBVIOUS
<1>1. /\ starts = 0 /\ kindOf = <<>> /\ tuningChan = <<>> /\ tuningActions = <<>> /\ procs = 0
      /\ monitors = {} /\ enabled = TRUE /\ stopped = FALSE
      /\ toSend = [l \in Tuning!Loops |-> <<>>] /\ tuner = [l \in Tuning!Loops |-> Tuning!Ended]
  BY DEF Tuning!Init
<1>2. Len(kindOf) = 0 /\ Len(tuningChan) = 0 /\ Len(tuningActions) = 0
  BY <1>1
<1>3. 0 \in 0..MaxStarts /\ 0 \in 0..MaxActions /\ 0 <= Capacity /\ 0 <= MaxActions
  BY TuningAssumption
<1>4. Tuning!TypeOK
  BY <1>1, <1>2, <1>3 DEF Tuning!TypeOK
<1>5. PerfTypes
  <2>1. <<>> \in Seq(Act) /\ <<>> \in Seq(KindSet)
    OBVIOUS
  <2> QED BY <1>1, <1>4, <2>1 DEF PerfTypes
<1>6. LoopsStarted /\ InOrder
  BY <1>1 DEF LoopsStarted, InOrder
<1>7. \A l \in Tuning!Loops : tuner[l].at = "ended" /\ toSend[l] = <<>>
  BY <1>1 DEF Tuning!Ended
<1>8. \A l \in Tuning!Loops : Tuning!Held(l) = <<>>
  BY <1>7 DEF Tuning!Held, Tuning!Hand
<1>9. ActionsPlaced
  <2>1. AllHeld = {}
    BY <1>8 DEF AllHeld, Tuning!In
  <2>2. Tuning!In(tuningActions) = {} /\ Tuning!In(tuningChan) = {} /\ 1..Len(kindOf) = {}
    BY <1>2 DEF Tuning!In
  <2>3. \A l \in Tuning!Loops : Lens[l] = 0
    BY <1>8 DEF Lens
  <2>4. PairsOf(Lens, Tuning!Loops) = {}
    BY <2>3 DEF PairsOf, Pairs
  <2>5. SumHeld = 0
    BY <2>4, FS_EmptySet DEF SumHeld
  <2> QED BY <1>2, <2>1, <2>2, <2>5 DEF ActionsPlaced
<1>10. RaisesCounted
  <2>1. Tuning!Setters = {} /\ Raised = {}
    BY <1>2, <1>7 DEF Tuning!Setters, Raised
  <2>2. Cardinality(Tuning!Setters) = 0 /\ Cardinality(Raised) = 0
    BY <2>1, FS_EmptySet
  <2> QED BY <1>1, <1>7, <2>2 DEF RaisesCounted
<1> QED BY <1>5, <1>6, <1>9, <1>10 DEF PerfInv

\* What the types say.
LEMMA PerfSays ==
    ASSUME PerfInv
    PROVE  /\ Len(kindOf) \in Nat /\ Len(kindOf) <= MaxActions /\ MaxActions \in Nat
           /\ Len(tuningChan) \in Nat /\ Len(tuningChan) <= Capacity /\ Capacity \in Nat
           /\ Len(tuningActions) \in Nat /\ starts \in 0..MaxStarts /\ MaxStarts \in Nat
           /\ procs \in 0..MaxActions /\ monitors \subseteq 1..starts
           /\ tuner \in [Tuning!Loops -> {Tuning!Idle, Tuning!Ended} \cup Tuning!Doing \cup Tuning!Setting]
           /\ Cardinality(Raised) \in Nat /\ Cardinality(Tuning!Setters) \in Nat
           /\ Cardinality(Raised) <= Len(tuningActions) /\ Len(tuningActions) <= Len(kindOf)
<1>1. PerfTypes /\ Tuning!TypeOK
  BY DEF PerfInv, PerfTypes
<1>2. Len(kindOf) \in Nat /\ Len(tuningChan) \in Nat /\ Len(tuningActions) \in Nat
  BY <1>1, LenProperties DEF PerfTypes
<1>3. SumHeld \in Nat
  <2>1. \A l \in Tuning!Loops : Lens[l] \in Nat
    BY <1>1, HeldIs DEF Lens
  <2> QED BY <2>1, LoopsFinite, PairsAreFinite DEF SumHeld
<1>4. Len(tuningActions) <= Len(kindOf)
  BY <1>2, <1>3 DEF PerfInv, ActionsPlaced
<1> QED BY <1>1, <1>2, <1>4, TuningAssumption, SettersFinite, RaisedFinite DEF Tuning!TypeOK, PerfTypes

LEMMA PerfQuiet ==
    ASSUME PerfInv,
           \/ Tuning!Stop \/ Tuning!Enable(TRUE) \/ Tuning!Enable(FALSE) \/ UNCHANGED Tuning!vars
           \/ \E l \in Tuning!Loops : Tuning!MonitorExits(l)
    PROVE  PerfInv'
<1>1. /\ UNCHANGED <<starts, toSend, tuningChan, tuner, tuningActions, procs, kindOf>>
      /\ monitors' \subseteq monitors
      /\ enabled' \in {enabled, TRUE, FALSE} /\ stopped' \in {stopped, TRUE}
  BY DEF Tuning!Stop, Tuning!Enable, Tuning!vars, Tuning!MonitorExits
<1>2. PerfTypes'
  BY <1>1 DEF PerfInv, PerfTypes, Tuning!TypeOK
<1>3. \A l \in Tuning!Loops : Tuning!Held(l)' = Tuning!Held(l)
  BY <1>1 DEF Tuning!Held, Tuning!Hand
<1>4. ActionsPlaced'
  BY <1>1, <1>3, NoneMoves DEF PerfInv, ActionsPlaced, Tuning!In
<1>5. LoopsStarted' /\ InOrder'
  BY <1>1 DEF PerfInv, LoopsStarted, InOrder, Tuning!Hand
<1>6. RaisesCounted'
  BY <1>1 DEF PerfInv, RaisesCounted, Tuning!Setters, Raised
<1> QED BY <1>2, <1>4, <1>5, <1>6 DEF PerfInv

LEMMA PerfStart ==
    ASSUME PerfInv, Tuning!Start
    PROVE  PerfInv'
<1> DEFINE n == starts + 1
<1>1. /\ starts < MaxStarts /\ starts' = n /\ monitors' = monitors \cup {n}
      /\ tuner' = [tuner EXCEPT ![n] = Tuning!Idle]
      /\ UNCHANGED <<enabled, stopped, toSend, tuningChan, tuningActions, procs, kindOf>>
  BY DEF Tuning!Start
<1>2. n \in Tuning!Loops /\ n > starts /\ starts \in Nat /\ n \in 0..MaxStarts
  BY <1>1, PerfSays DEF Tuning!Loops
<1>3. tuner[n] = Tuning!Ended /\ toSend[n] = <<>>
  BY <1>2 DEF PerfInv, LoopsStarted
<1>4. /\ tuner' \in [Tuning!Loops -> {Tuning!Idle, Tuning!Ended} \cup Tuning!Doing \cup Tuning!Setting]
      /\ tuner'[n] = Tuning!Idle /\ \A l \in Tuning!Loops \ {n} : tuner'[l] = tuner[l]
  BY <1>1, <1>2, PerfSays
<1>5. PerfTypes'
  <2>1. monitors' \subseteq 1..starts'
    BY <1>1, <1>2, PerfSays
  <2>2. Tuning!TypeOK'
    BY <1>1, <1>2, <1>4, <2>1 DEF PerfInv, PerfTypes, Tuning!TypeOK
  <2> QED BY <1>1, <2>2 DEF PerfInv, PerfTypes
<1>6. \A l \in Tuning!Loops : Tuning!Hand(l)' = Tuning!Hand(l)
  <2>1. Tuning!Ended.at = "ended" /\ Tuning!Idle.at = "idle"
    BY DEF Tuning!Ended, Tuning!Idle
  <2> QED BY <1>3, <1>4, <2>1 DEF Tuning!Hand
<1>7. \A l \in Tuning!Loops : Tuning!Held(l)' = Tuning!Held(l)
  BY <1>1, <1>6 DEF Tuning!Held
<1>8. ActionsPlaced'
  BY <1>1, <1>7, NoneMoves DEF PerfInv, ActionsPlaced, Tuning!In
<1>9. LoopsStarted'
  <2>1. ASSUME NEW l \in Tuning!Loops, l > n PROVE toSend'[l] = <<>> /\ tuner'[l] = Tuning!Ended
    <3>1. l > starts /\ l # n
      BY <1>2, <2>1 DEF Tuning!Loops
    <3> QED BY <1>1, <1>4, <3>1 DEF PerfInv, LoopsStarted
  <2> QED BY <1>1, <1>2, <2>1 DEF LoopsStarted
<1>10. Tuning!Setters' = Tuning!Setters
  <2>1. Tuning!Ended.at = "ended" /\ Tuning!Idle.at = "idle"
    BY DEF Tuning!Ended, Tuning!Idle
  <2> QED BY <1>3, <1>4, <2>1 DEF Tuning!Setters
<1>11. \A t \in Tuning!Loops : tuner'[t].at = "set" => tuner'[t] = tuner[t] /\ t # n
  <2>1. Tuning!Idle.at = "idle"
    BY DEF Tuning!Idle
  <2> QED BY <1>4, <2>1
<1>12. Raised' = Raised
  BY <1>1 DEF Raised
<1>13. ASSUME starts = 0
       PROVE  /\ kindOf = <<>> /\ tuningChan = <<>> /\ tuningActions = <<>> /\ procs = 0
              /\ \A t \in Tuning!Loops : tuner[t] = Tuning!Ended /\ toSend[t] = <<>>
              /\ Tuning!Setters = {} /\ Raised = {}
  <2>1. \A t \in Tuning!Loops : t > starts
    BY <1>13 DEF Tuning!Loops
  <2>2. \A t \in Tuning!Loops : tuner[t] = Tuning!Ended /\ toSend[t] = <<>>
    BY <2>1 DEF PerfInv, LoopsStarted
  <2>3. kindOf = <<>> /\ tuningChan = <<>> /\ tuningActions = <<>> /\ procs = 0
    BY <1>13 DEF PerfInv, LoopsStarted
  <2>4. Tuning!Setters = {}
    BY <2>2 DEF Tuning!Setters, Tuning!Ended
  <2>5. Raised = {}
    <3>1. 1..Len(tuningActions) = {}
      BY <2>3
    <3> QED BY <3>1 DEF Raised
  <2> QED BY <2>2, <2>3, <2>4, <2>5
<1>14. InOrder'
  <2> SUFFICES ASSUME starts' = 1 PROVE InOrder'
    BY DEF InOrder
  <2>1. starts = 0 /\ n = 1
    BY <1>1, <1>2
  <2>2. kindOf' = <<>> /\ tuningChan' = <<>> /\ tuningActions' = <<>> /\ toSend'[1] = <<>>
    BY <1>1, <1>2, <1>13, <2>1
  <2>3. Tuning!Hand(1)' = <<>>
    BY <1>4, <2>1 DEF Tuning!Hand, Tuning!Idle
  <2>4. [i \in 1..Len(kindOf') |-> i] = <<>>
    <3>1. 1..Len(kindOf') = 1..0
      BY <2>2
    <3> QED BY <3>1
  <2>5. <<>> \o <<>> = <<>>
    OBVIOUS
  <2> QED BY <2>2, <2>3, <2>4, <2>5 DEF InOrder
<1>15. RaisesCounted'
  <2>1. starts' = 1 => procs' = Cardinality(Raised') - Cardinality(Tuning!Setters')
    <3> SUFFICES ASSUME starts' = 1
                 PROVE  procs' = Cardinality(Raised') - Cardinality(Tuning!Setters')
      OBVIOUS
    <3>1. starts = 0
      BY <1>1, <1>2
    <3>2. Cardinality(Raised) = 0 /\ Cardinality(Tuning!Setters) = 0 /\ procs = 0
      BY <1>13, <3>1, FS_EmptySet
    <3> QED BY <1>1, <1>10, <1>12, <3>2
  <2>2. starts' = 1 => \A t \in Tuning!Loops : tuner'[t].at # "set"
    <3>1. Tuning!Ended.at = "ended"
      BY DEF Tuning!Ended
    <3> QED BY <1>1, <1>2, <1>11, <1>13, <3>1
  <2> QED BY <1>1, <1>10, <1>11, <1>12, <2>1, <2>2 DEF PerfInv, RaisesCounted
<1> QED BY <1>5, <1>8, <1>9, <1>14, <1>15 DEF PerfInv
-----------------------------------------------------------------------------
\* The numbers of the next decisions follow those before.
LEMMA NumbersGoOn ==
    ASSUME NEW L \in Nat, NEW n \in Nat, L + n <= MaxActions, MaxActions \in Nat
    PROVE  /\ [i \in 1..n |-> L + i] \in Seq(Act) /\ Len([i \in 1..n |-> L + i]) = n
           /\ [i \in 1..L |-> i] \o [i \in 1..n |-> L + i] = [i \in 1..(L + n) |-> i]
           /\ 1..(L + n) = (1..L) \cup Tuning!In([i \in 1..n |-> L + i])
<1> DEFINE a == [i \in 1..L |-> i]
           b == [i \in 1..n |-> L + i]
           c == [i \in 1..(L + n) |-> i]
<1>1. a \in Seq(Act) /\ Len(a) = L /\ \A i \in 1..L : a[i] = i
  BY DEF Act
<1>2. b \in Seq(Act) /\ Len(b) = n /\ \A i \in 1..n : b[i] = L + i
  <2>1. \A i \in 1..n : L + i \in Act
    BY DEF Act
  <2> QED BY <2>1
<1>3. c \in Seq(Act) /\ Len(c) = L + n /\ \A i \in 1..(L + n) : c[i] = i
  BY DEF Act
<1> HIDE DEF a, b, c
<1> DEFINE r == a \o b
<1>4. /\ r \in Seq(Act) /\ Len(r) = Len(a) + Len(b)
      /\ \A i \in 1..(Len(a) + Len(b)) : r[i] = IF i <= Len(a) THEN a[i] ELSE b[i - Len(a)]
  <2>1. a \in Seq(Act) /\ b \in Seq(Act)
    BY <1>1, <1>2
  <2> QED BY <2>1, ConcatProperties
<1> HIDE DEF r
<1>5. \A i \in 1..(L + n) : r[i] = c[i]
  <2> SUFFICES ASSUME NEW i \in 1..(L + n) PROVE r[i] = c[i]
    OBVIOUS
  <2>1. r[i] = IF i <= L THEN a[i] ELSE b[i - L]
    BY <1>1, <1>2, <1>4
  <2>2. CASE i <= L
    BY <1>1, <1>3, <2>1, <2>2
  <2>3. CASE ~(i <= L)
    <3>1. i - L \in 1..n /\ L + (i - L) = i
      BY <2>3
    <3> QED BY <1>2, <1>3, <2>1, <2>3, <3>1
  <2> QED BY <2>2, <2>3
<1>6. r = c
  <2>1. Len(r) = Len(c) /\ Len(r) = L + n
    BY <1>1, <1>2, <1>3, <1>4
  <2> QED BY <1>3, <1>4, <1>5, <2>1, SeqEqual
<1>7. 1..(L + n) = (1..L) \cup Tuning!In(b)
  <2>1. ASSUME NEW i \in 1..(L + n), ~(i \in 1..L) PROVE i \in Tuning!In(b)
    <3>1. i - L \in 1..n /\ L + (i - L) = i
      BY <2>1
    <3>2. b[i - L] = i
      BY <1>2, <3>1
    <3> QED BY <1>2, <3>1, <3>2 DEF Tuning!In
  <2>2. \A i \in 1..n : b[i] \in 1..(L + n)
    BY <1>2
  <2>3. Tuning!In(b) \subseteq 1..(L + n)
    BY <1>2, <2>2 DEF Tuning!In
  <2>4. 1..L \subseteq 1..(L + n)
    OBVIOUS
  <2> QED BY <2>1, <2>3, <2>4
<1> QED BY <1>2, <1>6, <1>7 DEF a, b, c, r

\* Each list of thresholds has an order.
LEMMA ExceededAre ==
    ASSUME NEW e \in Tuning!Exceeded
    PROVE  e \in Seq(KindSet) /\ Len(e) \in Nat
<1>1. PICK n \in 1..4 : \E o \in [1..n -> 1..4] : e = [i \in DOMAIN o |-> Tuning!Kinds[o[i]]]
  BY DEF Tuning!Exceeded
<1>0. PICK o \in [1..n -> 1..4] : e = [i \in DOMAIN o |-> Tuning!Kinds[o[i]]]
  BY <1>1
<1>2. \A k \in 1..4 : Tuning!Kinds[k] \in KindSet
  BY DEF Tuning!Kinds, KindSet
<1>3. e \in [1..n -> KindSet] /\ n \in Nat
  BY <1>0, <1>2
<1>4. e \in Seq(KindSet)
  BY <1>3, SeqDef
<1> QED BY <1>4, LenProperties

LEMMA PerfChecks ==
    ASSUME PerfInv, NEW m \in Tuning!Loops, NEW e \in Tuning!Exceeded, Tuning!CheckThresholds(m, e)
    PROVE  PerfInv'
<1> DEFINE L == Len(kindOf)
           n == Len(e)
           more == [i \in 1..n |-> L + i]
<1>1. /\ m \in monitors /\ toSend[m] = <<>> /\ L + n <= MaxActions
      /\ kindOf' = kindOf \o e /\ toSend' = [toSend EXCEPT ![m] = more]
      /\ UNCHANGED <<enabled, starts, stopped, monitors, tuningChan, tuner, tuningActions, procs>>
  BY DEF Tuning!CheckThresholds
<1>2. e \in Seq(KindSet) /\ n \in Nat /\ L \in Nat /\ MaxActions \in Nat /\ kindOf \in Seq(KindSet)
  BY ExceededAre, PerfSays DEF PerfInv, PerfTypes
<1>3. /\ kindOf' \in Seq(KindSet) /\ Len(kindOf') = L + n
      /\ \A i \in 1..L : kindOf'[i] = kindOf[i]
  <2>1. /\ kindOf \o e \in Seq(KindSet) /\ Len(kindOf \o e) = Len(kindOf) + Len(e)
        /\ \A i \in 1..(Len(kindOf) + Len(e)) :
              (kindOf \o e)[i] = IF i <= Len(kindOf) THEN kindOf[i] ELSE e[i - Len(kindOf)]
    BY <1>2, ConcatProperties
  <2> QED BY <1>1, <1>2, <2>1
<1>4. /\ more \in Seq(Act) /\ Len(more) = n
      /\ [i \in 1..L |-> i] \o more = [i \in 1..(L + n) |-> i]
      /\ 1..(L + n) = (1..L) \cup Tuning!In(more)
  BY <1>1, <1>2, NumbersGoOn
<1> HIDE DEF more, L, n
<1>5. PerfTypes'
  <2>1. Tuning!TypeOK'
    BY <1>1, <1>3 DEF PerfInv, PerfTypes, Tuning!TypeOK
  <2> QED BY <1>1, <1>3, <1>4, <2>1 DEF PerfInv, PerfTypes
<1>6. PerfTypes /\ toSend \in [Tuning!Loops -> Seq(Act)] /\ m <= starts /\ starts \in Nat /\ m \in Nat
  BY <1>1, PerfSays DEF PerfInv, PerfTypes, Tuning!Loops
<1>7. toSend'[m] = more /\ \A l \in Tuning!Loops \ {m} : toSend'[l] = toSend[l]
  BY <1>1, <1>6
<1>8. Tuning!Hand(m)' = Tuning!Hand(m)
  BY <1>1 DEF Tuning!Hand
<1>9. Len(Tuning!Held(m)') = Len(Tuning!Held(m)) + n /\ Len(Tuning!Held(m)) \in Nat
  <2>1. Len(Tuning!Held(m)') = Len(Tuning!Hand(m)') + Len(toSend'[m]) /\ Len(Tuning!Hand(m)') \in Nat
    BY <1>5, HeldIsNext
  <2>2. Len(Tuning!Held(m)) = Len(Tuning!Hand(m)) + Len(toSend[m])
    BY <1>6, HeldIs
  <2>3. Len(toSend[m]) = 0
    BY <1>1
  <2> QED BY <1>4, <1>7, <1>8, <2>1, <2>2, <2>3
<1>10. Tuning!In(Tuning!Held(m)') = Tuning!In(Tuning!Held(m)) \cup Tuning!In(more)
  <2>1. Tuning!In(Tuning!Held(m)') = Tuning!In(Tuning!Hand(m)') \cup Tuning!In(toSend'[m])
    BY <1>5, HeldIsNext
  <2>2. Tuning!In(Tuning!Held(m)) = Tuning!In(Tuning!Hand(m)) \cup Tuning!In(toSend[m])
    BY <1>6, HeldIs
  <2>3. Tuning!In(toSend[m]) = {}
    BY <1>1, InOf
  <2> QED BY <1>7, <1>8, <2>1, <2>2, <2>3
<1>11. /\ SumHeld' = SumHeld - Len(Tuning!Held(m)) + Len(Tuning!Held(m)') /\ SumHeld \in Nat
       /\ \E rest : /\ AllHeld = rest \cup Tuning!In(Tuning!Held(m))
                    /\ AllHeld' = rest \cup Tuning!In(Tuning!Held(m)')
  BY <1>1, <1>5, <1>6, <1>7, OneHolds
<1>12. SumHeld' = SumHeld + n
  BY <1>2, <1>9, <1>11
<1>13. AllHeld' = AllHeld \cup Tuning!In(more)
  BY <1>10, <1>11
<1>14. ActionsPlaced'
  <2>1. /\ Tuning!In(tuningActions) \cup Tuning!In(tuningChan) \cup AllHeld = 1..L
        /\ Len(tuningActions) + Len(tuningChan) + SumHeld = L
    BY DEF PerfInv, ActionsPlaced, L
  <2>2. /\ Tuning!In(tuningActions)' = Tuning!In(tuningActions)
        /\ Tuning!In(tuningChan)' = Tuning!In(tuningChan)
    BY <1>1 DEF Tuning!In
  <2>3. Tuning!In(tuningActions)' \cup Tuning!In(tuningChan)' \cup AllHeld' = 1..Len(kindOf')
    BY <1>3, <1>4, <1>13, <2>1, <2>2
  <2>4. Len(tuningActions') + Len(tuningChan') + SumHeld' = Len(kindOf')
    <3>1. Len(tuningActions) \in Nat /\ Len(tuningChan) \in Nat
      BY PerfSays
    <3>2. SumHeld \in Nat
      BY <1>11
    <3>3. Len(tuningActions') = Len(tuningActions) /\ Len(tuningChan') = Len(tuningChan)
      BY <1>1
    <3>4. Len(kindOf') = L + n
      BY <1>3
    <3> QED BY <1>2, <1>12, <2>1, <3>1, <3>2, <3>3, <3>4
  <2> QED BY <2>3, <2>4 DEF ActionsPlaced
<1>15. LoopsStarted'
  <2>1. \A l \in Tuning!Loops : l > starts => toSend'[l] = <<>> /\ tuner'[l] = Tuning!Ended
    BY <1>1, <1>6, <1>7 DEF PerfInv, LoopsStarted
  <2>2. starts # 0
    BY <1>6 DEF Tuning!Loops
  <2> QED BY <1>1, <2>1, <2>2 DEF LoopsStarted
<1>16. InOrder'
  <2> SUFFICES ASSUME starts = 1
               PROVE  tuningActions \o Tuning!Hand(1) \o tuningChan \o toSend'[1]
                        = [i \in 1..(L + n) |-> i]
    <3>1. Tuning!Hand(1)' = Tuning!Hand(1)
      BY <1>1 DEF Tuning!Hand
    <3> QED BY <1>1, <1>3, <3>1 DEF InOrder
  <2>1. m = 1
    BY <1>6 DEF Tuning!Loops
  <2> DEFINE x == tuningActions \o Tuning!Hand(1) \o tuningChan
  <2>2. x \in Seq(Act)
    <3>1. tuningActions \in Seq(Act) /\ tuningChan \in Seq(Act) /\ Tuning!Hand(1) \in Seq(Act)
      BY <1>6, <2>1, HeldIs DEF PerfTypes
    <3>2. tuningActions \o Tuning!Hand(1) \in Seq(Act)
      BY <3>1, ConcatProperties
    <3> QED BY <3>1, <3>2, ConcatProperties
  <2> HIDE DEF x
  <2>3. x \o toSend[1] = [i \in 1..L |-> i]
    BY DEF PerfInv, InOrder, x, L
  <2>4. x = [i \in 1..L |-> i]
    BY <1>1, <2>1, <2>2, <2>3, ConcatEmptySeq
  <2>5. x \o toSend'[1] = [i \in 1..(L + n) |-> i]
    BY <1>4, <1>7, <2>1, <2>4
  <2> QED BY <2>5 DEF x
<1>17. Raised' = Raised
  <2>1. \A i \in 1..Len(tuningActions) : tuningActions[i] \in 1..L
    BY DEF PerfInv, ActionsPlaced, L, Tuning!In
  <2> QED BY <1>1, <1>3, <2>1 DEF Raised
<1>18. RaisesCounted'
  BY <1>1, <1>17 DEF PerfInv, RaisesCounted, Tuning!Setters
<1> QED BY <1>5, <1>14, <1>15, <1>16, <1>18 DEF PerfInv

LEMMA PerfSends ==
    ASSUME PerfInv, NEW m \in Tuning!Loops, Tuning!SendAction(m)
    PROVE  PerfInv'
<1> DEFINE h == Head(toSend[m])
           t == Tail(toSend[m])
<1>1. /\ toSend[m] # <<>> /\ Len(tuningChan) < Capacity
      /\ tuningChan' = Append(tuningChan, h) /\ toSend' = [toSend EXCEPT ![m] = t]
      /\ UNCHANGED <<enabled, starts, stopped, monitors, tuner, tuningActions, procs, kindOf>>
  BY DEF Tuning!SendAction
<1>2. PerfTypes /\ toSend \in [Tuning!Loops -> Seq(Act)] /\ tuningChan \in Seq(Act)
  BY DEF PerfInv, PerfTypes
<1>3. h \in Act /\ t \in Seq(Act) /\ Len(t) = Len(toSend[m]) - 1 /\ Len(toSend[m]) \in Nat
  BY <1>1, <1>2, HeadTailProperties, LenProperties
<1>4. m <= starts /\ starts \in Nat /\ m \in Nat /\ m # 0
  BY <1>1, PerfSays DEF PerfInv, LoopsStarted, Tuning!Loops
<1>5. tuningChan' \in Seq(Act) /\ Len(tuningChan') = Len(tuningChan) + 1 /\ Len(tuningChan) \in Nat
  BY <1>1, <1>2, <1>3, AppendProperties, LenProperties
<1>6. Tuning!In(toSend[m]) = {h} \cup Tuning!In(t)
  BY <1>1, <1>2, InOf
<1>7. Tuning!In(tuningChan') = Tuning!In(tuningChan) \cup {h}
  BY <1>1, <1>2, <1>3, InOf
<1>8. <<h>> \o t = toSend[m]
  BY <1>1, <1>2, FirstThenRest
<1>9. tuningChan' = tuningChan \o <<h>>
  BY <1>1, <1>2, <1>3, AppendIsConcat
<1> HIDE DEF h, t
<1>10. toSend'[m] = t /\ \A l \in Tuning!Loops \ {m} : toSend'[l] = toSend[l]
  BY <1>1, <1>2
<1>11. PerfTypes'
  <2>1. Len(tuningChan') <= Capacity
    BY <1>1, <1>5, PerfSays
  <2>2. Tuning!TypeOK'
    BY <1>1, <1>2, <2>1 DEF PerfTypes, Tuning!TypeOK
  <2> QED BY <1>1, <1>2, <1>3, <1>5, <2>2 DEF PerfTypes
<1>12. Tuning!Hand(m)' = Tuning!Hand(m)
  BY <1>1 DEF Tuning!Hand
<1>13. Len(Tuning!Held(m)') = Len(Tuning!Held(m)) - 1 /\ Len(Tuning!Held(m)) \in Nat
  <2>1. Len(Tuning!Held(m)') = Len(Tuning!Hand(m)') + Len(toSend'[m]) /\ Len(Tuning!Hand(m)') \in Nat
    BY <1>11, HeldIsNext
  <2>2. Len(Tuning!Held(m)) = Len(Tuning!Hand(m)) + Len(toSend[m])
    BY <1>2, HeldIs
  <2> QED BY <1>3, <1>10, <1>12, <2>1, <2>2
<1>14. Tuning!In(Tuning!Held(m)) = Tuning!In(Tuning!Held(m)') \cup {h}
  <2>1. Tuning!In(Tuning!Held(m)') = Tuning!In(Tuning!Hand(m)') \cup Tuning!In(toSend'[m])
    BY <1>11, HeldIsNext
  <2>2. Tuning!In(Tuning!Held(m)) = Tuning!In(Tuning!Hand(m)) \cup Tuning!In(toSend[m])
    BY <1>2, HeldIs
  <2> QED BY <1>6, <1>10, <1>12, <2>1, <2>2
<1>15. /\ SumHeld' = SumHeld - Len(Tuning!Held(m)) + Len(Tuning!Held(m)') /\ SumHeld \in Nat
       /\ \E rest : /\ AllHeld = rest \cup Tuning!In(Tuning!Held(m))
                    /\ AllHeld' = rest \cup Tuning!In(Tuning!Held(m)')
  BY <1>1, <1>2, <1>10, <1>11, OneHolds
<1>16. SumHeld' = SumHeld - 1
  BY <1>13, <1>15
<1>17. AllHeld = AllHeld' \cup {h}
  BY <1>14, <1>15
<1>18. ActionsPlaced'
  <2>1. /\ Tuning!In(tuningActions) \cup Tuning!In(tuningChan) \cup AllHeld = 1..Len(kindOf)
        /\ Len(tuningActions) + Len(tuningChan) + SumHeld = Len(kindOf)
    BY DEF PerfInv, ActionsPlaced
  <2>2. Tuning!In(tuningActions)' = Tuning!In(tuningActions)
    BY <1>1 DEF Tuning!In
  <2>3. Tuning!In(tuningActions)' \cup Tuning!In(tuningChan') \cup AllHeld' = 1..Len(kindOf')
    BY <1>1, <1>7, <1>17, <2>1, <2>2
  <2>4. Len(tuningActions') + Len(tuningChan') + SumHeld' = Len(kindOf')
    <3>1. Len(tuningActions) \in Nat /\ Len(kindOf) \in Nat
      BY PerfSays
    <3>2. SumHeld \in Nat
      BY <1>15
    <3>3. Len(tuningActions') = Len(tuningActions) /\ Len(kindOf') = Len(kindOf)
      BY <1>1
    <3> QED BY <1>5, <1>16, <2>1, <3>1, <3>2, <3>3
  <2> QED BY <2>3, <2>4 DEF ActionsPlaced
<1>19. LoopsStarted'
  BY <1>1, <1>4, <1>10 DEF PerfInv, LoopsStarted
<1>20. InOrder'
  <2> SUFFICES ASSUME starts = 1
               PROVE  tuningActions \o Tuning!Hand(1) \o tuningChan' \o toSend'[1]
                        = tuningActions \o Tuning!Hand(1) \o tuningChan \o toSend[1]
    <3>1. Tuning!Hand(1)' = Tuning!Hand(1)
      BY <1>1 DEF Tuning!Hand
    <3> QED BY <1>1, <3>1 DEF InOrder, PerfInv
  <2>1. m = 1
    BY <1>4
  <2> DEFINE x == tuningActions \o Tuning!Hand(1)
  <2>2. x \in Seq(Act)
    <3>1. tuningActions \in Seq(Act) /\ Tuning!Hand(1) \in Seq(Act)
      BY <1>2, <2>1, HeldIs DEF PerfTypes
    <3> QED BY <3>1, ConcatProperties
  <2> HIDE DEF x
  <2>3. <<h>> \in Seq(Act) /\ x \o tuningChan \in Seq(Act)
    BY <1>2, <1>3, <2>2, ConcatProperties DEF h
  <2>4. x \o (tuningChan \o <<h>>) = (x \o tuningChan) \o <<h>>
    BY <1>2, <2>2, <2>3, ConcatAssociative
  <2>5. ((x \o tuningChan) \o <<h>>) \o t = (x \o tuningChan) \o (<<h>> \o t)
    <3>1. t \in Seq(Act)
      BY <1>3
    <3> QED BY <2>3, <3>1, ConcatAssociative
  <2>6. (x \o tuningChan') \o toSend'[1] = (x \o tuningChan) \o toSend[1]
    BY <1>8, <1>9, <1>10, <2>1, <2>4, <2>5
  <2> QED BY <2>6 DEF x
<1>21. RaisesCounted'
  BY <1>1 DEF PerfInv, RaisesCounted, Tuning!Setters, Raised
<1> QED BY <1>11, <1>18, <1>19, <1>20, <1>21 DEF PerfInv
-----------------------------------------------------------------------------
\* A tuner in hand of an action, or raising, belongs to a pair that was started.
LEMMA BusyStarted ==
    ASSUME PerfInv, NEW t \in Tuning!Loops, tuner[t] # Tuning!Ended
    PROVE  t <= starts /\ starts \in Nat /\ t \in Nat /\ t # 0 /\ starts # 0
<1>1. starts \in Nat /\ t \in Nat /\ t # 0
  BY PerfSays DEF Tuning!Loops
<1>2. ~(t > starts)
  BY DEF PerfInv, LoopsStarted
<1> QED BY <1>1, <1>2

LEMMA PerfReceives ==
    ASSUME PerfInv, NEW t \in Tuning!Loops, Tuning!ReceiveAction(t)
    PROVE  PerfInv'
<1> DEFINE h == Head(tuningChan)
           r == Tail(tuningChan)
           doing == [at |-> "execute", action |-> h]
<1>1. /\ tuner[t] = Tuning!Idle /\ tuningChan # <<>>
      /\ tuner' = [tuner EXCEPT ![t] = doing] /\ tuningChan' = r
      /\ UNCHANGED <<enabled, starts, stopped, toSend, monitors, tuningActions, procs, kindOf>>
  BY DEF Tuning!ReceiveAction
<1>2. PerfTypes /\ tuningChan \in Seq(Act)
  BY DEF PerfInv, PerfTypes
<1>3. h \in Act /\ r \in Seq(Act) /\ Len(r) = Len(tuningChan) - 1 /\ Len(tuningChan) \in Nat
  BY <1>1, <1>2, HeadTailProperties, LenProperties
<1>4. t <= starts /\ starts \in Nat /\ t \in Nat /\ t # 0 /\ starts # 0
  <2>1. tuner[t] # Tuning!Ended
    BY <1>1 DEF Tuning!Idle, Tuning!Ended
  <2> QED BY <2>1, BusyStarted
<1>5. Tuning!In(tuningChan) = {h} \cup Tuning!In(r)
  BY <1>1, <1>2, InOf
<1>6. <<h>> \o r = tuningChan
  BY <1>1, <1>2, FirstThenRest
<1>7. doing \in Tuning!Doing /\ doing.at = "execute" /\ doing.action = h
  BY <1>3 DEF Tuning!Doing, Act
<1> HIDE DEF h, r, doing
<1>8. tuner'[t] = doing /\ \A l \in Tuning!Loops \ {t} : tuner'[l] = tuner[l]
  BY <1>1, PerfSays
<1>9. PerfTypes'
  <2>1. tuner' \in [Tuning!Loops -> {Tuning!Idle, Tuning!Ended} \cup Tuning!Doing \cup Tuning!Setting]
    BY <1>1, <1>7, PerfSays
  <2>2. Len(tuningChan') <= Capacity
    BY <1>1, <1>3, PerfSays
  <2>3. Tuning!TypeOK'
    BY <1>1, <1>2, <2>1, <2>2 DEF PerfTypes, Tuning!TypeOK
  <2> QED BY <1>1, <1>2, <1>3, <2>3 DEF PerfTypes
<1>10. Tuning!Hand(t) = <<>> /\ Tuning!Hand(t)' = <<h>>
  <2>1. Tuning!Idle.at = "idle"
    BY DEF Tuning!Idle
  <2> QED BY <1>1, <1>7, <1>8, <2>1 DEF Tuning!Hand
<1>11. Len(Tuning!Held(t)') = Len(Tuning!Held(t)) + 1 /\ Len(Tuning!Held(t)) \in Nat
  <2>1. Len(Tuning!Held(t)') = Len(Tuning!Hand(t)') + Len(toSend'[t]) /\ Len(toSend'[t]) \in Nat
    BY <1>9, HeldIsNext
  <2>2. Len(Tuning!Held(t)) = Len(Tuning!Hand(t)) + Len(toSend[t])
    BY <1>2, HeldIs
  <2>3. Len(<<h>>) = 1 /\ Len(<<>>) = 0 /\ toSend'[t] = toSend[t]
    BY <1>1
  <2> QED BY <1>10, <2>1, <2>2, <2>3
<1>12. Tuning!In(Tuning!Held(t)') = Tuning!In(Tuning!Held(t)) \cup {h}
  <2>1. Tuning!In(Tuning!Held(t)') = Tuning!In(Tuning!Hand(t)') \cup Tuning!In(toSend'[t])
    BY <1>9, HeldIsNext
  <2>2. Tuning!In(Tuning!Held(t)) = Tuning!In(Tuning!Hand(t)) \cup Tuning!In(toSend[t])
    BY <1>2, HeldIs
  <2>3. Tuning!In(<<>>) = {} /\ Tuning!In(<<h>>) = {h}
    BY InOf
  <2>4. toSend'[t] = toSend[t]
    BY <1>1
  <2> QED BY <1>10, <2>1, <2>2, <2>3, <2>4
<1>13. /\ SumHeld' = SumHeld - Len(Tuning!Held(t)) + Len(Tuning!Held(t)') /\ SumHeld \in Nat
       /\ \E rest : /\ AllHeld = rest \cup Tuning!In(Tuning!Held(t))
                    /\ AllHeld' = rest \cup Tuning!In(Tuning!Held(t)')
  BY <1>1, <1>2, <1>8, <1>9, OneHolds
<1>14. SumHeld' = SumHeld + 1 /\ SumHeld \in Nat
  BY <1>11, <1>13
<1>15. AllHeld' = AllHeld \cup {h}
  BY <1>12, <1>13
<1>16. ActionsPlaced'
  <2>1. /\ Tuning!In(tuningActions) \cup Tuning!In(tuningChan) \cup AllHeld = 1..Len(kindOf)
        /\ Len(tuningActions) + Len(tuningChan) + SumHeld = Len(kindOf)
    BY DEF PerfInv, ActionsPlaced
  <2>2. Tuning!In(tuningActions)' = Tuning!In(tuningActions)
    BY <1>1 DEF Tuning!In
  <2>3. Tuning!In(tuningChan)' = Tuning!In(r)
    BY <1>1 DEF Tuning!In
  <2>4. Tuning!In(tuningActions)' \cup Tuning!In(tuningChan)' \cup AllHeld' = 1..Len(kindOf')
    BY <1>1, <1>5, <1>15, <2>1, <2>2, <2>3
  <2>5. Len(tuningActions') + Len(tuningChan') + SumHeld' = Len(kindOf')
    <3>1. Len(tuningActions) \in Nat /\ Len(kindOf) \in Nat
      BY PerfSays
    <3>2. /\ Len(tuningActions') = Len(tuningActions) /\ Len(kindOf') = Len(kindOf)
          /\ Len(tuningChan') = Len(tuningChan) - 1
      BY <1>1, <1>3
    <3> QED BY <1>3, <1>14, <2>1, <3>1, <3>2
  <2> QED BY <2>4, <2>5 DEF ActionsPlaced
<1>17. LoopsStarted'
  <2>1. ASSUME NEW l \in Tuning!Loops, l > starts PROVE toSend'[l] = <<>> /\ tuner'[l] = Tuning!Ended
    <3>1. l # t
      BY <1>4, <2>1
    <3> QED BY <1>1, <1>8, <2>1, <3>1 DEF PerfInv, LoopsStarted
  <2> QED BY <1>1, <1>4, <2>1 DEF LoopsStarted
<1>18. InOrder'
  <2> SUFFICES ASSUME starts = 1
               PROVE  tuningActions \o Tuning!Hand(1)' \o tuningChan' \o toSend[1]
                        = tuningActions \o Tuning!Hand(1) \o tuningChan \o toSend[1]
    BY <1>1 DEF InOrder, PerfInv
  <2>1. t = 1
    BY <1>4
  <2>2. tuningActions \in Seq(Act)
    BY <1>2 DEF PerfTypes
  <2>3. <<h>> \in Seq(Act) /\ r \in Seq(Act)
    BY <1>3
  <2>4. tuningActions \o <<>> = tuningActions
    BY <2>2, ConcatEmptySeq
  <2>5. (tuningActions \o <<h>>) \o r = tuningActions \o (<<h>> \o r)
    BY <2>2, <2>3, ConcatAssociative
  <2> QED BY <1>1, <1>6, <1>10, <2>1, <2>4, <2>5
<1>19. Tuning!Setters' = Tuning!Setters
  <2>1. Tuning!Idle.at = "idle"
    BY DEF Tuning!Idle
  <2> QED BY <1>1, <1>7, <1>8, <2>1 DEF Tuning!Setters
<1>20. \A l \in Tuning!Loops : tuner'[l].at = "set" => tuner'[l] = tuner[l]
  BY <1>7, <1>8
<1>21. Raised' = Raised
  BY <1>1 DEF Raised
<1>22. RaisesCounted'
  BY <1>1, <1>19, <1>20, <1>21 DEF PerfInv, RaisesCounted
<1> QED BY <1>9, <1>16, <1>17, <1>18, <1>22 DEF PerfInv

\* Appending an action appends it to the raises if it is a gc action.
LEMMA RaisedGrows ==
    ASSUME tuningActions \in Seq(Act), NEW a \in Act,
           tuningActions' = Append(tuningActions, a), kindOf' = kindOf
    PROVE  Cardinality(Raised') = Cardinality(Raised) + (IF kindOf[a] = "gc" THEN 1 ELSE 0)
<1> DEFINE n == Len(tuningActions) + 1
<1>1. n \in Nat /\ Len(tuningActions) \in Nat
  BY LenProperties
<1>2. /\ Len(tuningActions') = n /\ tuningActions'[n] = a
      /\ \A i \in 1..Len(tuningActions) : tuningActions'[i] = tuningActions[i]
  BY AppendProperties
<1>3. 1..n = (1..Len(tuningActions)) \cup {n} /\ n \notin 1..Len(tuningActions)
  BY <1>1
<1>4. IsFiniteSet(Raised) /\ Cardinality(Raised) \in Nat
  BY RaisedFinite
<1> HIDE DEF n
<1>5. CASE kindOf[a] = "gc"
  <2>1. Raised' = Raised \cup {n} /\ n \notin Raised
    BY <1>2, <1>3, <1>5 DEF Raised
  <2> QED BY <1>4, <1>5, <2>1, FS_AddElement
<1>6. CASE kindOf[a] # "gc"
  <2>1. Raised' = Raised
    BY <1>2, <1>3, <1>6 DEF Raised
  <2> QED BY <1>4, <1>6, <2>1
<1> QED BY <1>5, <1>6

LEMMA PerfRecords ==
    ASSUME PerfInv, NEW t \in Tuning!Loops, Tuning!RecordAction(t)
    PROVE  PerfInv'
<1> DEFINE a == tuner[t].action
           gc == kindOf[a] = "gc"
           next == IF gc THEN [at |-> "optimize", action |-> a] ELSE Tuning!Idle
<1>1. /\ tuner[t].at = "execute" /\ tuningActions' = Append(tuningActions, a)
      /\ tuner' = [tuner EXCEPT ![t] = next]
      /\ UNCHANGED <<enabled, starts, stopped, toSend, monitors, tuningChan, procs, kindOf>>
  BY DEF Tuning!RecordAction
<1>2. PerfTypes /\ tuningActions \in Seq(Act)
  BY DEF PerfInv, PerfTypes
<1>3. a \in Act /\ Tuning!Hand(t) = <<a>>
  BY <1>1, <1>2, HeldIs
<1>4. t <= starts /\ starts \in Nat /\ t \in Nat /\ t # 0 /\ starts # 0
  <2>1. tuner[t] # Tuning!Ended
    BY <1>1 DEF Tuning!Ended
  <2> QED BY <2>1, BusyStarted
<1>5. next \in {Tuning!Idle} \cup Tuning!Doing /\ next.at = IF gc THEN "optimize" ELSE "idle"
  BY <1>3 DEF Tuning!Doing, Tuning!Idle, Act
<1>6. /\ tuningActions' \in Seq(Act) /\ Len(tuningActions') = Len(tuningActions) + 1
      /\ Len(tuningActions) \in Nat /\ tuningActions' = tuningActions \o <<a>>
      /\ Tuning!In(tuningActions') = Tuning!In(tuningActions) \cup {a}
  BY <1>1, <1>2, <1>3, AppendProperties, LenProperties, AppendIsConcat, InOf
<1> HIDE DEF next
<1>7. tuner'[t] = next /\ \A l \in Tuning!Loops \ {t} : tuner'[l] = tuner[l]
  BY <1>1, PerfSays
<1>8. PerfTypes'
  <2>1. tuner' \in [Tuning!Loops -> {Tuning!Idle, Tuning!Ended} \cup Tuning!Doing \cup Tuning!Setting]
    BY <1>1, <1>5, PerfSays
  <2>2. Tuning!TypeOK'
    BY <1>1, <1>2, <2>1 DEF PerfTypes, Tuning!TypeOK
  <2> QED BY <1>1, <1>2, <1>6, <2>2 DEF PerfTypes
<1>9. Tuning!Hand(t)' = <<>>
  BY <1>5, <1>7 DEF Tuning!Hand
<1>10. Len(Tuning!Held(t)') = Len(Tuning!Held(t)) - 1 /\ Len(Tuning!Held(t)) \in Nat
  <2>1. Len(Tuning!Held(t)') = Len(Tuning!Hand(t)') + Len(toSend'[t]) /\ Len(toSend'[t]) \in Nat
    BY <1>8, HeldIsNext
  <2>2. Len(Tuning!Held(t)) = Len(Tuning!Hand(t)) + Len(toSend[t])
    BY <1>2, HeldIs
  <2>3. Len(<<a>>) = 1 /\ Len(<<>>) = 0 /\ toSend'[t] = toSend[t]
    BY <1>1
  <2> QED BY <1>3, <1>9, <2>1, <2>2, <2>3
<1>11. Tuning!In(Tuning!Held(t)) = Tuning!In(Tuning!Held(t)') \cup {a}
  <2>1. Tuning!In(Tuning!Held(t)') = Tuning!In(Tuning!Hand(t)') \cup Tuning!In(toSend'[t])
    BY <1>8, HeldIsNext
  <2>2. Tuning!In(Tuning!Held(t)) = Tuning!In(Tuning!Hand(t)) \cup Tuning!In(toSend[t])
    BY <1>2, HeldIs
  <2>3. Tuning!In(<<>>) = {} /\ Tuning!In(<<a>>) = {a}
    BY InOf
  <2>4. toSend'[t] = toSend[t]
    BY <1>1
  <2> QED BY <1>3, <1>9, <2>1, <2>2, <2>3, <2>4
<1>12. /\ SumHeld' = SumHeld - Len(Tuning!Held(t)) + Len(Tuning!Held(t)') /\ SumHeld \in Nat
       /\ \E rest : /\ AllHeld = rest \cup Tuning!In(Tuning!Held(t))
                    /\ AllHeld' = rest \cup Tuning!In(Tuning!Held(t)')
  BY <1>1, <1>2, <1>7, <1>8, OneHolds
<1>13. SumHeld' = SumHeld - 1 /\ SumHeld \in Nat
  BY <1>10, <1>12
<1>14. AllHeld = AllHeld' \cup {a}
  BY <1>11, <1>12
<1>15. ActionsPlaced'
  <2>1. /\ Tuning!In(tuningActions) \cup Tuning!In(tuningChan) \cup AllHeld = 1..Len(kindOf)
        /\ Len(tuningActions) + Len(tuningChan) + SumHeld = Len(kindOf)
    BY DEF PerfInv, ActionsPlaced
  <2>2. Tuning!In(tuningChan)' = Tuning!In(tuningChan)
    BY <1>1 DEF Tuning!In
  <2>3. Tuning!In(tuningActions)' = Tuning!In(tuningActions')
    BY DEF Tuning!In
  <2>4. Tuning!In(tuningActions)' \cup Tuning!In(tuningChan)' \cup AllHeld' = 1..Len(kindOf')
    BY <1>1, <1>6, <1>14, <2>1, <2>2, <2>3
  <2>5. Len(tuningActions') + Len(tuningChan') + SumHeld' = Len(kindOf')
    <3>1. Len(tuningChan) \in Nat /\ Len(kindOf) \in Nat
      BY PerfSays
    <3>2. Len(tuningChan') = Len(tuningChan) /\ Len(kindOf') = Len(kindOf)
      BY <1>1
    <3> QED BY <1>6, <1>13, <2>1, <3>1, <3>2
  <2> QED BY <2>4, <2>5 DEF ActionsPlaced
<1>16. LoopsStarted'
  <2>1. ASSUME NEW l \in Tuning!Loops, l > starts PROVE toSend'[l] = <<>> /\ tuner'[l] = Tuning!Ended
    <3>1. l # t
      BY <1>4, <2>1
    <3> QED BY <1>1, <1>7, <2>1, <3>1 DEF PerfInv, LoopsStarted
  <2> QED BY <1>1, <1>4, <2>1 DEF LoopsStarted
<1>17. InOrder'
  <2> SUFFICES ASSUME starts = 1
               PROVE  tuningActions' \o Tuning!Hand(1)' \o tuningChan \o toSend[1]
                        = tuningActions \o Tuning!Hand(1) \o tuningChan \o toSend[1]
    BY <1>1 DEF InOrder, PerfInv
  <2>1. t = 1
    BY <1>4
  <2>2. tuningActions' \o <<>> = tuningActions'
    BY <1>6, ConcatEmptySeq
  <2> QED BY <1>3, <1>6, <1>9, <2>1, <2>2
<1>18. /\ Tuning!Setters' = IF gc THEN Tuning!Setters \cup {t} ELSE Tuning!Setters
       /\ t \notin Tuning!Setters
  BY <1>1, <1>5, <1>7 DEF Tuning!Setters
<1>19. Cardinality(Tuning!Setters') = Cardinality(Tuning!Setters) + (IF gc THEN 1 ELSE 0)
  <2>1. CASE gc
    BY <1>18, <2>1, SettersFinite, FS_AddElement
  <2>2. CASE ~gc
    BY <1>18, <2>2, SettersFinite
  <2> QED BY <2>1, <2>2
<1>20. Cardinality(Raised') = Cardinality(Raised) + (IF gc THEN 1 ELSE 0)
  BY <1>1, <1>2, <1>3, RaisedGrows
<1>21. \A l \in Tuning!Loops : tuner'[l].at = "set" => tuner'[l] = tuner[l]
  BY <1>5, <1>7
<1>22. RaisesCounted'
  <2> DEFINE d == IF gc THEN 1 ELSE 0
             cs == Cardinality(Tuning!Setters)
             cr == Cardinality(Raised)
  <2>1. d \in Nat /\ cs \in Nat /\ cr \in Nat /\ procs \in Nat /\ procs' = procs /\ starts' = starts
    BY <1>1, PerfSays
  <2>2. Cardinality(Tuning!Setters') = cs + d /\ Cardinality(Raised') = cr + d
    BY <1>19, <1>20
  <2>3. /\ procs + cs <= cr /\ (starts = 1 => procs = cr - cs)
        /\ \A l \in Tuning!Loops : tuner[l].at = "set" =>
              tuner[l].read + cs <= cr /\ (starts = 1 => tuner[l].read = procs)
    BY DEF PerfInv, RaisesCounted
  <2>4. \A l \in Tuning!Loops : tuner[l].at = "set" => tuner[l].read \in Nat
    BY PerfSays DEF Tuning!Idle, Tuning!Ended, Tuning!Doing, Tuning!Setting
  <2>5. Cardinality(Tuning!Setters)' = Cardinality(Tuning!Setters')
    OBVIOUS
  <2> HIDE DEF d, cs, cr
  <2>6. /\ procs' + (cs + d) <= cr + d /\ (starts' = 1 => procs' = (cr + d) - (cs + d))
    BY <2>1, <2>3
  <2>7. ASSUME NEW l \in Tuning!Loops, tuner'[l].at = "set"
        PROVE  tuner'[l].read + (cs + d) <= cr + d /\ (starts' = 1 => tuner'[l].read = procs')
    <3>1. tuner'[l] = tuner[l]
      BY <1>21, <2>7
    <3>2. tuner[l].read + cs <= cr /\ (starts = 1 => tuner[l].read = procs) /\ tuner[l].read \in Nat
      BY <2>3, <2>4, <2>7, <3>1
    <3> QED BY <2>1, <3>1, <3>2
  <2> QED BY <2>2, <2>5, <2>6, <2>7 DEF RaisesCounted
<1> QED BY <1>8, <1>15, <1>16, <1>17, <1>22 DEF PerfInv
-----------------------------------------------------------------------------
\* A tuner between two steps of a raise, or at rest: it holds no action.
LEMMA EmptyHanded ==
    ASSUME PerfInv, NEW t \in Tuning!Loops, NEW to,
           tuner[t].at \notin {"execute", "ended"}, to.at # "execute",
           tuner' = [tuner EXCEPT ![t] = to],
           UNCHANGED <<starts, toSend, tuningChan, tuningActions, kindOf>>
    PROVE  /\ tuner'[t] = to /\ \A l \in Tuning!Loops \ {t} : tuner'[l] = tuner[l]
           /\ t <= starts /\ starts \in Nat /\ t \in Nat /\ t # 0 /\ starts # 0
           /\ ActionsPlaced' /\ LoopsStarted' /\ InOrder' /\ Raised' = Raised
<1>1. tuner'[t] = to /\ \A l \in Tuning!Loops \ {t} : tuner'[l] = tuner[l]
  BY PerfSays
<1>2. t <= starts /\ starts \in Nat /\ t \in Nat /\ t # 0 /\ starts # 0
  <2>1. tuner[t] # Tuning!Ended
    BY DEF Tuning!Ended
  <2> QED BY <2>1, BusyStarted
<1>3. \A l \in Tuning!Loops : Tuning!Hand(l)' = Tuning!Hand(l)
  BY <1>1 DEF Tuning!Hand
<1>4. \A l \in Tuning!Loops : Tuning!Held(l)' = Tuning!Held(l)
  BY <1>3 DEF Tuning!Held
<1>5. ActionsPlaced'
  BY <1>4, NoneMoves DEF PerfInv, ActionsPlaced, Tuning!In
<1>6. LoopsStarted'
  <2>1. ASSUME NEW l \in Tuning!Loops, l > starts PROVE toSend'[l] = <<>> /\ tuner'[l] = Tuning!Ended
    <3>1. l # t
      BY <1>2, <2>1
    <3> QED BY <1>1, <2>1, <3>1 DEF PerfInv, LoopsStarted
  <2> QED BY <1>2, <2>1 DEF LoopsStarted
<1>7. InOrder'
  <2> SUFFICES ASSUME starts = 1 PROVE Tuning!Hand(1)' = Tuning!Hand(1)
    BY DEF PerfInv, InOrder
  <2>1. 1 \in Tuning!Loops
    BY PerfSays DEF Tuning!Loops
  <2> QED BY <1>3, <2>1
<1>8. Raised' = Raised
  BY DEF Raised
<1> QED BY <1>1, <1>2, <1>5, <1>6, <1>7, <1>8

LEMMA PerfReadProcs ==
    ASSUME PerfInv, NEW t \in Tuning!Loops, Tuning!ReadProcs(t)
    PROVE  PerfInv'
<1> DEFINE to == [at |-> "set", action |-> tuner[t].action, read |-> procs]
<1>1. /\ tuner[t].at = "optimize" /\ tuner' = [tuner EXCEPT ![t] = to]
      /\ UNCHANGED <<enabled, starts, stopped, toSend, monitors, tuningChan, tuningActions, procs, kindOf>>
  BY DEF Tuning!ReadProcs
<1>2. to.at = "set" /\ to.read = procs /\ to \in Tuning!Setting
  <2>1. tuner[t] \in Tuning!Doing /\ procs \in 0..MaxActions
    BY <1>1, PerfSays DEF Tuning!Idle, Tuning!Ended, Tuning!Setting
  <2> QED BY <2>1 DEF Tuning!Doing, Tuning!Setting
<1> HIDE DEF to
<1>3. /\ tuner'[t] = to /\ \A l \in Tuning!Loops \ {t} : tuner'[l] = tuner[l]
      /\ ActionsPlaced' /\ LoopsStarted' /\ InOrder' /\ Raised' = Raised
  BY <1>1, <1>2, EmptyHanded
<1>4. PerfTypes'
  <2>1. tuner' \in [Tuning!Loops -> {Tuning!Idle, Tuning!Ended} \cup Tuning!Doing \cup Tuning!Setting]
    BY <1>1, <1>2, PerfSays
  <2>2. Tuning!TypeOK'
    BY <1>1, <2>1 DEF PerfInv, PerfTypes, Tuning!TypeOK
  <2> QED BY <1>1, <2>2 DEF PerfInv, PerfTypes
<1>5. Tuning!Setters' = Tuning!Setters
  BY <1>1, <1>2, <1>3 DEF Tuning!Setters
<1>6. RaisesCounted'
  <2>1. ASSUME NEW l \in Tuning!Loops, tuner'[l].at = "set"
        PROVE  /\ tuner'[l].read + Cardinality(Tuning!Setters) <= Cardinality(Raised)
               /\ starts = 1 => tuner'[l].read = procs
    <3>1. CASE l = t
      BY <1>2, <1>3, <3>1 DEF PerfInv, RaisesCounted
    <3>2. CASE l # t
      <4>1. tuner'[l] = tuner[l]
        BY <1>3, <3>2
      <4> QED BY <2>1, <4>1 DEF PerfInv, RaisesCounted
    <3> QED BY <3>1, <3>2
  <2> QED BY <1>1, <1>3, <1>5, <2>1 DEF PerfInv, RaisesCounted
<1> QED BY <1>3, <1>4, <1>6 DEF PerfInv

LEMMA PerfSetProcs ==
    ASSUME PerfInv, NEW t \in Tuning!Loops, Tuning!SetProcs(t)
    PROVE  PerfInv'
<1> DEFINE rd == tuner[t].read
           cs == Cardinality(Tuning!Setters)
           cr == Cardinality(Raised)
<1>1. /\ tuner[t].at = "set" /\ procs' = rd + 1 /\ tuner' = [tuner EXCEPT ![t] = Tuning!Idle]
      /\ UNCHANGED <<enabled, starts, stopped, toSend, monitors, tuningChan, tuningActions, kindOf>>
  BY DEF Tuning!SetProcs
<1>2. Tuning!Idle.at = "idle"
  BY DEF Tuning!Idle
<1>3. /\ tuner'[t] = Tuning!Idle /\ \A l \in Tuning!Loops \ {t} : tuner'[l] = tuner[l]
      /\ t <= starts /\ starts \in Nat /\ t \in Nat /\ t # 0
      /\ ActionsPlaced' /\ LoopsStarted' /\ InOrder' /\ Raised' = Raised
  BY <1>1, <1>2, EmptyHanded
<1>4. rd \in Nat
  BY <1>1, PerfSays DEF Tuning!Idle, Tuning!Ended, Tuning!Doing, Tuning!Setting
<1>5. /\ cs \in Nat /\ cr \in Nat /\ procs \in Nat /\ rd + cs <= cr /\ (starts = 1 => rd = procs)
      /\ starts = 1 => procs = cr - cs
  BY <1>1, PerfSays DEF PerfInv, RaisesCounted
<1>6. Cardinality(Tuning!Setters') = cs - 1 /\ cs >= 1
  <2>1. Tuning!Setters' = Tuning!Setters \ {t} /\ t \in Tuning!Setters
    BY <1>1, <1>2, <1>3 DEF Tuning!Setters
  <2>2. Cardinality(Tuning!Setters') = cs - 1
    BY <2>1, SettersFinite, FS_RemoveElement
  <2>3. cs # 0
    BY <2>1, SettersFinite, FS_EmptySet
  <2> QED BY <1>5, <2>2, <2>3
<1> HIDE DEF rd
<1>7. PerfTypes'
  <2>1. tuner' \in [Tuning!Loops -> {Tuning!Idle, Tuning!Ended} \cup Tuning!Doing \cup Tuning!Setting]
    BY <1>1, PerfSays
  <2>2. cr <= MaxActions /\ MaxActions \in Nat
    <3>1. /\ cr <= Len(tuningActions) /\ Len(tuningActions) <= Len(kindOf) /\ Len(kindOf) <= MaxActions
          /\ Len(tuningActions) \in Nat /\ Len(kindOf) \in Nat /\ MaxActions \in Nat
      BY PerfSays
    <3> HIDE DEF cr
    <3> QED BY <1>5, <3>1
  <2>3. procs' \in 0..MaxActions
    <3> HIDE DEF cr, cs
    <3> QED BY <1>1, <1>4, <1>5, <1>6, <2>2
  <2>4. Tuning!TypeOK'
    BY <1>1, <2>1, <2>3 DEF PerfInv, PerfTypes, Tuning!TypeOK
  <2> QED BY <1>1, <2>4 DEF PerfInv, PerfTypes
<1>8. RaisesCounted'
  <2>1. ASSUME NEW l \in Tuning!Loops, tuner'[l].at = "set"
        PROVE  l # t /\ tuner[l].at = "set" /\ tuner'[l] = tuner[l]
    BY <1>2, <1>3, <2>1
  <2>2. ASSUME NEW l \in Tuning!Loops, tuner'[l].at = "set"
        PROVE  tuner'[l].read + (cs - 1) <= cr
    <3>1. tuner[l].read + cs <= cr
      BY <2>1, <2>2 DEF PerfInv, RaisesCounted
    <3>2. tuner[l].read \in Nat
      BY <2>1, <2>2, PerfSays DEF Tuning!Idle, Tuning!Ended, Tuning!Doing, Tuning!Setting
    <3>3. tuner'[l].read = tuner[l].read
      BY <2>1, <2>2
    <3> HIDE DEF cs, cr
    <3> QED BY <1>5, <3>1, <3>2, <3>3
  <2>3. ASSUME NEW l \in Tuning!Loops, tuner'[l].at = "set" PROVE starts # 1
    <3>1. l # t /\ tuner[l].at = "set"
      BY <2>1, <2>3
    <3>2. l <= starts /\ l \in Nat /\ l # 0
      <4>1. tuner[l] # Tuning!Ended
        BY <3>1 DEF Tuning!Ended
      <4> QED BY <4>1, BusyStarted
    <3> QED BY <1>3, <3>1, <3>2
  <2>4. procs' + (cs - 1) <= cr /\ (starts = 1 => procs' = cr - (cs - 1))
    <3> HIDE DEF cs, cr
    <3> QED BY <1>1, <1>4, <1>5, <1>6
  <2>5. Cardinality(Tuning!Setters)' = cs - 1 /\ Cardinality(Raised)' = cr /\ starts' = starts
    BY <1>1, <1>3, <1>6
  <2> HIDE DEF cs, cr
  <2> QED BY <2>2, <2>3, <2>4, <2>5 DEF RaisesCounted
<1> QED BY <1>3, <1>7, <1>8 DEF PerfInv

LEMMA PerfTunerExits ==
    ASSUME PerfInv, NEW t \in Tuning!Loops, Tuning!TunerExits(t)
    PROVE  PerfInv'
<1>1. /\ tuner[t] = Tuning!Idle /\ tuner' = [tuner EXCEPT ![t] = Tuning!Ended]
      /\ UNCHANGED <<enabled, starts, stopped, toSend, monitors, tuningChan, tuningActions, procs, kindOf>>
  BY DEF Tuning!TunerExits
<1>2. Tuning!Idle.at = "idle" /\ Tuning!Ended.at = "ended"
  BY DEF Tuning!Idle, Tuning!Ended
<1>3. /\ tuner'[t] = Tuning!Ended /\ \A l \in Tuning!Loops \ {t} : tuner'[l] = tuner[l]
      /\ ActionsPlaced' /\ LoopsStarted' /\ InOrder' /\ Raised' = Raised
  BY <1>1, <1>2, EmptyHanded
<1>4. PerfTypes'
  <2>1. tuner' \in [Tuning!Loops -> {Tuning!Idle, Tuning!Ended} \cup Tuning!Doing \cup Tuning!Setting]
    BY <1>1, PerfSays
  <2>2. Tuning!TypeOK'
    BY <1>1, <2>1 DEF PerfInv, PerfTypes, Tuning!TypeOK
  <2> QED BY <1>1, <2>2 DEF PerfInv, PerfTypes
<1>5. Tuning!Setters' = Tuning!Setters
  BY <1>1, <1>2, <1>3 DEF Tuning!Setters
<1>6. \A l \in Tuning!Loops : tuner'[l].at = "set" => tuner'[l] = tuner[l]
  BY <1>2, <1>3
<1>7. RaisesCounted'
  BY <1>1, <1>3, <1>5, <1>6 DEF PerfInv, RaisesCounted
<1> QED BY <1>3, <1>4, <1>7 DEF PerfInv

LEMMA PerfStep == PerfInv /\ [Tuning!Next]_(Tuning!vars) => PerfInv'
<1> SUFFICES ASSUME PerfInv, [Tuning!Next]_(Tuning!vars) PROVE PerfInv'
  OBVIOUS
<1>1. CASE Tuning!Start
  BY <1>1, PerfStart
<1>2. CASE Tuning!Stop \/ Tuning!Enable(TRUE) \/ Tuning!Enable(FALSE) \/ UNCHANGED Tuning!vars
  BY <1>2, PerfQuiet
<1>3. ASSUME NEW l \in Tuning!Loops,
             \/ \E exceeded \in Tuning!Exceeded : Tuning!CheckThresholds(l, exceeded)
             \/ Tuning!SendAction(l) \/ Tuning!MonitorExits(l)
             \/ Tuning!ReceiveAction(l) \/ Tuning!RecordAction(l) \/ Tuning!ReadProcs(l)
             \/ Tuning!SetProcs(l) \/ Tuning!TunerExits(l)
      PROVE  PerfInv'
  <2>1. CASE \E exceeded \in Tuning!Exceeded : Tuning!CheckThresholds(l, exceeded)
    BY <2>1, PerfChecks
  <2>2. CASE Tuning!SendAction(l)
    BY <2>2, PerfSends
  <2>3. CASE Tuning!MonitorExits(l)
    BY <2>3, PerfQuiet
  <2>4. CASE Tuning!ReceiveAction(l)
    BY <2>4, PerfReceives
  <2>5. CASE Tuning!RecordAction(l)
    BY <2>5, PerfRecords
  <2>6. CASE Tuning!ReadProcs(l)
    BY <2>6, PerfReadProcs
  <2>7. CASE Tuning!SetProcs(l)
    BY <2>7, PerfSetProcs
  <2>8. CASE Tuning!TunerExits(l)
    BY <2>8, PerfTunerExits
  <2> QED BY <1>3, <2>1, <2>2, <2>3, <2>4, <2>5, <2>6, <2>7, <2>8
<1> QED BY <1>1, <1>2, <1>3 DEF Tuning!Next

LEMMA PerfInvOrder == PerfInv => Tuning!TypeOK /\ Tuning!ActionsInOrder
<1> SUFFICES ASSUME PerfInv PROVE Tuning!TypeOK /\ Tuning!ActionsInOrder
  OBVIOUS
<1>1. Tuning!Done("gc") = Cardinality(Raised) /\ Tuning!Cardinality(Tuning!Setters) = Cardinality(Tuning!Setters)
  BY TuningCounts DEF Tuning!Done, Raised
<1>2. Tuning!Cardinality(UNION {{l} \X (1..Len(Tuning!Held(l))) : l \in Tuning!Loops}) = SumHeld
  <2>1. \A l \in Tuning!Loops : Lens[l] = Len(Tuning!Held(l))
    BY DEF Lens
  <2>2. UNION {{l} \X (1..Len(Tuning!Held(l))) : l \in Tuning!Loops} = PairsOf(Lens, Tuning!Loops)
    BY <2>1 DEF PairsOf, Pairs
  <2> QED BY <2>2, TuningCounts DEF SumHeld
<1>3. procs <= Cardinality(Raised)
  <2> DEFINE cs == Cardinality(Tuning!Setters)
             cr == Cardinality(Raised)
  <2>1. procs + cs <= cr /\ procs \in Nat /\ cs \in Nat /\ cr \in Nat
    BY PerfSays DEF PerfInv, RaisesCounted
  <2> HIDE DEF cs, cr
  <2>2. procs <= cr
    BY <2>1
  <2> QED BY <2>2 DEF cr
<1>4. Tuning!ActionsInOrder
  BY <1>1, <1>2, <1>3 DEF PerfInv, ActionsPlaced, InOrder, RaisesCounted, AllHeld, Tuning!ActionsInOrder
<1> QED BY <1>4 DEF PerfInv, PerfTypes
-----------------------------------------------------------------------------
LEMMA QuotasHolds == SuiteSpec => []QuotasInv
<1>1. SuiteInit => QuotasInv
  BY QuotasInit DEF SuiteInit
<1>2. QuotasInv /\ [SuiteNext]_suiteVars => QuotasInv'
  <2>1. [SuiteNext]_suiteVars => [Quotas!Next]_(Quotas!vars)
    BY DEF SuiteNext, suiteVars, quotasVars, Quotas!vars
  <2> QED BY <2>1, QuotasStep
<1> QED BY <1>1, <1>2, PTL DEF SuiteSpec

LEMMA AdaptiveHolds == SuiteSpec => []AdaptiveInv
<1>1. SuiteInit => AdaptiveInv
  BY AdaptiveInit DEF SuiteInit
<1>2. AdaptiveInv /\ [SuiteNext]_suiteVars => AdaptiveInv'
  <2>1. [SuiteNext]_suiteVars => [Adaptive!Next]_(Adaptive!vars)
    BY DEF SuiteNext, suiteVars, adaptiveVars, Adaptive!vars, Adaptive!requestVars, Adaptive!tuningVars
  <2> QED BY <2>1, AdaptiveStep
<1> QED BY <1>1, <1>2, PTL DEF SuiteSpec

LEMMA PerfHolds == SuiteSpec => []PerfInv
<1>1. SuiteInit => PerfInv
  BY PerfInit DEF SuiteInit
<1>2. PerfInv /\ [SuiteNext]_suiteVars => PerfInv'
  <2>1. [SuiteNext]_suiteVars => [Tuning!Next]_(Tuning!vars)
    BY DEF SuiteNext, suiteVars, perfVars, Tuning!vars
  <2> QED BY <2>1, PerfStep
<1> QED BY <1>1, <1>2, PTL DEF SuiteSpec

(* core/performance: quotas that were set one at a time never add up to    *)
(* more than the machine; a result is booked to the earliest decision of   *)
(* its name; a tuning action is neither lost nor executed twice on its way *)
(* from monitor through channel to tuner, a single pair of loops keeps the *)
(* order, and GOMAXPROCS is raised no more often than gc actions were      *)
(* executed.                                                               *)
THEOREM TuningHoldsHolds == SuiteSpec => []TuningHolds
<1>1. QuotasInv /\ AdaptiveInv /\ PerfInv => TuningHolds
  BY QuotasInvFit, AdaptiveInvFind, PerfInvOrder DEF TuningHolds
<1> QED BY <1>1, QuotasHolds, AdaptiveHolds, PerfHolds, PTL
=============================================================================
