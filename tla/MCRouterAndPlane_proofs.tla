---------------------- MODULE MCRouterAndPlane_proofs ----------------------
(***************************************************************************)
(* Proofs about RouterQueue: every request is in one place, and results    *)
(* and callers match in number, for any callers, workers and calls.  And   *)
(* about ControlPlane: its state is true of what it has started, however   *)
(* often it is started and stopped.                                        *)
(***************************************************************************)
EXTENDS MCRouterAndPlane, TLAPS, SequenceTheorems, FiniteSetTheorems

(* The elements of a channel as requests come and go, and how many they    *)
(* are.  In a channel without repetitions there are as many as its length. *)
Distinct(s) == Cardinality(Elements(s)) = Len(s)

LEMMA ElementsFinite ==
    ASSUME NEW s \in Seq(Requests)
    PROVE  /\ Elements(s) \subseteq Requests
           /\ IsFiniteSet(Elements(s)) /\ Cardinality(Elements(s)) <= Len(s)
<1>1. Len(s) \in Nat /\ s \in [1..Len(s) -> Elements(s)]
  BY LenProperties DEF Elements
<1>2. s \in Surjection(1..Len(s), Elements(s))
  BY <1>1 DEF Surjection, Elements
<1>3. IsFiniteSet(1..Len(s)) /\ Cardinality(1..Len(s)) = Len(s)
  BY <1>1, FS_Interval
<1>4. Elements(s) \subseteq Requests
  BY ElementOfSeq DEF Elements
<1> QED BY <1>2, <1>3, <1>4, FS_Surjection

LEMMA ElementsAppend ==
    ASSUME NEW s \in Seq(Requests), NEW r \in Requests
    PROVE  /\ Append(s, r) \in Seq(Requests) /\ Len(Append(s, r)) = Len(s) + 1
           /\ Elements(Append(s, r)) = Elements(s) \cup {r}
           /\ Distinct(s) /\ r \notin Elements(s) => Distinct(Append(s, r))
<1> DEFINE t == Append(s, r)
<1>1. /\ Len(s) \in Nat /\ t \in Seq(Requests) /\ Len(t) = Len(s) + 1
      /\ \A i \in 1..Len(s) : t[i] = s[i]
      /\ t[Len(s) + 1] = r
  BY AppendProperties, LenProperties
<1>2. Elements(t) = Elements(s) \cup {r}
  BY <1>1 DEF Elements
<1>3. ASSUME Distinct(s), r \notin Elements(s) PROVE Distinct(t)
  <2>1. IsFiniteSet(Elements(s))
    BY ElementsFinite
  <2>2. Cardinality(Elements(s) \cup {r}) = Cardinality(Elements(s)) + 1
    BY <2>1, <1>3, FS_AddElement
  <2> QED BY <1>1, <1>2, <1>3, <2>2 DEF Distinct
<1> QED BY <1>1, <1>2, <1>3

LEMMA ElementsTail ==
    ASSUME NEW s \in Seq(Requests), s # <<>>
    PROVE  /\ Tail(s) \in Seq(Requests) /\ Len(Tail(s)) = Len(s) - 1
           /\ Len(s) \in Nat \ {0} /\ Head(s) \in Requests /\ Head(s) \in Elements(s)
           /\ Elements(s) = Elements(Tail(s)) \cup {Head(s)}
           /\ Distinct(s) => /\ Distinct(Tail(s))
                             /\ Elements(Tail(s)) = Elements(s) \ {Head(s)}
<1> DEFINE t == Tail(s)
           h == Head(s)
<1>1. /\ t \in Seq(Requests) /\ Len(t) = Len(s) - 1 /\ h \in Requests
      /\ \A i \in 1..Len(t) : t[i] = s[i + 1]
  BY HeadTailProperties
<1>2. Len(s) \in Nat \ {0} /\ h = s[1]
  BY EmptySeq, LenProperties
<1>3. h \in Elements(s)
  BY <1>2 DEF Elements
<1>4. Elements(s) = Elements(t) \cup {h}
  <2>1. ASSUME NEW i \in 1..Len(s) PROVE s[i] \in Elements(t) \cup {h}
    <3>1. CASE i = 1 BY <3>1, <1>2
    <3>2. CASE i # 1
      <4>1. i - 1 \in 1..Len(t) /\ t[i - 1] = s[i]
        BY <3>2, <1>1, <1>2
      <4> QED BY <4>1 DEF Elements
    <3> QED BY <3>1, <3>2
  <2>2. ASSUME NEW i \in 1..Len(t) PROVE t[i] \in Elements(s)
    <3>1. i + 1 \in 1..Len(s) /\ t[i] = s[i + 1]
      BY <1>1, <1>2
    <3> QED BY <3>1 DEF Elements
  <2> QED BY <2>1, <2>2, <1>3 DEF Elements
<1>5. ASSUME Distinct(s) PROVE Distinct(t) /\ Elements(t) = Elements(s) \ {h}
  <2>1. /\ IsFiniteSet(Elements(t)) /\ Cardinality(Elements(t)) \in Nat
        /\ Cardinality(Elements(t)) <= Len(t)
    BY <1>1, ElementsFinite, FS_CardinalityType
  <2>2. Cardinality(Elements(s)) = IF h \in Elements(t) THEN Cardinality(Elements(t))
                                   ELSE Cardinality(Elements(t)) + 1
    BY <2>1, <1>4, FS_AddElement
  <2>3. h \notin Elements(t) /\ Cardinality(Elements(t)) = Len(t)
    BY <1>1, <1>2, <1>5, <2>1, <2>2 DEF Distinct
  <2> QED BY <2>3, <1>4 DEF Distinct
<1> QED BY <1>1, <1>2, <1>3, <1>4, <1>5

LEMMA EmptyChannel ==
    <<>> \in Seq(Requests) /\ Len(<<>>) = 0 /\ Elements(<<>>) = {} /\ Distinct(<<>>)
<1>1. <<>> \in Seq(Requests) /\ Len(<<>>) = 0
  BY EmptySeq
<1>2. Elements(<<>>) = {}
  BY <1>1 DEF Elements
<1> QED BY <1>1, <1>2, FS_EmptySet DEF Distinct
-----------------------------------------------------------------------------
(* The inductive invariant. A request is distinct from those of earlier    *)
(* calls, which are all that can be found in the channels, with the        *)
(* workers and among the results that are gone: what a caller is about to  *)
(* submit is nowhere yet.                                                  *)
Placed == Elements(requestQueue) \cup InWork \cup Elements(resultQueue) \cup gone

PlacedWereSubmitted ==
    /\ \A r \in Placed : /\ r[2] <= calls[r[1]]
                         /\ at[r[1]] = "submit" => r[2] # calls[r[1]]
    /\ \A c \in Callers : at[c] = "submit" => calls[c] > 0

IInv == TypeOK /\ ProcessedOnce /\ BacklogIsAbandoned /\ PlacedWereSubmitted

WorkDistinct == \A v, w \in Workers : busy[v] = busy[w] /\ busy[v] # None => v = w

(* What the workers' steps do to the requests in work, and the callers'    *)
(* steps to the callers that wait.                                         *)
LEMMA FiniteSets ==
    ASSUME TypeOK
    PROVE  /\ IsFiniteSet(InWork) /\ Cardinality(InWork) \in Nat /\ InWork \subseteq Requests
           /\ IsFiniteSet(Awaiting) /\ Cardinality(Awaiting) \in Nat
<1> DEFINE Busy == {busy[w] : w \in Workers}
<1>1. busy \in Surjection(Workers, Busy)
  BY DEF TypeOK, Surjection
<1>2. IsFiniteSet(Busy)
  BY <1>1, RouterAssumption, FS_Surjection DEF RouterAssumption
<1>3. InWork \in SUBSET Busy /\ InWork \subseteq Requests
  BY DEF InWork, TypeOK
<1>4. Awaiting \in SUBSET Callers
  BY DEF Awaiting
<1> QED
  BY <1>2, <1>3, <1>4, RouterAssumption, FS_Subset, FS_CardinalityType DEF RouterAssumption

LEMMA WorkTaken ==
    ASSUME TypeOK, WorkDistinct, NEW w \in Workers, busy[w] = None,
           NEW r \in Requests, r \notin InWork, busy' = [busy EXCEPT ![w] = r]
    PROVE  /\ WorkDistinct' /\ InWork' = InWork \cup {r}
           /\ Cardinality(InWork') = Cardinality(InWork) + 1
<1>1. r # None
  BY RouterAssumption DEF RouterAssumption
<1>2. InWork' = InWork \cup {r}
  BY <1>1 DEF TypeOK, InWork
<1>3. WorkDistinct'
  <2> SUFFICES ASSUME NEW u \in Workers, NEW v \in Workers,
                      busy'[u] = busy'[v], busy'[u] # None
               PROVE  u = v
    BY DEF WorkDistinct
  <2>1. \A x \in Workers \ {w} : busy'[x] = busy[x] /\ busy[x] # r
    BY <1>1 DEF TypeOK, InWork
  <2> QED BY <2>1 DEF TypeOK, WorkDistinct
<1> QED BY <1>2, <1>3, FiniteSets, FS_AddElement

LEMMA WorkLeft ==
    ASSUME TypeOK, WorkDistinct, NEW w \in Workers, busy[w] # None,
           busy' = [busy EXCEPT ![w] = None]
    PROVE  /\ WorkDistinct' /\ InWork' = InWork \ {busy[w]} /\ busy[w] \in InWork
           /\ Cardinality(InWork') = Cardinality(InWork) - 1
<1>1. busy[w] \in InWork
  BY DEF InWork
<1>2. InWork' = InWork \ {busy[w]}
  <2>1. \A v \in Workers : busy'[v] = IF v = w THEN None ELSE busy[v]
    BY DEF TypeOK
  <2>2. \A v \in Workers \ {w} : busy[v] = busy[w] => FALSE
    BY DEF WorkDistinct
  <2> QED BY <2>1, <2>2 DEF InWork
<1>3. WorkDistinct'
  BY DEF TypeOK, WorkDistinct
<1> QED BY <1>1, <1>2, <1>3, FiniteSets, FS_RemoveElement

LEMMA CallerMoves ==
    ASSUME TypeOK, NEW c \in Callers, NEW place \in {"outside", "submit", "await"},
           Goto(c, place)
    PROVE  /\ at' \in [Callers -> {"outside", "submit", "await"}] /\ at'[c] = place
           /\ \A d \in Callers \ {c} : at'[d] = at[d]
           /\ at[c] = "await" /\ place # "await"
                => Cardinality(Awaiting') = Cardinality(Awaiting) - 1
           /\ at[c] # "await" /\ place = "await"
                => Cardinality(Awaiting') = Cardinality(Awaiting) + 1
           /\ at[c] # "await" /\ place # "await"
                => Cardinality(Awaiting') = Cardinality(Awaiting)
<1>1. /\ at' \in [Callers -> {"outside", "submit", "await"}] /\ at'[c] = place
      /\ \A d \in Callers \ {c} : at'[d] = at[d]
  BY DEF TypeOK, Goto
<1>2. Awaiting' = IF place = "await" THEN Awaiting \cup {c} ELSE Awaiting \ {c}
  BY <1>1 DEF Awaiting
<1>3. c \in Awaiting <=> at[c] = "await"
  BY DEF Awaiting
<1> QED
  BY <1>1, <1>2, <1>3, FiniteSets, FS_AddElement, FS_RemoveElement

(* A variable that does not change keeps its type; and requests that are   *)
(* where they were are processed once.                                     *)
LEMMA OthersTyped ==
    ASSUME TypeOK, UNCHANGED <<requestQueue, resultQueue>>,
           calls' = calls \/ calls' \in [Callers -> Nat],
           at' = at \/ at' \in [Callers -> {"outside", "submit", "await"}],
           busy' = busy \/ busy' \in [Workers -> Requests \cup {None}],
           exited' = exited \/ exited' \subseteq Workers,
           cancelled' = cancelled \/ cancelled' \in BOOLEAN,
           abandoned' = abandoned \/ abandoned' \in Nat,
           dropped' = dropped \/ dropped' \in Nat,
           gone' = gone \/ gone' \subseteq Requests
    PROVE  TypeOK'
BY Zenon DEF TypeOK

LEMMA OnceKept ==
    ASSUME ProcessedOnce, UNCHANGED <<requestQueue, resultQueue, busy, gone>>
    PROVE  ProcessedOnce'
BY Zenon DEF ProcessedOnce, InWork

LEMMA OneMoreEach ==
    \A i, j, k, l, m, n \in Nat : i + j + k + l = m + n => (i + 1) + j + k + l = (m + 1) + n
OBVIOUS
-----------------------------------------------------------------------------
LEMMA InductiveInit == Init => IInv
<1> SUFFICES ASSUME Init PROVE IInv
  OBVIOUS
<1> USE DEF Init
<1>1. Capacity \in Nat
  BY RouterAssumption, FS_CardinalityType DEF RouterAssumption, Capacity
<1>2. TypeOK
  <2>1. ASSUME NEW q, q = <<>> PROVE q \in Seq(Requests) /\ Len(q) <= Capacity
    BY <1>1, <2>1, EmptyChannel
  <2>2. /\ requestQueue \in Seq(Requests) /\ Len(requestQueue) <= Capacity
        /\ resultQueue \in Seq(Requests) /\ Len(resultQueue) <= Capacity
    BY <2>1
  <2>3. /\ calls \in [Callers -> Nat] /\ at \in [Callers -> {"outside", "submit", "await"}]
        /\ busy \in [Workers -> Requests \cup {None}] /\ exited \subseteq Workers
        /\ cancelled \in BOOLEAN /\ abandoned \in Nat /\ dropped \in Nat
        /\ gone \subseteq Requests
    OBVIOUS
  <2> QED BY <2>2, <2>3 DEF TypeOK
<1>3. InWork = {} /\ Awaiting = {} /\ Cardinality({}) = 0
  BY FS_EmptySet DEF InWork, Awaiting
<1>4. ProcessedOnce
  BY <1>3, EmptyChannel DEF ProcessedOnce, Distinct
<1>5. BacklogIsAbandoned
  BY <1>3, EmptyChannel DEF BacklogIsAbandoned
<1>6. PlacedWereSubmitted
  BY <1>3, EmptyChannel DEF PlacedWereSubmitted, Placed
<1> QED BY <1>2, <1>4, <1>5, <1>6 DEF IInv

LEMMA InductiveStep == IInv /\ [Next]_vars => IInv'
<1> SUFFICES ASSUME IInv, [Next]_vars PROVE IInv'
  OBVIOUS
<1> USE DEF IInv
<1>0. /\ Capacity \in Nat /\ Len(requestQueue) \in Nat /\ Len(resultQueue) \in Nat
      /\ requestQueue \in Seq(Requests) /\ resultQueue \in Seq(Requests)
      /\ Distinct(requestQueue) /\ Distinct(resultQueue) /\ WorkDistinct
      /\ Cardinality(InWork) \in Nat /\ Cardinality(Awaiting) \in Nat
      /\ abandoned \in Nat /\ dropped \in Nat /\ Placed \subseteq Requests
  <2>1. Placed \subseteq Requests
    BY ElementsFinite, FiniteSets DEF TypeOK, Placed
  <2> QED
  BY <2>1, RouterAssumption, FS_CardinalityType, LenProperties, FiniteSets
  DEF RouterAssumption, Capacity, TypeOK, ProcessedOnce, Distinct, WorkDistinct
<1>1. ASSUME NEW c \in Callers, Call(c) PROVE IInv'
  <2>0. Goto(c, "submit") /\ at[c] = "outside" /\ calls' = [calls EXCEPT ![c] = @ + 1]
        /\ UNCHANGED <<requestQueue, resultQueue, busy, exited, cancelled,
                       abandoned, dropped, gone>>
    BY <1>1 DEF Call
  <2>1. TypeOK'
    <3>1. calls' \in [Callers -> Nat] /\ at' \in [Callers -> {"outside", "submit", "await"}]
      BY <2>0, CallerMoves DEF TypeOK
    <3> QED BY <2>0, <3>1, OthersTyped
  <2>2. UNCHANGED <<InWork, Placed>>
    BY <2>0 DEF InWork, Placed, Elements
  <2>3. ProcessedOnce'
    BY <2>0, OnceKept
  <2>4. BacklogIsAbandoned'
    BY <2>0, <2>2, CallerMoves DEF BacklogIsAbandoned
  <2>5. PlacedWereSubmitted'
    <3>1. ASSUME NEW r \in Placed
          PROVE  r[2] <= calls'[r[1]] /\ (at'[r[1]] = "submit" => r[2] # calls'[r[1]])
      <4>1. r[1] \in Callers /\ r[2] \in Nat
        BY <1>0 DEF Requests
      <4>2. CASE r[1] = c
        BY <2>0, <4>1, <4>2 DEF PlacedWereSubmitted, TypeOK
      <4>3. CASE r[1] # c
        BY <2>0, <4>1, <4>3, CallerMoves DEF PlacedWereSubmitted, TypeOK
      <4> QED BY <4>2, <4>3
    <3>2. \A d \in Callers : at'[d] = "submit" => calls'[d] > 0
      BY <2>0, CallerMoves DEF PlacedWereSubmitted, TypeOK
    <3> QED BY <2>2, <3>1, <3>2 DEF PlacedWereSubmitted
  <2> QED BY <2>1, <2>3, <2>4, <2>5
<1>2. ASSUME NEW c \in Callers, Submit(c) PROVE IInv'
  <2>0. /\ Goto(c, "await") /\ at[c] = "submit" /\ Len(requestQueue) < Capacity
        /\ requestQueue' = Append(requestQueue, Current(c))
        /\ UNCHANGED <<resultQueue, calls, busy, exited, cancelled,
                       abandoned, dropped, gone>>
    BY <1>2 DEF Submit
  <2>1. Current(c) \in Requests /\ Current(c) \notin Placed
    <3>1. calls[c] \in Nat \ {0}
      BY <2>0 DEF TypeOK, PlacedWereSubmitted
    <3>2. Current(c)[1] = c /\ Current(c)[2] = calls[c]
      BY DEF Current
    <3> QED BY <2>0, <3>1, <3>2 DEF PlacedWereSubmitted, Current, Requests
  <2>2. /\ requestQueue' \in Seq(Requests) /\ Len(requestQueue') = Len(requestQueue) + 1
        /\ Elements(requestQueue') = Elements(requestQueue) \cup {Current(c)}
        /\ Distinct(requestQueue')
    BY <1>0, <2>0, <2>1, ElementsAppend DEF Placed
  <2>3. TypeOK'
    BY <1>0, <2>0, <2>2, CallerMoves DEF TypeOK
  <2>4. /\ UNCHANGED InWork /\ Elements(resultQueue)' = Elements(resultQueue)
        /\ Placed' = Placed \cup {Current(c)}
    BY <2>0, <2>2 DEF InWork, Placed, Elements
  <2>5. ProcessedOnce'
    BY <1>0, <2>0, <2>1, <2>2, <2>4 DEF ProcessedOnce, Distinct, Placed
  <2>6. BacklogIsAbandoned'
    <3>1. Cardinality(Awaiting') = Cardinality(Awaiting) + 1
      BY <2>0, CallerMoves
    <3>2. /\ Cardinality(InWork') = Cardinality(InWork)
          /\ Len(resultQueue') = Len(resultQueue)
          /\ Len(requestQueue') = Len(requestQueue) + 1
          /\ dropped' = dropped /\ abandoned' = abandoned
      BY <2>0, <2>2, <2>4
    <3>3. /\ Len(requestQueue) \in Nat /\ Len(resultQueue) \in Nat
          /\ Cardinality(InWork) \in Nat /\ Cardinality(Awaiting) \in Nat
          /\ abandoned \in Nat /\ dropped \in Nat
      BY <1>0
    <3> QED BY <3>1, <3>2, <3>3, OneMoreEach, SMTT(60) DEF BacklogIsAbandoned
  <2>7. PlacedWereSubmitted'
    <3>1. ASSUME NEW r \in Placed'
          PROVE  r[2] <= calls'[r[1]] /\ (at'[r[1]] = "submit" => r[2] # calls'[r[1]])
      <4>1. r \in Requests /\ r[1] \in Callers /\ r[2] \in Nat
        BY <1>0, <2>1, <2>4 DEF Requests
      <4>2. CASE r \in Placed
        <5>1. /\ at'[c] = "await" /\ \A d \in Callers \ {c} : at'[d] = at[d]
              /\ calls' = calls
          BY <2>0, CallerMoves
        <5>2. r[2] <= calls[r[1]] /\ (at[r[1]] = "submit" => r[2] # calls[r[1]])
          BY <4>2 DEF PlacedWereSubmitted
        <5> QED BY <4>1, <5>1, <5>2
      <4>3. CASE r = Current(c)
        <5>1. r = <<c, calls[c]>>
          BY <4>3 DEF Current
        <5>2. r[1] = c /\ r[2] = calls[c]
          BY <5>1
        <5>3. calls[c] \in Nat /\ calls' = calls
          BY <2>0 DEF TypeOK
        <5>4. at'[c] = "await"
          BY <2>0, CallerMoves
        <5> QED BY <5>2, <5>3, <5>4
      <4> QED BY <2>4, <4>2, <4>3
    <3>2. \A d \in Callers : at'[d] = "submit" => calls'[d] > 0
      BY <2>0, CallerMoves DEF PlacedWereSubmitted, TypeOK
    <3> QED BY <3>1, <3>2 DEF PlacedWereSubmitted
  <2> QED BY <2>3, <2>5, <2>6, <2>7
<1>3. ASSUME NEW c \in Callers, SubmitTimeout(c) \/ ResultTimeout(c) PROVE IInv'
  <2>0. /\ Goto(c, "outside") /\ at[c] \in {"submit", "await"}
        /\ abandoned' = IF at[c] = "await" THEN abandoned + 1 ELSE abandoned
        /\ UNCHANGED <<requestQueue, resultQueue, calls, busy, exited,
                       cancelled, dropped, gone>>
    BY <1>3 DEF SubmitTimeout, ResultTimeout
  <2>1. TypeOK'
    <3>1. abandoned' \in Nat /\ at' \in [Callers -> {"outside", "submit", "await"}]
      BY <2>0, CallerMoves DEF TypeOK
    <3> QED BY <2>0, <3>1, OthersTyped
  <2>2. UNCHANGED <<InWork, Placed>>
    BY <2>0 DEF InWork, Placed, Elements
  <2>3. ProcessedOnce'
    BY <2>0, OnceKept
  <2>4. BacklogIsAbandoned'
    BY <1>0, <2>0, <2>2, CallerMoves DEF BacklogIsAbandoned
  <2>5. PlacedWereSubmitted'
    BY <1>0, <2>0, <2>2, CallerMoves DEF PlacedWereSubmitted, Requests
  <2> QED BY <2>1, <2>3, <2>4, <2>5
<1>4. ASSUME NEW c \in Callers, TakeResult(c) PROVE IInv'
  <2> DEFINE r == Head(resultQueue)
  <2>0. /\ Goto(c, "outside") /\ at[c] = "await" /\ resultQueue # <<>>
        /\ resultQueue' = Tail(resultQueue) /\ gone' = gone \cup {r}
        /\ UNCHANGED <<requestQueue, calls, busy, exited, cancelled, abandoned, dropped>>
    BY <1>4 DEF TakeResult
  <2>1. /\ resultQueue' \in Seq(Requests) /\ Len(resultQueue') = Len(resultQueue) - 1
        /\ r \in Requests /\ r \in Elements(resultQueue) /\ Distinct(resultQueue')
        /\ Elements(resultQueue') = Elements(resultQueue) \ {r}
    BY <1>0, <2>0, ElementsTail
  <2>2. TypeOK'
    BY <1>0, <2>0, <2>1, CallerMoves DEF TypeOK
  <2>3. /\ UNCHANGED <<InWork, Placed>>
        /\ Elements(requestQueue)' = Elements(requestQueue)
    BY <2>0, <2>1 DEF InWork, Placed, Elements
  <2>4. ProcessedOnce'
    BY <1>0, <2>0, <2>1, <2>3 DEF ProcessedOnce, Distinct
  <2>5. BacklogIsAbandoned'
    BY <1>0, <2>0, <2>1, <2>3, CallerMoves DEF BacklogIsAbandoned
  <2>6. PlacedWereSubmitted'
    BY <1>0, <2>0, <2>3, CallerMoves DEF PlacedWereSubmitted, Requests
  <2> QED BY <2>2, <2>4, <2>5, <2>6
<1>5. ASSUME NEW w \in Workers, WorkerReceive(w) PROVE IInv'
  <2> DEFINE r == Head(requestQueue)
  <2>0. /\ busy[w] = None /\ requestQueue # <<>> /\ busy' = [busy EXCEPT ![w] = r]
        /\ requestQueue' = Tail(requestQueue)
        /\ UNCHANGED <<resultQueue, calls, at, exited, cancelled, abandoned, dropped, gone>>
    BY <1>5 DEF WorkerReceive
  <2>1. /\ requestQueue' \in Seq(Requests) /\ Len(requestQueue') = Len(requestQueue) - 1
        /\ r \in Requests /\ r \in Elements(requestQueue) /\ Distinct(requestQueue')
        /\ Elements(requestQueue') = Elements(requestQueue) \ {r}
    BY <1>0, <2>0, ElementsTail
  <2>2. /\ r \notin InWork
        /\ WorkDistinct' /\ InWork' = InWork \cup {r}
        /\ Cardinality(InWork') = Cardinality(InWork) + 1
    <3>1. r \notin InWork
      BY <2>1 DEF ProcessedOnce
    <3> QED BY <1>0, <2>0, <2>1, <3>1, WorkTaken
  <2>3. TypeOK'
    BY <1>0, <2>0, <2>1 DEF TypeOK
  <2>4. /\ UNCHANGED <<Placed, Awaiting>>
        /\ Elements(resultQueue)' = Elements(resultQueue)
    BY <2>0, <2>1, <2>2 DEF Placed, Elements, Awaiting
  <2>5. ProcessedOnce'
    BY <1>0, <2>0, <2>1, <2>2, <2>4 DEF ProcessedOnce, Distinct, WorkDistinct
  <2>6. BacklogIsAbandoned'
    <3>1. Cardinality(Awaiting') = Cardinality(Awaiting) /\ Len(resultQueue') = Len(resultQueue)
      BY <2>0, <2>4
    <3> QED BY <1>0, <2>0, <2>1, <2>2, <3>1 DEF BacklogIsAbandoned
  <2>7. PlacedWereSubmitted'
    BY <2>0, <2>4 DEF PlacedWereSubmitted
  <2> QED BY <2>3, <2>5, <2>6, <2>7
<1>6. ASSUME NEW w \in Workers, WorkerSend(w) PROVE IInv'
  <2> DEFINE r == busy[w]
  <2>0. /\ r # None /\ Len(resultQueue) < Capacity
        /\ resultQueue' = Append(resultQueue, r) /\ busy' = [busy EXCEPT ![w] = None]
        /\ UNCHANGED <<requestQueue, calls, at, exited, cancelled,
                       abandoned, dropped, gone>>
    BY <1>6 DEF WorkerSend
  <2>1. /\ r \in Requests /\ r \in InWork
        /\ WorkDistinct' /\ InWork' = InWork \ {r}
        /\ Cardinality(InWork') = Cardinality(InWork) - 1
    BY <1>0, <2>0, WorkLeft DEF TypeOK
  <2>2. /\ resultQueue' \in Seq(Requests) /\ Len(resultQueue') = Len(resultQueue) + 1
        /\ Elements(resultQueue') = Elements(resultQueue) \cup {r}
        /\ Distinct(resultQueue')
    BY <1>0, <2>0, <2>1, ElementsAppend DEF ProcessedOnce
  <2>3. TypeOK'
    BY <1>0, <2>0, <2>2 DEF TypeOK
  <2>4. /\ UNCHANGED <<Placed, Awaiting>>
        /\ Elements(requestQueue)' = Elements(requestQueue)
    BY <2>0, <2>1, <2>2 DEF Placed, Elements, Awaiting
  <2>5. ProcessedOnce'
    BY <1>0, <2>0, <2>1, <2>2, <2>4 DEF ProcessedOnce, Distinct, WorkDistinct
  <2>6. BacklogIsAbandoned'
    <3>1. /\ Len(requestQueue') = Len(requestQueue) /\ Len(resultQueue') = Len(resultQueue) + 1
          /\ Cardinality(Awaiting') = Cardinality(Awaiting)
          /\ dropped' = dropped /\ abandoned' = abandoned
      BY <2>0, <2>2, <2>4
    <3> QED BY <1>0, <2>1, <3>1 DEF BacklogIsAbandoned
  <2>7. PlacedWereSubmitted'
    BY <2>0, <2>4 DEF PlacedWereSubmitted
  <2> QED BY <2>3, <2>5, <2>6, <2>7
<1>7. ASSUME NEW w \in Workers, WorkerExit(w) PROVE IInv'
  <2>0. /\ exited' = exited \cup {w}
        /\ dropped' = dropped + Cardinality({busy[w]} \ {None})
        /\ gone' = gone \cup ({busy[w]} \ {None}) /\ busy' = [busy EXCEPT ![w] = None]
        /\ UNCHANGED <<requestQueue, resultQueue, calls, at, cancelled, abandoned>>
    BY <1>7 DEF WorkerExit
  <2>1. CASE busy[w] = None
    <3>1. {busy[w]} \ {None} = {} /\ busy' = busy
      BY <2>0, <2>1 DEF TypeOK
    <3>2. dropped' = dropped /\ gone' = gone
      <4>1. Cardinality({busy[w]} \ {None}) = 0
        BY <3>1, FS_EmptySet
      <4> QED BY <1>0, <2>0, <3>1, <4>1
    <3>3. UNCHANGED <<InWork, Placed, Awaiting>>
      BY <2>0, <3>1, <3>2 DEF InWork, Placed, Elements, Awaiting
    <3>4. TypeOK'
      BY <2>0, <3>1, <3>2 DEF TypeOK, Capacity
    <3>5. ProcessedOnce'
      <4>1. /\ Elements(requestQueue)' = Elements(requestQueue)
            /\ Elements(resultQueue)' = Elements(resultQueue)
        BY <2>0 DEF Elements
      <4>2. UNCHANGED <<requestQueue, resultQueue, busy, gone, InWork>>
        BY <2>0, <3>1, <3>2, <3>3
      <4> QED BY <4>1, <4>2 DEF ProcessedOnce
    <3>6. BacklogIsAbandoned'
      <4>1. /\ Len(requestQueue') = Len(requestQueue) /\ Len(resultQueue') = Len(resultQueue)
            /\ Cardinality(InWork') = Cardinality(InWork)
            /\ Cardinality(Awaiting') = Cardinality(Awaiting)
        BY <2>0, <3>3
      <4> QED BY <2>0, <3>2, <4>1 DEF BacklogIsAbandoned
    <3>7. PlacedWereSubmitted'
      BY <2>0, <3>3 DEF PlacedWereSubmitted
    <3> QED BY <3>4, <3>5, <3>6, <3>7
  <2>2. CASE busy[w] # None
    <3>1. {busy[w]} \ {None} = {busy[w]}
      BY <2>2
    <3>2. dropped' = dropped + 1 /\ gone' = gone \cup {busy[w]}
      BY <2>0, <3>1, FS_Singleton
    <3>3. /\ busy[w] \in Requests /\ busy[w] \in InWork
          /\ WorkDistinct' /\ InWork' = InWork \ {busy[w]}
          /\ Cardinality(InWork') = Cardinality(InWork) - 1
      BY <1>0, <2>0, <2>2, WorkLeft DEF TypeOK
    <3>4. /\ UNCHANGED <<Placed, Awaiting>>
          /\ Elements(requestQueue)' = Elements(requestQueue)
          /\ Elements(resultQueue)' = Elements(resultQueue)
      BY <2>0, <3>2, <3>3 DEF Placed, Elements, Awaiting
    <3>5. TypeOK'
      <4>1. busy' \in [Workers -> Requests \cup {None}] /\ exited' \subseteq Workers
        BY <2>0 DEF TypeOK
      <4>2. dropped' \in Nat /\ gone' \subseteq Requests
        BY <1>0, <3>2, <3>3 DEF TypeOK
      <4>3. /\ requestQueue' = requestQueue /\ resultQueue' = resultQueue
            /\ calls' = calls /\ at' = at /\ cancelled' = cancelled /\ abandoned' = abandoned
        BY <2>0
      <4> QED BY <4>1, <4>2, <4>3, OthersTyped
    <3>6. ProcessedOnce'
      BY <1>0, <2>0, <3>2, <3>3, <3>4 DEF ProcessedOnce, WorkDistinct
    <3>7. BacklogIsAbandoned'
      BY <1>0, <2>0, <3>2, <3>3, <3>4, SMTT(60) DEF BacklogIsAbandoned
    <3>8. PlacedWereSubmitted'
      BY <2>0, <3>4 DEF PlacedWereSubmitted
    <3> QED BY <3>5, <3>6, <3>7, <3>8
  <2> QED BY <2>1, <2>2
<1>8. CASE Stop \/ Done \/ UNCHANGED vars
  <2>1. UNCHANGED <<requestQueue, resultQueue, calls, at, busy, exited, abandoned,
                    dropped, gone>> /\ cancelled' \in BOOLEAN
    BY <1>8 DEF Stop, Done, vars, TypeOK
  <2>2. UNCHANGED <<InWork, Placed, Awaiting>>
    BY <2>1 DEF InWork, Placed, Elements, Awaiting
  <2>3. TypeOK' /\ ProcessedOnce'
    BY <2>1, OthersTyped, OnceKept
  <2>4. BacklogIsAbandoned' /\ PlacedWereSubmitted'
    BY <2>1, <2>2 DEF BacklogIsAbandoned, PlacedWereSubmitted
  <2> QED BY <2>3, <2>4
<1> QED
  BY <1>1, <1>2, <1>3, <1>4, <1>5, <1>6, <1>7, <1>8 DEF Next, CallerStep, WorkerStep

LEMMA Inductive == Spec => []IInv
BY InductiveInit, InductiveStep, PTL DEF Spec
-----------------------------------------------------------------------------
(* The variables keep their types: neither channel holds more than its     *)
(* capacity, which is what lets NewOptimizedRouter size them.              *)
THEOREM TypeCorrect == Spec => []TypeOK
BY Inductive, PTL DEF IInv

(* Every request is queued, in one worker's hands, answered in the result  *)
(* channel or gone, once: no two workers process it, and no result reaches *)
(* two callers, whoever times out and however the workers are stopped.     *)
(* And results under way, lost ones included, are as many as the callers   *)
(* that wait and those that gave up.                                       *)
THEOREM RequestsAccountedHolds == Spec => []RequestsAccounted
<1>1. IInv => RequestsAccounted
  BY DEF IInv, RequestsAccounted
<1> QED BY <1>1, Inductive, PTL
-----------------------------------------------------------------------------
(* What is alive at each step of a call.  A Start that failed leaves the   *)
(* state "starting" and everything else as it was, so no accept loop and   *)
(* no monitor is there when the next Start begins; listener and router are *)
(* done for only by a Stop, and a running plane that was never stopped has *)
(* all three of them.                                                      *)
StateOfCall ==
    /\ call = "none" => state \in {"new", "starting", "running", "stopped"}
    /\ call \in {"listen", "monitor"} => state = "starting"
    /\ call \in {"close", "wait", "router", "join"} => state = "stopping"

AcceptLoopAlive ==
    /\ acceptLoops <= 1
    /\ state \in {"new", "stopped"} \/ call \in {"listen", "router", "join"}
       \/ (state = "starting" /\ call = "none") => acceptLoops = 0
    /\ call = "monitor" \/ (state = "running" /\ call = "none") =>
        listenerDone \/ (acceptLoops = 1 /\ socket = "open")
    /\ state = "stopped" \/ call \in {"wait", "router", "join"} =>
        listenerDone /\ socket = "closed"

MonitorAlive ==
    /\ monitors <= 1
    /\ state \in {"new", "starting", "stopped"} => monitors = 0
    /\ state \in {"starting", "running"} => ~monitorDone
    /\ state = "running" => monitors = 1

RouterAlive ==
    /\ routerDone => listenerDone
    /\ state \in {"starting", "running"} /\ ~routerDone => routerWorkers > 0

StartsCounted ==
    /\ state # "new" => starts > 0
    /\ state = "new" => acceptLoops = 0 /\ monitors = 0 /\ routerWorkers = 0
    /\ routerWorkers <= starts

PlaneInv == /\ Plane!TypeOK
            /\ StateOfCall /\ AcceptLoopAlive /\ MonitorAlive /\ RouterAlive
            /\ StartsCounted

LEMMA PlaneInit == Plane!Init => PlaneInv
<1> SUFFICES ASSUME Plane!Init  PROVE PlaneInv
  OBVIOUS
<1>1. Plane!TypeOK
  <2>1. 0 \in 0..MaxStarts
    BY StartsAssumption DEF StartsAssumption
  <2> QED BY <2>1, Zenon DEF Plane!Init, Plane!TypeOK
<1>2. StateOfCall /\ AcceptLoopAlive /\ MonitorAlive /\ RouterAlive /\ StartsCounted
  BY DEF Plane!Init, StateOfCall, AcceptLoopAlive, MonitorAlive, RouterAlive,
         StartsCounted
<1> QED BY <1>1, <1>2 DEF PlaneInv

LEMMA PlaneStep == PlaneInv /\ [Plane!Next]_(Plane!vars) => PlaneInv'
<1> SUFFICES ASSUME PlaneInv, [Plane!Next]_(Plane!vars)  PROVE PlaneInv'
  OBVIOUS
<1> USE StartsAssumption
    DEF StartsAssumption, PlaneInv, Plane!TypeOK, StateOfCall, AcceptLoopAlive,
        MonitorAlive, RouterAlive, StartsCounted, Plane!At, Plane!planeVars, Plane!monitorVars,
        Plane!listenerVars, Plane!routerVars
<1>1. CASE Plane!Start
  <2>1. Plane!TypeOK'
    <3>1. starts' \in 0..MaxStarts /\ routerWorkers' \in 0..MaxStarts
      BY <1>1 DEF Plane!Start
    <3>2. monitorDone' \in BOOLEAN
      BY <1>1, Zenon DEF Plane!Start
    <3> QED BY <1>1, <3>1, <3>2 DEF Plane!Start
  <2>2. (StateOfCall /\ AcceptLoopAlive /\ MonitorAlive /\ RouterAlive /\ StartsCounted)'
    BY <1>1 DEF Plane!Start
  <2> QED BY <2>1, <2>2
<1>2. CASE Plane!ListenFails
  BY <1>2 DEF Plane!ListenFails
<1>3. CASE Plane!Listen
  BY <1>3 DEF Plane!Listen
<1>4. CASE Plane!StartMonitor
  BY <1>4 DEF Plane!StartMonitor
<1>5. CASE Plane!Stop
  BY <1>5 DEF Plane!Stop
<1>6. CASE Plane!CloseListener
  BY <1>6 DEF Plane!CloseListener
<1>7. CASE Plane!WaitForListener
  BY <1>7 DEF Plane!WaitForListener
<1>8. CASE Plane!StopRouter
  BY <1>8 DEF Plane!StopRouter
<1>9. CASE Plane!StopReturn
  BY <1>9 DEF Plane!StopReturn
<1>10. CASE Plane!AcceptLoopEnds
  BY <1>10 DEF Plane!AcceptLoopEnds
<1>11. CASE Plane!MonitorEnds
  BY <1>11 DEF Plane!MonitorEnds
<1>12. CASE Plane!RouterWorkersEnd
  BY <1>12 DEF Plane!RouterWorkersEnd
<1>13. CASE UNCHANGED Plane!vars
  BY <1>13 DEF Plane!vars
<1> QED
  BY <1>1, <1>2, <1>3, <1>4, <1>5, <1>6, <1>7, <1>8, <1>9, <1>10, <1>11, <1>12,
     <1>13 DEF Plane!Next, Plane!CallStep, Plane!Done

(* The steps of both, side by side.                                        *)
LEMMA BothHold == BothSpec => [](IInv /\ PlaneInv)
<1>1. BothInit => IInv /\ PlaneInv
  BY InductiveInit, PlaneInit DEF BothInit
<1>2. IInv /\ PlaneInv /\ [BothNext]_<<which, vars, planeVars>> => (IInv /\ PlaneInv)'
  <2> SUFFICES ASSUME IInv, PlaneInv, [BothNext]_<<which, vars, planeVars>>
               PROVE  (IInv /\ PlaneInv)'
    OBVIOUS
  <2>1. [Next]_vars
    BY DEF BothNext
  <2>2. [Plane!Next]_(Plane!vars)
    BY DEF BothNext, planeVars, Plane!vars
  <2> QED BY <2>1, <2>2, InductiveStep, PlaneStep
<1> QED BY <1>1, <1>2, PTL DEF BothSpec

(* The variables of queue and plane keep their types, whichever moves.     *)
THEOREM TypesCorrect == BothSpec => []TypesOK
<1>1. IInv /\ PlaneInv => TypesOK
  BY DEF IInv, PlaneInv, TypesOK
<1> QED BY <1>1, BothHold, PTL

(* The control plane's state says what goes on, for any number of Starts:  *)
(* a plane that runs and was never stopped has an accept loop on an open   *)
(* socket, a monitor and router workers, also after Starts that failed     *)
(* half-way; a stopped one has no accept loop, monitor or open socket; and *)
(* no restart ever makes two of them.                                      *)
THEOREM StateIsTrueHolds == BothSpec => []StateIsTrue
<1>1. PlaneInv => StateIsTrue
  BY DEF PlaneInv, StateOfCall, AcceptLoopAlive, MonitorAlive, RouterAlive,
         StateIsTrue, Plane!StateIsTrue
<1> QED BY <1>1, BothHold, PTL
=============================================================================
