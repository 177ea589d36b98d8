--------------------- MODULE MCPathBusAndRouting_proofs ---------------------
(***************************************************************************)
(* Proofs about the serving path, the message bus and what routes a        *)
(* request.  The path uses the goroutine pool as GoroutinePool allows, and *)
(* no accepted connection is forgotten or closed twice; the bus's index    *)
(* and deliveries, the ring of nodes, the route cache and the answers of   *)
(* the HTTP router are what the run checks of them, and a connection's     *)
(* buffer hands out the stream: for any connections, subscribers,          *)
(* publishers, topics, keys, nodes, routes, slices and limits.             *)
(***************************************************************************)
EXTENDS MCPathBusAndRouting, TLAPS, SequenceTheorems, FiniteSetTheorems,
        WellFoundedInduction

(* The accept loop has a connection in hand between Accept and Submit.     *)
HandMatchesLoop ==
    /\ loop \in {"select", "accept", "add", "submit", "exited"}
    /\ hand \in Conns \cup {None}
    /\ hand \in Conns <=> loop \in {"add", "submit"}

Failed == {"read error", "unsupported"}
InPool == Pool!Queued \cup Pool!Running
Known  == InPool \cup finished

(* Clients the accept loop has not seen are nowhere, and what it has in    *)
(* hand is not in the goroutine pool yet.                                  *)
Unseen ==
    /\ \A c \in Conns : client[c] # "open" => c \notin Known /\ c # hand
    /\ hand \in Conns => hand \notin Known
    /\ ~cancelled

(* How far the detection of c is, and what became of the connection.       *)
Stage(c) ==
    /\ detect[c] # "start" => c \in Pool!Running \cup finished
    /\ c \in finished => detect[c] = "return"
    /\ outcome[c] = "none" <=> detect[c] \in {"start", "read", "lookup"}
    /\ detect[c] = "close" => outcome[c] = "unsupported"
    /\ closed[c] <=> outcome[c] \in Failed
    /\ netCloses[c] = IF closed[c] THEN 1 ELSE 0

(* ConnectionPool holds a connection from AddConnection until its          *)
(* detection fails.                                                        *)
Filed(c) ==
    c \in connections <=> \/ c = hand /\ loop = "submit"
                          \/ c \in Known /\ outcome[c] \notin Failed

IInv ==
    /\ TypeOK /\ HandMatchesLoop /\ Unseen
    /\ \A c \in Conns : Stage(c) /\ Filed(c)
-----------------------------------------------------------------------------
(* The channel of the goroutine pool, when a connection is sent and when a *)
(* worker receives one.                                                    *)
LEMMA QueueGrows ==
    ASSUME queue \in Seq(Conns), NEW c \in Conns, queue' = Append(queue, c)
    PROVE  /\ queue' \in Seq(Conns) /\ Len(queue') = Len(queue) + 1
           /\ Pool!Queued' = Pool!Queued \cup {c}
<1>1. /\ queue' \in Seq(Conns) /\ Len(queue') = Len(queue) + 1
      /\ \A i \in 1..Len(queue) : queue'[i] = queue[i]
      /\ queue'[Len(queue) + 1] = c
  BY AppendProperties
<1>2. Len(queue) \in Nat
  BY LenProperties
<1> QED BY <1>1, <1>2 DEF Pool!Queued

LEMMA QueueShrinks ==
    ASSUME queue \in Seq(Conns), queue # <<>>, queue' = Tail(queue)
    PROVE  /\ queue' \in Seq(Conns) /\ Head(queue) \in Conns
           /\ Len(queue) \in Nat /\ Len(queue') = Len(queue) - 1
           /\ Pool!Queued = Pool!Queued' \cup {Head(queue)}
<1>1. /\ queue' \in Seq(Conns) /\ Len(queue') = Len(queue) - 1
      /\ Head(queue) \in Conns
      /\ \A i \in 1..Len(queue') : queue'[i] = queue[i + 1]
  BY HeadTailProperties
<1>2. Len(queue) \in Nat \ {0} /\ Head(queue) = queue[1]
  BY EmptySeq, LenProperties
<1>3. ASSUME NEW i \in 1..Len(queue) PROVE queue[i] \in Pool!Queued' \cup {Head(queue)}
  <2>1. CASE i = 1
    BY <2>1, <1>2
  <2>2. CASE i # 1
    <3>1. i - 1 \in 1..Len(queue') /\ queue'[i - 1] = queue[i]
      BY <2>2, <1>1, <1>2
    <3> QED BY <3>1 DEF Pool!Queued
  <2> QED BY <2>1, <2>2
<1>4. ASSUME NEW i \in 1..Len(queue') PROVE queue'[i] \in Pool!Queued
  <2>1. i + 1 \in 1..Len(queue) /\ queue'[i] = queue[i + 1]
    BY <1>1, <1>2
  <2> QED BY <2>1 DEF Pool!Queued
<1>5. Head(queue) \in Pool!Queued
  BY <1>2 DEF Pool!Queued
<1> QED BY <1>1, <1>2, <1>3, <1>4, <1>5 DEF Pool!Queued
-----------------------------------------------------------------------------
(* The goroutine pool as the path uses it.                                 *)
LEMMA PoolTypes ==
    ASSUME Pool!TypeOK, [Pool!Next]_(Pool!vars)
    PROVE  Pool!TypeOK'
<1>0. Pool!ChannelOK /\ QueueSize \in Nat
  BY PathAssumption DEF Pool!TypeOK, PathAssumption
<1>1. ASSUME NEW c \in Conns, Pool!SubmitEnqueue(c) PROVE Pool!TypeOK'
  <2>1. Len(queue) \in Nat /\ Len(queue) < QueueSize /\ queue' = Append(queue, c)
    BY <1>0, <1>1, LenProperties DEF Pool!SubmitEnqueue, Pool!ChannelOK
  <2>2. Pool!ChannelOK'
    BY <1>0, <2>1, QueueGrows DEF Pool!ChannelOK
  <2> QED BY <1>1, <2>2 DEF Pool!SubmitEnqueue, Pool!TypeOK
<1>2. ASSUME NEW c \in Conns, Pool!SubmitReject(c) PROVE Pool!TypeOK'
  BY <1>2 DEF Pool!SubmitReject, Pool!TypeOK, Pool!ChannelOK
<1>3. ASSUME NEW c \in Conns, Pool!SubmitSpawn(c) PROVE Pool!TypeOK'
  BY <1>3 DEF Pool!SubmitSpawn, Pool!TypeOK, Pool!ChannelOK
<1>4. ASSUME NEW c \in Conns, Pool!FinishTemp(c) PROVE Pool!TypeOK'
  BY <1>4 DEF Pool!FinishTemp, Pool!TypeOK, Pool!ChannelOK
<1>5. ASSUME NEW w \in Workers, Pool!Take(w) PROVE Pool!TypeOK'
  <2>1. queue # <<>> /\ queue' = Tail(queue)
    BY <1>5 DEF Pool!Take
  <2>2. Pool!ChannelOK' /\ Head(queue) \in Conns
    BY <1>0, <2>1, QueueShrinks DEF Pool!ChannelOK
  <2> QED BY <1>5, <2>2 DEF Pool!Take, Pool!TypeOK
<1>6. ASSUME NEW w \in Workers, Pool!Finish(w) PROVE Pool!TypeOK'
  BY <1>6 DEF Pool!Finish, Pool!TypeOK, Pool!ChannelOK
<1>7. ASSUME NEW w \in Workers, Pool!Exit(w) PROVE Pool!TypeOK'
  BY <1>7 DEF Pool!Exit, Pool!TypeOK, Pool!ChannelOK
<1>8. CASE Pool!Cancel
  BY <1>8 DEF Pool!Cancel, Pool!TypeOK, Pool!ChannelOK
<1>9. CASE Pool!Return
  BY <1>9 DEF Pool!Return, Pool!TypeOK, Pool!ChannelOK
<1>10. CASE UNCHANGED Pool!vars
  BY <1>10 DEF Pool!vars, Pool!TypeOK, Pool!ChannelOK
<1> QED
  BY <1>1, <1>2, <1>3, <1>4, <1>5, <1>6, <1>7, <1>8, <1>9, <1>10
  DEF Pool!Next, Pool!Submit, Pool!Done

LEMMA PoolKept ==
    ASSUME UNCHANGED poolVars
    PROVE  /\ Known' = Known /\ Pool!Running' = Pool!Running
           /\ finished' = finished /\ cancelled' = cancelled
           /\ UNCHANGED Pool!vars
BY DEF poolVars, Known, InPool, Pool!Queued, Pool!Running, Pool!OnWorkers, Pool!vars

LEMMA PoolSubmit ==
    ASSUME Pool!TypeOK, ~cancelled, NEW c \in Conns, Pool!Submit(c)
    PROVE  /\ Known' = Known \cup {c} /\ Pool!Running \subseteq Pool!Running'
           /\ finished' = finished /\ ~cancelled'
<1>1. CASE Pool!SubmitEnqueue(c)
  <2>1. queue \in Seq(Conns) /\ queue' = Append(queue, c)
    BY <1>1 DEF Pool!TypeOK, Pool!ChannelOK, Pool!SubmitEnqueue
  <2>2. Pool!Queued' = Pool!Queued \cup {c}
    BY <2>1, QueueGrows
  <2> QED BY <1>1, <2>2 DEF Pool!SubmitEnqueue, Known, InPool, Pool!Running, Pool!OnWorkers
<1>2. CASE Pool!SubmitSpawn(c)
  BY <1>2 DEF Pool!SubmitSpawn, Known, InPool, Pool!Queued, Pool!Running, Pool!OnWorkers
<1> QED BY <1>1, <1>2 DEF Pool!Submit, Pool!SubmitReject

LEMMA PoolTake ==
    ASSUME Pool!TypeOK, NEW w \in Workers, Pool!Take(w)
    PROVE  /\ Known' = Known /\ Pool!Running \subseteq Pool!Running'
           /\ finished' = finished /\ cancelled' = cancelled
<1>1. queue \in Seq(Conns) /\ queue # <<>> /\ queue' = Tail(queue)
  BY DEF Pool!TypeOK, Pool!ChannelOK, Pool!Take
<1>2. Head(queue) \in Conns /\ Pool!Queued = Pool!Queued' \cup {Head(queue)}
  BY <1>1, QueueShrinks
<1>3. Pool!OnWorkers' = Pool!OnWorkers \cup {Head(queue)}
  BY <1>2, PathAssumption DEF Pool!Take, Pool!TypeOK, Pool!OnWorkers, PathAssumption
<1> QED BY <1>2, <1>3 DEF Pool!Take, Known, InPool, Pool!Running

LEMMA PoolFinish ==
    ASSUME Pool!TypeOK, NEW c \in Conns,
           Pool!FinishTemp(c) \/ \E w \in Workers : job[w] = c /\ Pool!Finish(w)
    PROVE  /\ Known' = Known /\ finished' = finished \cup {c} /\ cancelled' = cancelled
           /\ Pool!Running \cup finished \subseteq Pool!Running' \cup finished'
<1>1. CASE Pool!FinishTemp(c)
  BY <1>1 DEF Pool!FinishTemp, Known, InPool, Pool!Queued, Pool!Running, Pool!OnWorkers
<1>2. ASSUME NEW w \in Workers, job[w] = c, Pool!Finish(w)
      PROVE  /\ Known' = Known /\ finished' = finished \cup {c} /\ cancelled' = cancelled
             /\ Pool!Running \cup finished \subseteq Pool!Running' \cup finished'
  <2>1. /\ Pool!OnWorkers' \cup {c} = Pool!OnWorkers
    <3>1. /\ \A v \in Workers : job'[v] = IF v = w THEN Waiting ELSE job[v]
          /\ job[w] = c /\ c # Waiting /\ c # Exited
      BY <1>2, PathAssumption DEF Pool!Finish, Pool!TypeOK, PathAssumption
    <3>2. \A v \in Workers : job'[v] # Waiting => job'[v] = job[v]
      BY <3>1
    <3>3. \A v \in Workers : job[v] = c \/ job'[v] = job[v]
      BY <3>1
    <3> QED BY <3>1, <3>2, <3>3 DEF Pool!OnWorkers
  <2>2. finished' = finished \cup {c} /\ UNCHANGED <<queue, temps, cancelled>>
    BY <1>2 DEF Pool!Finish
  <2>3. Pool!Queued' = Pool!Queued
    BY <2>2 DEF Pool!Queued
  <2>4. Pool!Running' \cup {c} = Pool!Running \cup {c} /\ c \in Pool!Running
    BY <2>1, <2>2 DEF Pool!Running
  <2>5. Known' = Known
    BY <2>2, <2>3, <2>4 DEF Known, InPool
  <2> QED BY <2>2, <2>4, <2>5
<1> QED BY <1>1, <1>2
-----------------------------------------------------------------------------
(* The invariant holds initially, and every step of the path preserves it. *)
LEMMA InductiveInit == Init => IInv
<1> SUFFICES ASSUME Init PROVE IInv
  OBVIOUS
<1>1. Pool!TypeOK
  <2>1. <<>> \in Seq(Conns) /\ Len(<<>>) = 0
    BY EmptySeq
  <2>2. queue = <<>> => Pool!ChannelOK
    BY <2>1, PathAssumption DEF Pool!ChannelOK, PathAssumption
  <2> QED BY <2>2 DEF Init, Pool!Init, Pool!TypeOK
<1>2. Known = {} /\ ~cancelled
  <2>1. queue = <<>> /\ Len(queue) = 0
    BY DEF Init, Pool!Init
  <2>2. Pool!Queued = {}
    BY <2>1 DEF Pool!Queued
  <2>3. Pool!OnWorkers = {}
    BY DEF Init, Pool!Init, Pool!OnWorkers
  <2> QED BY <2>2, <2>3 DEF Init, Pool!Init, Known, InPool, Pool!Running
<1>3. TypeOK /\ HandMatchesLoop
  BY <1>1, PathAssumption DEF Init, TypeOK, HandMatchesLoop, PathAssumption
<1>4. Unseen
  BY <1>2, PathAssumption DEF Init, Unseen, PathAssumption
<1>5. \A c \in Conns : Stage(c) /\ Filed(c)
  BY <1>2, PathAssumption DEF Init, Stage, Filed, Known, Failed, PathAssumption
<1> QED BY <1>3, <1>4, <1>5 DEF IInv

(* Steps of clients, of the accept loop and of Stop leave the goroutine    *)
(* pool and the detections alone, except for Submit.                       *)
Outside == UNCHANGED <<poolVars, closed, netCloses, detect, outcome, handlers>>

LEMMA OutsideTypes ==
    ASSUME IInv, Outside,
           client' \in [Conns -> {"away", "backlog", "open", "reset"}],
           sent' \in [Conns -> {"nothing", "http", "other", "eof"}],
           listening' \in BOOLEAN,
           stop' \in {"not called", "cancelled", "closed", "returned"},
           connections' \subseteq Conns,
           HandMatchesLoop'
    PROVE  TypeOK'
<1>1. (Pool!TypeOK)'
  BY PoolKept, PoolTypes DEF IInv, TypeOK, Outside
<1> QED BY <1>1 DEF IInv, TypeOK, HandMatchesLoop, Outside

LEMMA OutsideStages ==
    ASSUME IInv, Outside
    PROVE  /\ \A c \in Conns : Stage(c)'
           /\ Known' = Known /\ cancelled' = cancelled /\ outcome' = outcome
<1>1. /\ Known' = Known /\ cancelled' = cancelled
      /\ Pool!Running' = Pool!Running /\ finished' = finished
  BY PoolKept DEF Outside
<1> QED BY <1>1 DEF Outside, IInv, Stage

LEMMA ClientStep ==
    ASSUME IInv, NEW c \in Conns, Connect(c) \/ \E b \in Payloads : Send(c, b)
    PROVE  IInv'
<1>1. Outside
  BY DEF Outside, Connect, Send, connVars
<1>2. UNCHANGED <<loop, hand, connections, listening, stop>>
  BY DEF Connect, Send, loopVars, connVars
<1>3. HandMatchesLoop'
  BY <1>2 DEF IInv, HandMatchesLoop
<1>4. /\ client' \in [Conns -> {"away", "backlog", "open", "reset"}]
      /\ \A d \in Conns : client'[d] # "open" => client[d] # "open"
  BY DEF IInv, TypeOK, Connect, Send
<1>5. sent' \in [Conns -> {"nothing", "http", "other", "eof"}]
  BY PathAssumption, ZenonT(60) DEF IInv, TypeOK, Connect, Send, PathAssumption
<1>6. TypeOK'
  BY <1>1, <1>2, <1>3, <1>4, <1>5, OutsideTypes DEF IInv, TypeOK
<1>7. Unseen' /\ \A d \in Conns : Filed(d)'
  BY <1>1, <1>2, <1>4, OutsideStages DEF IInv, Unseen, Filed
<1> QED BY <1>1, <1>3, <1>6, <1>7, OutsideStages DEF IInv

LEMMA LoopStepNoSubmit ==
    ASSUME IInv, LoopSelect \/ AcceptError \/ AddConnection \/ \E c \in Conns : Accept(c)
    PROVE  IInv'
<1>0. TypeOK /\ HandMatchesLoop /\ Unseen /\ \A c \in Conns : Stage(c) /\ Filed(c)
  BY DEF IInv
<1>1. Outside
  BY DEF Outside, LoopSelect, AcceptError, AddConnection, Accept, netVars, connVars
<1>2. /\ UNCHANGED <<sent, listening, stop>>
      /\ client' \in [Conns -> {"away", "backlog", "open", "reset"}]
  BY <1>0 DEF TypeOK, LoopSelect, AcceptError, AddConnection, Accept, netVars
<1>3. CASE LoopSelect \/ AcceptError
  <2>1. HandMatchesLoop' /\ UNCHANGED <<client, hand, connections>>
    BY <1>0, <1>3 DEF HandMatchesLoop, LoopSelect, AcceptError, netVars, connVars
  <2>2. TypeOK'
    BY <1>0, <1>1, <1>2, <2>1, OutsideTypes DEF IInv, TypeOK
  <2>3. hand \notin Conns /\ loop' # "submit" /\ loop # "submit"
    BY <1>0, <1>3 DEF HandMatchesLoop, LoopSelect, AcceptError
  <2>4. Unseen' /\ \A c \in Conns : Filed(c)'
    BY <1>0, <1>1, <2>1, <2>3, OutsideStages DEF Unseen, Filed
  <2> QED BY <1>1, <2>1, <2>2, <2>4, OutsideStages DEF IInv
<1>4. CASE AddConnection
  <2>1. HandMatchesLoop' /\ UNCHANGED <<client, hand>> /\ hand \in Conns
    BY <1>0, <1>4 DEF HandMatchesLoop, AddConnection, netVars
  <2>2. connections' = connections \cup {hand} /\ loop = "add" /\ loop' = "submit"
    BY <1>4 DEF AddConnection
  <2>3. TypeOK'
    BY <1>0, <1>1, <1>2, <2>1, <2>2, OutsideTypes DEF IInv, TypeOK
  <2>4. Unseen' /\ \A c \in Conns : Filed(c)'
    BY <1>0, <1>1, <2>1, <2>2, OutsideStages DEF Unseen, Filed
  <2> QED BY <1>1, <2>1, <2>3, <2>4, OutsideStages DEF IInv
<1>5. ASSUME NEW c \in Conns, Accept(c) PROVE IInv'
  <2>1. /\ HandMatchesLoop' /\ UNCHANGED connections
        /\ loop = "accept" /\ loop' = "add" /\ hand \notin Conns /\ hand' = c
    BY <1>0, <1>5 DEF HandMatchesLoop, Accept, connVars
  <2>2. /\ client[c] = "backlog" /\ client'[c] = "open"
        /\ \A d \in Conns \ {c} : client'[d] = client[d]
    BY <1>0, <1>5 DEF Accept, TypeOK
  <2>3. TypeOK'
    BY <1>0, <1>1, <1>2, <2>1, OutsideTypes DEF IInv, TypeOK
  <2>4. Unseen' /\ \A d \in Conns : Filed(d)'
    BY <1>0, <1>1, <2>1, <2>2, OutsideStages DEF Unseen, Filed
  <2> QED BY <1>1, <2>1, <2>3, <2>4, OutsideStages DEF IInv
<1> QED BY <1>3, <1>4, <1>5

LEMMA StopStep ==
    ASSUME IInv, StopCancel \/ StopClose \/ StopReturn \/ UNCHANGED vars
    PROVE  IInv'
<1>0. TypeOK /\ HandMatchesLoop /\ Unseen /\ \A c \in Conns : Filed(c)
  BY DEF IInv
<1>1. Outside
  <2>1. CASE UNCHANGED vars
    BY <2>1 DEF Outside, vars, netVars, connVars, poolVars
  <2> QED BY <2>1 DEF Outside, StopCancel, StopClose, StopReturn, netVars, connVars
<1>2. /\ UNCHANGED <<sent, loop, hand, connections>>
      /\ listening' \in BOOLEAN
      /\ stop' \in {"not called", "cancelled", "closed", "returned"}
  BY <1>0 DEF TypeOK, StopCancel, StopClose, StopReturn, vars, netVars, loopVars, connVars
<1>3. /\ client' \in [Conns -> {"away", "backlog", "open", "reset"}]
      /\ \A c \in Conns : client'[c] = "open" <=> client[c] = "open"
  <2>1. CASE StopClose
    BY <1>0, <2>1 DEF TypeOK, StopClose
  <2>2. CASE client' = client
    BY <1>0, <2>2 DEF TypeOK
  <2> QED BY <2>1, <2>2 DEF StopCancel, StopReturn, vars, netVars
<1>4. HandMatchesLoop'
  BY <1>0, <1>2 DEF HandMatchesLoop
<1>5. TypeOK'
  BY <1>0, <1>1, <1>2, <1>3, <1>4, OutsideTypes DEF IInv, TypeOK
<1>6. Unseen'
  <2>1. Known' = Known /\ cancelled' = cancelled
    BY <1>1, OutsideStages
  <2>2. \A c \in Conns : client'[c] # "open" => c \notin Known' /\ c # hand'
    BY <1>0, <1>2, <1>3, <2>1 DEF Unseen
  <2>3. (hand' \in Conns => hand' \notin Known') /\ ~cancelled'
    BY <1>0, <1>2, <2>1 DEF Unseen
  <2> QED BY <2>2, <2>3 DEF Unseen
<1>7. \A c \in Conns : Filed(c)'
  BY <1>0, <1>1, <1>2, OutsideStages DEF Filed
<1> QED BY <1>1, <1>4, <1>5, <1>6, <1>7, OutsideStages DEF IInv

(* Submit and the steps of the goroutine pool: the detection is handed on, *)
(* and nothing is known of the connection that was not known before.       *)
LEMMA PoolStep ==
    ASSUME IInv,
           \/ SubmitDetection
           \/ \E w \in Workers : WorkerTakes(w) \/ WorkerFinishes(w)
           \/ \E c \in Conns : TempFinishes(c)
    PROVE  IInv'
<1>0. TypeOK /\ Pool!TypeOK /\ HandMatchesLoop /\ Unseen
      /\ \A c \in Conns : Stage(c) /\ Filed(c)
  BY DEF IInv, TypeOK
<1>1. UNCHANGED <<netVars, listening, stop, connVars, detect, outcome>>
  BY DEF SubmitDetection, WorkerTakes, WorkerFinishes, TempFinishes, others, loopVars
<1>2. CASE SubmitDetection
  <2>1. /\ hand \in Conns /\ Pool!Submit(hand) /\ loop = "submit"
        /\ hand' = None /\ loop' = "select"
    BY <1>0, <1>2 DEF SubmitDetection, HandMatchesLoop
  <2>2. HandMatchesLoop'
    BY <2>1, PathAssumption DEF HandMatchesLoop, PathAssumption
  <2>3. (Pool!TypeOK)'
    BY <1>0, <2>1, PoolTypes DEF Pool!Next
  <2>4. TypeOK'
    BY <1>0, <1>1, <2>2, <2>3 DEF TypeOK, HandMatchesLoop, netVars, connVars
  <2>5. /\ Known' = Known \cup {hand} /\ Pool!Running \subseteq Pool!Running'
        /\ finished' = finished /\ ~cancelled'
    BY <1>0, <2>1, PoolSubmit DEF Unseen
  <2>6. Unseen'
    BY <1>0, <1>1, <2>1, <2>5, PathAssumption DEF Unseen, netVars, PathAssumption
  <2>7. \A c \in Conns : Stage(c)'
    BY <1>0, <1>1, <2>5 DEF Stage, connVars
  <2>8. outcome[hand] \notin Failed
    BY <1>0, <2>1 DEF Stage, Unseen, Known, InPool, Failed
  <2>9. \A c \in Conns : Filed(c)'
    BY <1>0, <1>1, <2>1, <2>5, <2>8, PathAssumption DEF Filed, connVars, PathAssumption
  <2> QED BY <2>2, <2>4, <2>6, <2>7, <2>9 DEF IInv
<1>3. ASSUME Known' = Known, cancelled' = cancelled, (Pool!TypeOK)', UNCHANGED loopVars,
             \A c \in Conns : Stage(c)'
      PROVE  IInv'
  <2>1. TypeOK' /\ HandMatchesLoop'
    BY <1>0, <1>1, <1>3 DEF TypeOK, HandMatchesLoop, netVars, connVars, loopVars
  <2>2. Unseen' /\ \A c \in Conns : Filed(c)'
    BY <1>0, <1>1, <1>3 DEF Unseen, Filed, netVars, connVars, loopVars
  <2> QED BY <1>3, <2>1, <2>2 DEF IInv
<1>4. ASSUME NEW w \in Workers, WorkerTakes(w) PROVE IInv'
  <2>1. Pool!Take(w) /\ UNCHANGED loopVars
    BY <1>4 DEF WorkerTakes, others
  <2>2. /\ Known' = Known /\ Pool!Running \subseteq Pool!Running'
        /\ finished' = finished /\ cancelled' = cancelled
    BY <1>0, <2>1, PoolTake
  <2>3. (Pool!TypeOK)'
    BY <1>0, <2>1, PoolTypes DEF Pool!Next
  <2>4. \A c \in Conns : Stage(c)'
    BY <1>0, <1>1, <2>2 DEF Stage, connVars
  <2> QED BY <1>3, <2>1, <2>2, <2>3, <2>4
<1>5. ASSUME NEW c \in Conns, detect[c] = "return", UNCHANGED loopVars,
             Pool!FinishTemp(c) \/ \E w \in Workers : job[w] = c /\ Pool!Finish(w)
      PROVE  IInv'
  <2>1. /\ Known' = Known /\ finished' = finished \cup {c} /\ cancelled' = cancelled
        /\ Pool!Running \cup finished \subseteq Pool!Running' \cup finished'
    BY <1>0, <1>5, PoolFinish
  <2>2. (Pool!TypeOK)'
    BY <1>0, <1>5, PoolTypes DEF Pool!Next
  <2>3. \A d \in Conns : Stage(d)'
    BY <1>0, <1>1, <1>5, <2>1 DEF Stage, connVars
  <2> QED BY <1>3, <1>5, <2>1, <2>2, <2>3
<1> QED
  BY <1>2, <1>4, <1>5 DEF WorkerFinishes, TempFinishes, others

(* A step of DetectProtocol(c) changes what is known of c only, and leaves *)
(* the goroutine pool, the clients and the accept loop alone.              *)
LEMMA DetectionStep ==
    ASSUME IInv, NEW c \in Conns, DetectStep(c)
    PROVE  IInv'
<1>0. /\ TypeOK /\ Pool!TypeOK /\ HandMatchesLoop /\ Unseen
      /\ \A d \in Conns : Stage(d) /\ Filed(d)
  BY DEF IInv, TypeOK
<1>1. UNCHANGED <<netVars, loopVars, poolVars>> /\ c \in Pool!Running
  BY DEF DetectStep, DetectStart, ReadSome, ReadError, Dispatch, Unsupported, CloseAgain
<1>2. /\ Known' = Known /\ Pool!Running' = Pool!Running /\ finished' = finished
      /\ cancelled' = cancelled /\ (Pool!TypeOK)'
  BY <1>0, <1>1, PoolKept, PoolTypes
<1>3. HandMatchesLoop' /\ Unseen'
  BY <1>0, <1>1, <1>2 DEF HandMatchesLoop, Unseen, netVars, loopVars
<1>4. c \in Known /\ c # hand
  BY <1>0, <1>1 DEF Known, InPool, Unseen
<1>5. ASSUME connections' \subseteq Conns,
             closed' \in [Conns -> BOOLEAN],
             netCloses' \in [Conns -> Nat],
             detect' \in [Conns -> {"start", "read", "lookup", "remove", "close", "return"}],
             outcome' \in [Conns -> {"none", "read error", "unsupported", "handled"}],
             Stage(c)', Filed(c)',
             \A d \in Conns \ {c} :
                /\ detect'[d] = detect[d] /\ outcome'[d] = outcome[d]
                /\ closed'[d] = closed[d] /\ netCloses'[d] = netCloses[d]
                /\ d \in connections' <=> d \in connections
      PROVE  IInv'
  <2>1. TypeOK'
    BY <1>0, <1>1, <1>2, <1>5 DEF TypeOK, netVars, loopVars
  <2>2. ASSUME NEW d \in Conns \ {c} PROVE Stage(d)' /\ Filed(d)'
    BY <1>0, <1>1, <1>2, <1>5, <2>2, ZenonT(60) DEF Stage, Filed, loopVars
  <2> QED BY <1>3, <1>5, <2>1, <2>2 DEF IInv
<1>6. CASE DetectStart(c) \/ ReadSome(c)
  <2>1. /\ detect[c] \in {"start", "read"} /\ UNCHANGED <<connVars, outcome>>
        /\ detect' = [detect EXCEPT ![c] = IF detect[c] = "start" THEN "read" ELSE "lookup"]
    BY <1>6 DEF DetectStart, ReadSome, At, Goto
  <2>2. Stage(c)' /\ Filed(c)'
    BY <1>0, <1>1, <1>2, <2>1 DEF Stage, Filed, connVars, loopVars, TypeOK
  <2> QED BY <1>0, <1>5, <2>1, <2>2 DEF TypeOK, connVars
<1>7. CASE ReadError(c) \/ Unsupported(c)
  <2>1. /\ detect[c] \in {"read", "lookup"}
        /\ RemoveConnection(c)
        /\ outcome' = [outcome EXCEPT ![c] = IF detect[c] = "read" THEN "read error" ELSE "unsupported"]
        /\ detect' = [detect EXCEPT ![c] = IF detect[c] = "read" THEN "return" ELSE "close"]
    BY <1>7 DEF ReadError, Unsupported, At, Goto
  <2>2. c \in connections /\ ~closed[c] /\ netCloses[c] = 0
    BY <1>0, <1>4, <2>1 DEF Stage, Filed, Failed
  <2>3. /\ connections' = connections \ {c}
        /\ closed' = [closed EXCEPT ![c] = TRUE]
        /\ netCloses' = [netCloses EXCEPT ![c] = netCloses[c] + 1]
    BY <2>1, <2>2 DEF RemoveConnection, CloseConn
  <2>4. /\ closed'[c] /\ netCloses'[c] = 1
        /\ \/ detect'[c] = "return" /\ outcome'[c] = "read error"
           \/ detect'[c] = "close" /\ outcome'[c] = "unsupported"
        /\ c \notin connections' /\ c \notin finished
    <3>0. closed \in [Conns -> BOOLEAN] /\ netCloses \in [Conns -> Nat]
      BY <1>0 DEF TypeOK
    <3>1. closed'[c]
      BY <2>3, <3>0
    <3>2. netCloses'[c] = 1
      BY <2>2, <2>3, <3>0
    <3>3. \/ detect'[c] = "return" /\ outcome'[c] = "read error"
          \/ detect'[c] = "close" /\ outcome'[c] = "unsupported"
      BY <1>0, <2>1 DEF TypeOK
    <3>4. c \notin connections' /\ c \notin finished
      BY <1>0, <2>1, <2>3 DEF Stage
    <3> QED BY <3>1, <3>2, <3>3, <3>4
  <2>5. Stage(c)' /\ Filed(c)'
    BY <1>1, <1>2, <1>4, <2>4 DEF Stage, Filed, Failed, loopVars
  <2>6. /\ connections' \subseteq Conns
        /\ closed' \in [Conns -> BOOLEAN]
        /\ netCloses' \in [Conns -> Nat]
        /\ detect' \in [Conns -> {"start", "read", "lookup", "remove", "close", "return"}]
        /\ outcome' \in [Conns -> {"none", "read error", "unsupported", "handled"}]
    <3>1. closed' \in [Conns -> BOOLEAN]
      BY <1>0, <2>3, Zenon DEF TypeOK
    <3>2. netCloses \in [Conns -> Nat]
      BY <1>0 DEF TypeOK
    <3>3. netCloses' = [netCloses EXCEPT ![c] = netCloses[c] + 1]
      BY <2>3
    <3>4. netCloses' \in [Conns -> Nat]
      BY <3>2, <3>3
    <3> QED BY <1>0, <2>1, <2>3, <3>1, <3>4 DEF TypeOK
  <2>7. \A d \in Conns \ {c} :
           /\ detect'[d] = detect[d] /\ outcome'[d] = outcome[d]
           /\ closed'[d] = closed[d] /\ netCloses'[d] = netCloses[d]
           /\ d \in connections' <=> d \in connections
    BY <1>0, <2>1, <2>3 DEF TypeOK
  <2> QED BY <1>5, <2>5, <2>6, <2>7
<1>8. CASE Dispatch(c)
  <2>1. /\ detect[c] = "lookup" /\ UNCHANGED connVars
        /\ outcome' = [outcome EXCEPT ![c] = "handled"]
        /\ detect' = [detect EXCEPT ![c] = "return"]
    BY <1>8 DEF Dispatch, At, Goto
  <2>2. Stage(c)' /\ Filed(c)'
    BY <1>0, <1>1, <1>2, <1>4, <2>1 DEF Stage, Filed, Failed, connVars, loopVars, TypeOK
  <2> QED BY <1>0, <1>5, <2>1, <2>2 DEF TypeOK, connVars
<1>9. CASE CloseAgain(c)
  <2>1. /\ detect[c] = "close" /\ UNCHANGED <<connections, outcome>> /\ CloseConn(c)
        /\ detect' = [detect EXCEPT ![c] = "return"]
    BY <1>9 DEF CloseAgain, At, Goto
  <2>2. outcome[c] = "unsupported" /\ closed[c]
    BY <1>0, <2>1 DEF Stage, Failed
  <2>3. closed' = closed /\ netCloses' = netCloses
    BY <1>0, <2>1, <2>2 DEF CloseConn, TypeOK
  <2>4. Stage(c)' /\ Filed(c)'
    BY <1>0, <1>1, <1>2, <2>1, <2>2, <2>3 DEF Stage, Filed, loopVars, TypeOK
  <2> QED BY <1>0, <1>5, <2>1, <2>3, <2>4 DEF TypeOK
<1> QED BY <1>6, <1>7, <1>8, <1>9 DEF DetectStep

LEMMA InductiveStep == IInv /\ [Next]_vars => IInv'
BY ClientStep, LoopStepNoSubmit, StopStep, PoolStep, DetectionStep DEF Next, LoopStep, Done

LEMMA Inductive == Spec => []IInv
BY InductiveInit, InductiveStep, PTL DEF Spec
-----------------------------------------------------------------------------
(* The variables of the path keep their types.                             *)
THEOREM TypeCorrect == Spec => []TypeOK
BY Inductive, PTL DEF IInv

(* No accepted connection is forgotten, none is closed twice, and what a   *)
(* handler was given is neither closed nor taken from it by the detection, *)
(* whatever the accept loop, Stop, the workers and the clients do.         *)
THEOREM ConnectionsAccountedHolds == Spec => []ConnectionsAccounted
<1>1. IInv => ConnectionsAccounted
  <2> SUFFICES ASSUME IInv PROVE ConnectionsAccounted
    OBVIOUS
  <2>0. TypeOK /\ Unseen /\ \A c \in Conns : Stage(c) /\ Filed(c)
    BY DEF IInv
  <2>1. ASSUME NEW c \in Conns
        PROVE  /\ c \in connections => ~closed[c]
               /\ outcome[c] \in Failed => c \notin connections /\ closed[c]
               /\ outcome[c] = "handled" => c \in connections /\ ~closed[c]
               /\ netCloses[c] = IF closed[c] THEN 1 ELSE 0
    <3>1. Stage(c) /\ Filed(c)
      BY <2>0
    <3>2. outcome[c] # "none" => c \in Known /\ c # hand
      BY <2>0, <3>1 DEF Stage, Unseen, Known, InPool
    <3> QED BY <3>1, <3>2 DEF Stage, Filed, Failed
  <2>2. ClosedOnce
    <3>1. ASSUME NEW c \in Conns PROVE netCloses[c] <= 1
      <4>1. netCloses[c] = 1 \/ netCloses[c] = 0
        BY <2>1
      <4> QED BY <4>1
    <3> QED BY <2>1, <3>1 DEF ClosedOnce
  <2>3. NothingLeftBehind /\ HandlerOwnsConnection
    BY <2>1 DEF NothingLeftBehind, HandlerOwnsConnection, Failed
  <2>4. NoneForgotten
    BY <2>0 DEF Stage, Filed, TypeOK, Failed, Known, InPool, NoneForgotten
  <2> QED BY <2>2, <2>3, <2>4 DEF ConnectionsAccounted
<1> QED BY <1>1, Inductive, PTL

(* The path uses the goroutine pool as GoroutinePool describes: what is    *)
(* proved of the pool holds under the accept loop.                         *)
THEOREM PathUsesPool == Spec => Pool!Spec
<1>1. Init => Pool!Init
  BY DEF Init
<1>2. IInv /\ [Next]_vars => [Pool!Next]_(Pool!vars)
  <2> SUFFICES ASSUME IInv, Next PROVE Pool!Next \/ UNCHANGED Pool!vars
    BY DEF vars, poolVars, Pool!vars
  <2>1. ASSUME UNCHANGED poolVars PROVE UNCHANGED Pool!vars
    BY <2>1, PoolKept
  <2>2. CASE SubmitDetection
    BY <2>2 DEF SubmitDetection, IInv, HandMatchesLoop, Pool!Next
  <2>3. ASSUME NEW w \in Workers, WorkerTakes(w) \/ WorkerFinishes(w) PROVE Pool!Next
    BY <2>3 DEF WorkerTakes, WorkerFinishes, Pool!Next
  <2>4. ASSUME NEW c \in Conns, TempFinishes(c) PROVE Pool!Next
    BY <2>4 DEF TempFinishes, Pool!Next
  <2>5. CASE LoopSelect \/ AcceptError \/ AddConnection \/ StopCancel \/ StopClose \/ StopReturn \/ UNCHANGED vars
    BY <2>1, <2>5 DEF LoopSelect, AcceptError, AddConnection, StopCancel, StopClose, StopReturn, vars
  <2>6. ASSUME NEW c \in Conns,
               Connect(c) \/ Accept(c) \/ DetectStep(c) \/ \E b \in Payloads : Send(c, b)
        PROVE  UNCHANGED Pool!vars
    BY <2>1, <2>6 DEF Connect, Accept, Send, DetectStep, DetectStart, ReadSome, ReadError,
                      Dispatch, Unsupported, CloseAgain
  <2> QED BY <2>2, <2>3, <2>4, <2>5, <2>6 DEF Next, LoopStep, Done
<1> QED BY <1>1, <1>2, Inductive, PTL DEF Spec, Pool!Spec
-----------------------------------------------------------------------------
(* The least of some numbers, and taking one element out of a list.       *)
\* A set of numbers that is not empty has a least one.
LEMMA LeastOf ==
    ASSUME NEW S, S \subseteq Nat, S # {}
    PROVE  \E i \in S : \A j \in S : i <= j
<1> DEFINE R == {ss \in Nat \X Nat : ss[1] < ss[2]}
<1>0. R = OpToRel(<, Nat)
  BY Zenon DEF OpToRel
<1> HIDE DEF R
<1>1. PICK i \in S : \A j \in S : ~(<<j, i>> \in R)
  BY <1>0, NatLessThanWellFounded, WFMin, Zenon
<1>2. \A j \in S : i <= j
  <2>1. ASSUME NEW j \in S, j < i PROVE FALSE
    <3>1. <<j, i>> \in Nat \X Nat /\ <<j, i>>[1] = j /\ <<j, i>>[2] = i
      OBVIOUS
    <3>2. <<j, i>> \in R
      BY <2>1, <3>1 DEF R
    <3> QED BY <1>1, <3>2
  <2> QED BY <2>1
<1> QED BY <1>2

LeastIn(S) == CHOOSE i \in S : \A j \in S : i <= j

\* There is only one least number.
LEMMA LeastIs ==
    ASSUME NEW S, S \subseteq Nat, NEW i \in S, \A j \in S : i <= j
    PROVE  LeastIn(S) = i
<1>1. ASSUME NEW k \in S, \A j \in S : k <= j PROVE k = i
  BY <1>1
<1> QED BY <1>1 DEF LeastIn

\* Taking the i-th element out of a sequence.
LEMMA TakesOut ==
    ASSUME NEW T, NEW s \in Seq(T), NEW i \in 1..Len(s),
           NEW t, t = SubSeq(s, 1, i - 1) \o SubSeq(s, i + 1, Len(s))
    PROVE  /\ t \in Seq(T) /\ Len(t) = Len(s) - 1
           /\ \A j \in 1..(Len(s) - 1) : t[j] = s[IF j < i THEN j ELSE j + 1]
<1> DEFINE before == SubSeq(s, 1, i - 1)
           after == SubSeq(s, i + 1, Len(s))
<1>0. Len(s) \in Nat
  BY LenProperties
<1>1. /\ before \in Seq(T) /\ Len(before) = i - 1
      /\ \A j \in 1..(i - 1) : before[j] = s[j]
  BY <1>0, SubSeqProperties
<1>2. /\ after \in Seq(T) /\ Len(after) = Len(s) - i
      /\ \A j \in 1..(Len(s) - i) : after[j] = s[i + j]
  BY <1>0, SubSeqProperties
<1> HIDE DEF before, after
<1>3. /\ before \o after \in Seq(T)
      /\ Len(before \o after) = Len(before) + Len(after)
      /\ \A j \in 1..(Len(before) + Len(after)) :
            (before \o after)[j] = IF j <= Len(before) THEN before[j]
                                   ELSE after[j - Len(before)]
  BY <1>1, <1>2, ConcatProperties
<1>4. i - 1 + (Len(s) - i) = Len(s) - 1
  BY <1>0
<1>5. ASSUME NEW j \in 1..(Len(s) - 1)
      PROVE  (before \o after)[j] = s[IF j < i THEN j ELSE j + 1]
  <2>1. (before \o after)[j] = IF j <= i - 1 THEN before[j] ELSE after[j - (i - 1)]
    BY <1>1, <1>2, <1>3, <1>4
  <2>2. CASE j < i
    <3>1. j <= i - 1 /\ j \in 1..(i - 1)
      BY <1>0, <2>2
    <3> QED BY <1>1, <2>1, <2>2, <3>1
  <2>3. CASE ~ (j < i)
    <3>1. /\ ~ (j <= i - 1) /\ j - (i - 1) \in 1..(Len(s) - i) /\ i + (j - (i - 1)) = j + 1
      BY <1>0, <2>3
    <3>2. after[j - (i - 1)] = s[i + (j - (i - 1))]
      BY <1>2, <3>1
    <3> QED BY <2>1, <2>3, <3>1, <3>2
  <2> QED BY <2>2, <2>3
<1>6. before \o after = t
  BY DEF before, after
<1> QED BY <1>0, <1>1, <1>2, <1>3, <1>4, <1>5, <1>6
-----------------------------------------------------------------------------
(* The HTTP router.  Requests under way keep the lock from writers, so     *)
(* each one's route is still the one its path has.                         *)
RouteChosen ==
    \A r \in HTTPRequests : request[r] # Router!Outside =>
        /\ request[r] \in Router!Served
        /\ request[r].route = Router!MatchRoute(request[r].method, request[r].path)

RouterInv == Router!TypeOK /\ RouteChosen

\* The earliest of some routes is the one with the least index.
LEMMA FirstOfThose ==
    ASSUME routes \in Seq(Router!Route), NEW S, S \subseteq 1..Len(routes), S # {}
    PROVE  \E i \in S : Router!Earliest(S) = routes[i] /\ \A j \in S : i <= j
<1>1. Len(routes) \in Nat /\ S \subseteq Nat
  OBVIOUS
<1>2. PICK i \in S : \A j \in S : i <= j
  BY <1>1, LeastOf
<1>3. LeastIn(S) = i
  BY <1>1, <1>2, LeastIs
<1> QED BY <1>2, <1>3 DEF Router!Earliest, LeastIn

\* What matchRoute returns is a route of the table, or none.
LEMMA MatchIsRoute ==
    ASSUME routes \in Seq(Router!Route), NEW m, NEW p
    PROVE  Router!MatchRoute(m, p) \in Router!Route \cup {Router!NoRoute}
<1> DEFINE exact == Router!Indices(m, {p})
           pattern == Router!Indices(m, Router!Matching(p))
<1>1. exact \subseteq 1..Len(routes) /\ pattern \subseteq 1..Len(routes)
  BY DEF Router!Indices
<1>2. Router!MatchRoute(m, p) =
        IF exact # {} THEN Router!Earliest(exact)
        ELSE IF pattern # {} THEN Router!Earliest(pattern) ELSE Router!NoRoute
  BY DEF Router!MatchRoute
<1> HIDE DEF exact, pattern
<1>3. \A i \in 1..Len(routes) : routes[i] \in Router!Route
  OBVIOUS
<1>4. CASE exact # {}
  BY <1>1, <1>2, <1>3, <1>4, FirstOfThose
<1>5. CASE exact = {} /\ pattern # {}
  BY <1>1, <1>2, <1>3, <1>5, FirstOfThose
<1> QED BY <1>2, <1>4, <1>5

\* The new route's place comes after the others that match.
LEMMA PlacesGrow ==
    ASSUME routes \in Seq(Router!Route), NEW e \in Router!Route, routes' = Append(routes, e), NEW m, NEW P
    PROVE  /\ Router!Indices(m, P) \subseteq 1..Len(routes)
           /\ Router!Indices(m, P)' =
                Router!Indices(m, P) \cup
                (IF e.method = m /\ e.path \in P THEN {Len(routes) + 1} ELSE {})
<1>1. /\ Len(routes) \in Nat /\ Len(routes') = Len(routes) + 1
      /\ routes'[Len(routes) + 1] = e
      /\ \A i \in 1..Len(routes) : routes'[i] = routes[i]
  OBVIOUS
<1>2. 1..Len(routes') = (1..Len(routes)) \cup {Len(routes) + 1}
  BY <1>1
<1> QED BY <1>1, <1>2 DEF Router!Indices

\* Adding a route at the end leaves the first match first.
LEMMA FirstStays ==
    ASSUME routes \in Seq(Router!Route), NEW e \in Router!Route, routes' = Append(routes, e),
           NEW S, S \subseteq 1..Len(routes), S # {},
           NEW T, T = S \/ T = S \cup {Len(routes) + 1}
    PROVE  routes'[LeastIn(T)] = Router!Earliest(S)
<1>0. Len(routes) \in Nat
  BY LenProperties
<1>1. Len(routes) \in Nat /\ S \subseteq Nat /\ T \subseteq Nat
  <2>1. S \subseteq Nat /\ Len(routes) + 1 \in Nat
    BY <1>0
  <2> QED BY <1>0, <2>1
<1>2. PICK i \in S : \A j \in S : i <= j
  BY <1>1, LeastOf
<1>a. \A j \in T : j \in S \/ j = Len(routes) + 1
  OBVIOUS
<1>b. i <= Len(routes) + 1
  BY <1>1, <1>2
<1>3. i \in T /\ \A j \in T : i <= j
  BY <1>2, <1>a, <1>b
<1>4. LeastIn(S) = i /\ LeastIn(T) = i
  BY <1>1, <1>2, <1>3, LeastIs
<1>5. routes'[i] = routes[i]
  BY <1>1, <1>2
<1> QED BY <1>4, <1>5 DEF Router!Earliest, LeastIn

\* A new route takes over only paths that it names and a pattern had.
LEMMA NewRouteSettles ==
    ASSUME routes \in Seq(Router!Route), NEW e \in Router!Route, routes' = Append(routes, e), NEW m, NEW p,
           Router!MatchRoute(m, p) # Router!NoRoute,
           Router!MatchRoute(m, p)' # Router!MatchRoute(m, p)
    PROVE  Router!MatchRoute(m, p).path \in Patterns /\ Router!MatchRoute(m, p)'.path = p
<1> DEFINE exact == Router!Indices(m, {p})
           pattern == Router!Indices(m, Router!Matching(p))
           exact2 == Router!Indices(m, {p})'
           pattern2 == Router!Indices(m, Router!Matching(p))'
<1>1. Router!MatchRoute(m, p) =
        IF exact # {} THEN Router!Earliest(exact)
        ELSE IF pattern # {} THEN Router!Earliest(pattern) ELSE Router!NoRoute
  BY DEF Router!MatchRoute
<1>2. Router!MatchRoute(m, p)' =
        IF exact2 # {} THEN routes'[LeastIn(exact2)]
        ELSE IF pattern2 # {} THEN routes'[LeastIn(pattern2)] ELSE Router!NoRoute
  BY DEF Router!MatchRoute, Router!Earliest, Router!Indices, Router!Matching, Router!NoRoute,
     LeastIn
<1>3. /\ exact \subseteq 1..Len(routes) /\ pattern \subseteq 1..Len(routes)
      /\ exact2 = exact \cup (IF e.method = m /\ e.path = p THEN {Len(routes) + 1} ELSE {})
      /\ pattern2 = pattern \/ pattern2 = pattern \cup {Len(routes) + 1}
  <2>1. /\ exact \subseteq 1..Len(routes)
        /\ exact2 = exact \cup (IF e.method = m /\ e.path \in {p} THEN {Len(routes) + 1} ELSE {})
    BY PlacesGrow
  <2>2. /\ pattern \subseteq 1..Len(routes)
        /\ pattern2 = pattern \cup
             (IF e.method = m /\ e.path \in Router!Matching(p) THEN {Len(routes) + 1} ELSE {})
    <3>1. Router!Matching(p)' = Router!Matching(p)
      BY DEF Router!Matching
    <3> QED BY <3>1, PlacesGrow
  <2> HIDE DEF exact, pattern, exact2, pattern2
  <2> QED BY <2>1, <2>2
<1>4. \A i \in pattern : routes[i].path \in Patterns
  BY DEF Router!Indices, Router!Matching
<1> HIDE DEF exact, pattern, exact2, pattern2
<1>5. exact = {}
  <2>1. ASSUME exact # {} PROVE FALSE
    <3>1. exact2 # {} /\ (exact2 = exact \/ exact2 = exact \cup {Len(routes) + 1})
      BY <1>3, <2>1
    <3>2. routes'[LeastIn(exact2)] = Router!Earliest(exact)
      BY <1>3, <2>1, <3>1, FirstStays
    <3> QED BY <1>1, <1>2, <2>1, <3>1, <3>2
  <2> QED BY <2>1
<1>6. pattern # {} /\ Router!MatchRoute(m, p) = Router!Earliest(pattern)
  BY <1>1, <1>5
<1>7. Router!MatchRoute(m, p).path \in Patterns
  <2>1. PICK i \in pattern : Router!Earliest(pattern) = routes[i]
    BY <1>3, <1>6, FirstOfThose
  <2> QED BY <1>4, <1>6, <2>1
<1>8. exact2 # {}
  <2>1. ASSUME exact2 = {} PROVE FALSE
    <3>1. pattern2 # {} /\ routes'[LeastIn(pattern2)] = Router!Earliest(pattern)
      BY <1>3, <1>6, FirstStays
    <3> QED BY <1>2, <1>6, <2>1, <3>1
  <2> QED BY <2>1
<1>9. exact2 = {Len(routes) + 1} /\ e.path = p
  BY <1>3, <1>5, <1>8
<1>10. Len(routes) \in Nat /\ routes'[Len(routes) + 1] = e
  BY AppendProperties
<1>11. LeastIn(exact2) = Len(routes) + 1
  <2>1. \A j \in exact2 : Len(routes) + 1 <= j
    BY <1>9, <1>10
  <2>2. exact2 \subseteq Nat /\ Len(routes) + 1 \in exact2
    BY <1>9, <1>10
  <2> QED BY <2>1, <2>2, LeastIs
<1> QED BY <1>2, <1>7, <1>8, <1>9, <1>10, <1>11
-----------------------------------------------------------------------------
\* Initially no request is under way.
LEMMA RouterInitInv == Router!Init => RouterInv
<1> SUFFICES ASSUME Router!Init PROVE RouterInv
  OBVIOUS
<1>1. <<>> \in Seq(Router!Route) /\ Len(<<>>) = 0
  OBVIOUS
<1> QED BY <1>1, RoutingAssumption
  DEF Router!Init, RouterInv, Router!TypeOK, RouteChosen

\* Steps that neither add a route nor serve a request.
LEMMA QuietRouter ==
    ASSUME RouterInv, UNCHANGED <<routes, trees>>, middlewares' \in 0..1,
           writer' \in [Writers -> {"idle", "routing", "using"}],
           \A r \in HTTPRequests : request'[r] = Router!Outside \/ request'[r] = request[r]
    PROVE  RouterInv'
<1>1. \A m, p : Router!MatchRoute(m, p)' = Router!MatchRoute(m, p)
  BY DEF Router!MatchRoute, Router!Earliest, Router!Indices, Router!Matching, Router!NoRoute
<1>2. RouteChosen'
  BY <1>1 DEF RouterInv, RouteChosen, Router!Outside, Router!Served
<1>3. Router!TypeOK'
  BY DEF RouterInv, Router!TypeOK, Router!Outside, Router!Served
<1> QED BY <1>2, <1>3 DEF RouterInv

\* A chain of middlewares is as long as there may be middlewares.
LEMMA ChainsOfRequests ==
    ASSUME NEW route
    PROVE  (IF route = Router!NoRoute THEN <<>> ELSE Router!BuildHandler(route))
                \in {<<>>, <<"global">>, <<"route">>, <<"global", "route">>}
<1>1. <<>> \o <<>> = <<>>
  OBVIOUS
<1>2. <<"global">> \o <<>> = <<"global">>
  OBVIOUS
<1>3. <<>> \o <<"route">> = <<"route">>
  OBVIOUS
<1>4. <<"global">> \o <<"route">> = <<"global", "route">>
  <2> DEFINE g == <<"global">>
             o == <<"route">>
             both == <<"global", "route">>
             words == {"global", "route"}
  <2>a. g \in Seq(words) /\ Len(g) = 1 /\ g[1] = "global"
    OBVIOUS
  <2>b. o \in Seq(words) /\ Len(o) = 1 /\ o[1] = "route"
    OBVIOUS
  <2>c. both \in Seq(words) /\ Len(both) = 2 /\ both[1] = "global" /\ both[2] = "route"
    OBVIOUS
  <2> HIDE DEF g, o, both, words
  <2>2. /\ g \o o \in Seq(words) /\ Len(g \o o) = 2
        /\ (g \o o)[1] = "global" /\ (g \o o)[2] = "route"
    <3>1. /\ g \o o \in Seq(words) /\ Len(g \o o) = Len(g) + Len(o)
          /\ \A i \in 1..(Len(g) + Len(o)) :
                (g \o o)[i] = IF i <= Len(g) THEN g[i] ELSE o[i - Len(g)]
      BY <2>a, <2>b, ConcatProperties, Zenon
    <3>2. Len(g) + Len(o) = 2 /\ 2 - Len(g) = 1 /\ 1 <= Len(g) /\ ~ (2 <= Len(g))
      BY <2>a, <2>b
    <3>3. 1 \in 1..(Len(g) + Len(o)) /\ 2 \in 1..(Len(g) + Len(o))
      BY <3>2
    <3>4. (g \o o)[1] = g[1] /\ (g \o o)[2] = o[1]
      BY <3>1, <3>2, <3>3, Zenon
    <3> QED BY <2>a, <2>b, <3>1, <3>2, <3>4
  <2>3. \A i \in 1..2 : (g \o o)[i] = both[i]
    BY <2>c, <2>2
  <2>4. g \o o = both
    BY <2>c, <2>2, <2>3, SeqEqual
  <2> QED BY <2>4 DEF g, o, both
<1> DEFINE global == IF middlewares = 1 THEN <<"global">> ELSE <<>>
           own == IF route.own THEN <<"route">> ELSE <<>>
<1>5. (global = <<"global">> \/ global = <<>>) /\ (own = <<"route">> \/ own = <<>>)
  OBVIOUS
<1>6. Router!BuildHandler(route) = global \o own
  BY DEF Router!BuildHandler
<1> HIDE DEF global, own
<1>7. global \o own \in {<<>>, <<"global">>, <<"route">>, <<"global", "route">>}
  BY <1>1, <1>2, <1>3, <1>4, <1>5, Zenon
<1> QED BY <1>6, <1>7

\* ServeHTTP chooses the route that the path has.
LEMMA ServesRequest ==
    ASSUME RouterInv, NEW r \in HTTPRequests, NEW m \in Methods, NEW p \in Paths,
           Router!ServeHTTP(r, m, p)
    PROVE  RouterInv'
<1> DEFINE route == Router!MatchRoute(m, p)
           q == [stage |-> "serving", method |-> m, path |-> p, route |-> route,
                 chain |-> IF route = Router!NoRoute THEN <<>> ELSE Router!BuildHandler(route)]
<1>1. /\ UNCHANGED <<routes, middlewares, trees, writer>>
      /\ request' = [request EXCEPT ![r] = q]
  BY DEF Router!ServeHTTP
<1>2. q \in Router!Served
  <2>1. route \in Router!Route \cup {Router!NoRoute}
    BY MatchIsRoute DEF RouterInv, Router!TypeOK
  <2> HIDE DEF route
  <2> QED BY <2>1, ChainsOfRequests DEF Router!Served
<1>3. q.method = m /\ q.path = p /\ q.route = Router!MatchRoute(m, p)
  OBVIOUS
<1> HIDE DEF q
<1>4. \A s \in HTTPRequests : request'[s] = request[s] \/ (s = r /\ request'[s] = q)
  BY <1>1
<1>5. \A n, o : Router!MatchRoute(n, o)' = Router!MatchRoute(n, o)
  BY <1>1 DEF Router!MatchRoute, Router!Earliest, Router!Indices, Router!Matching, Router!NoRoute
<1>6. \A s \in HTTPRequests : request'[s] = Router!Outside \/ request'[s] \in Router!Served
  BY <1>2, <1>4 DEF RouterInv, RouteChosen
<1>7. RouteChosen'
  <2>1. ASSUME NEW s \in HTTPRequests, request'[s] # Router!Outside
        PROVE  /\ request'[s] \in Router!Served
               /\ request'[s].route = Router!MatchRoute(request'[s].method, request'[s].path)
    BY <1>2, <1>3, <1>4, <2>1 DEF RouterInv, RouteChosen
  <2> QED BY <1>5, <2>1 DEF RouteChosen, Router!Outside, Router!Served
<1>8. Router!TypeOK'
  BY <1>1, <1>6 DEF RouterInv, Router!TypeOK, Router!Outside, Router!Served
<1> QED BY <1>7, <1>8 DEF RouterInv

\* AddRoute waits for the requests under way to leave.
LEMMA AddsRoute ==
    ASSUME RouterInv, NEW w \in Writers, NEW m \in Methods, NEW p \in Router!RoutePaths,
           NEW own \in BOOLEAN, Router!AddRouteWithMiddleware(w, m, p, own)
    PROVE  RouterInv'
<1> DEFINE e == [method |-> m, path |-> p, own |-> own]
<1>1. e \in Router!Route
  BY DEF Router!Route
<1>2. /\ routes' = Append(routes, e) /\ Len(routes) < MaxRoutes
      /\ writer' = [writer EXCEPT ![w] = "idle"] /\ UNCHANGED <<middlewares, request>>
      /\ \A r \in HTTPRequests : request[r] = Router!Outside
      /\ trees' = [n \in DOMAIN trees \cup {m} |->
                    IF n = m THEN Router!Insert(IF m \in DOMAIN trees THEN trees[m] ELSE <<>>, p)
                    ELSE trees[n]]
  BY DEF Router!AddRouteWithMiddleware, Router!NoReader
<1>3. routes' \in Seq(Router!Route) /\ Len(routes') <= MaxRoutes
  BY <1>1, <1>2, AppendProperties, RoutingAssumption DEF RouterInv, Router!TypeOK
<1>4. \A n \in DOMAIN trees' : \A c \in DOMAIN trees'[n] : trees'[n][c] \in Router!RoutePaths
  <2>1. ASSUME NEW tree, \A c \in DOMAIN tree : tree[c] \in Router!RoutePaths
        PROVE  \A c \in DOMAIN Router!Insert(tree, p) :
                    Router!Insert(tree, p)[c] \in Router!RoutePaths
    BY <2>1 DEF Router!Insert
  <2>2. \A c \in DOMAIN <<>> : <<>>[c] \in Router!RoutePaths
    OBVIOUS
  <2>3. \A n \in DOMAIN trees : \A c \in DOMAIN trees[n] : trees[n][c] \in Router!RoutePaths
    BY DEF RouterInv, Router!TypeOK
  <2>4. ASSUME NEW n \in DOMAIN trees'
        PROVE  \A c \in DOMAIN trees'[n] : trees'[n][c] \in Router!RoutePaths
    <3>1. CASE n # m
      BY <1>2, <2>3, <2>4, <3>1
    <3>2. CASE n = m /\ m \in DOMAIN trees
      BY <1>2, <2>1, <2>3, <3>2
    <3>3. CASE n = m /\ m \notin DOMAIN trees
      BY <1>2, <2>1, <2>2, <3>3
    <3> QED BY <3>1, <3>2, <3>3
  <2> QED BY <2>4
<1>5. DOMAIN trees' \subseteq Methods
  BY <1>2 DEF RouterInv, Router!TypeOK
<1>6. writer' \in [Writers -> {"idle", "routing", "using"}]
  BY <1>2 DEF RouterInv, Router!TypeOK
<1>7. Router!TypeOK'
  BY <1>2, <1>3, <1>4, <1>5, <1>6
  DEF RouterInv, Router!TypeOK, Router!Outside, Router!Served, Router!Route, Router!RoutePaths,
      Router!NoRoute
<1>8. RouteChosen'
  BY <1>2 DEF RouteChosen, Router!Outside
<1> QED BY <1>7, <1>8 DEF RouterInv

\* Every step of the router keeps the invariant.
LEMMA RouterNextInv == RouterInv /\ [Router!Next]_routerVars => RouterInv'
<1> SUFFICES ASSUME RouterInv, [Router!Next]_routerVars PROVE RouterInv'
  OBVIOUS
<1>1. ASSUME NEW w \in Writers, Router!AskRoute(w) \/ Router!AskUse(w) \/ Router!Use(w)
      PROVE  RouterInv'
  <2>1. /\ UNCHANGED <<routes, trees, request>> /\ middlewares' \in 0..1
        /\ writer' \in [Writers -> {"idle", "routing", "using"}]
    BY <1>1 DEF Router!AskRoute, Router!AskUse, Router!Ask, Router!Use, RouterInv, Router!TypeOK
  <2> QED BY <2>1, QuietRouter
<1>2. ASSUME NEW r \in HTTPRequests, Router!Return(r) PROVE RouterInv'
  <2>1. /\ UNCHANGED <<routes, middlewares, trees, writer>>
        /\ \A s \in HTTPRequests : request'[s] = Router!Outside \/ request'[s] = request[s]
    BY <1>2 DEF Router!Return
  <2> QED BY <2>1, QuietRouter DEF RouterInv, Router!TypeOK
<1>3. CASE UNCHANGED routerVars
  BY <1>3, QuietRouter DEF routerVars, RouterInv, Router!TypeOK
<1> QED BY <1>1, <1>2, <1>3, AddsRoute, ServesRequest DEF Router!Next

\* What each step of the router keeps: AnswersSettle.
LEMMA RouterSettles ==
    ASSUME RouterInv, [Router!Next]_routerVars, NEW m \in Methods, NEW p \in Paths
    PROVE  /\ Router!MatchRoute(m, p) # Router!NoRoute
              /\ Router!MatchRoute(m, p)' # Router!MatchRoute(m, p)
              => Router!MatchRoute(m, p).path \in Patterns /\ Router!MatchRoute(m, p)'.path = p
           /\ \A r \in HTTPRequests : request[r] # Router!Outside =>
                (request[r].method = m /\ request[r].path = p =>
                    request[r].route = Router!MatchRoute(m, p)')
<1>1. CASE UNCHANGED routes
  <2>1. Router!MatchRoute(m, p)' = Router!MatchRoute(m, p)
    BY <1>1 DEF Router!MatchRoute, Router!Earliest, Router!Indices, Router!Matching, Router!NoRoute
  <2> QED BY <2>1 DEF RouterInv, RouteChosen
<1>2. ASSUME NEW w \in Writers, NEW n \in Methods, NEW o \in Router!RoutePaths,
             NEW own \in BOOLEAN, Router!AddRouteWithMiddleware(w, n, o, own)
      PROVE  /\ \A r \in HTTPRequests : request[r] = Router!Outside
             /\ \E e \in Router!Route : routes' = Append(routes, e)
  BY <1>2 DEF Router!AddRouteWithMiddleware, Router!NoReader, Router!Route
<1>3. \/ UNCHANGED routes
      \/ /\ \A r \in HTTPRequests : request[r] = Router!Outside
         /\ \E e \in Router!Route : routes' = Append(routes, e)
  BY <1>2 DEF Router!Next, routerVars, Router!AskRoute, Router!AskUse, Router!Ask, Router!Use,
     Router!ServeHTTP, Router!Return
<1>4. ASSUME NEW e \in Router!Route, routes' = Append(routes, e),
             Router!MatchRoute(m, p) # Router!NoRoute,
             Router!MatchRoute(m, p)' # Router!MatchRoute(m, p)
      PROVE  Router!MatchRoute(m, p).path \in Patterns /\ Router!MatchRoute(m, p)'.path = p
  BY <1>4, NewRouteSettles DEF RouterInv, Router!TypeOK
<1> QED BY <1>1, <1>3, <1>4
-----------------------------------------------------------------------------
(* The message bus.  A target is sent to once more only while it has an    *)
(* attempt left, and what arrived is no more than what was tried.          *)
Attempts(p, t) ==
    /\ stage[p][t] \in {"lookup", "send"} => tries[p][t] <= RetryAttempts
    /\ stage[p][t] = "ok" => received[p][t] >= 1
    /\ received[p][t] <= tries[p][t]

BusInv ==
    /\ Bus!TypeOK /\ Bus!IndexAgrees /\ Bus!AtLeastOnce /\ DOMAIN targets = Publishers
    /\ \A p \in Publishers, t \in Bus!Targets : Attempts(p, t)

Publishing == {p \in Publishers : busJob[p] = "publish"}

\* The publishers under way can be counted.
LEMMA PublishingIsFinite == IsFiniteSet(Publishing) /\ Cardinality(Publishing) \in Nat
<1>1. Publishing \subseteq Publishers
  BY DEF Publishing
<1> QED BY <1>1, RoutingAssumption, FS_Subset, FS_CardinalityType

\* Initially nobody is subscribed and nothing is published.
LEMMA BusInitInv == Bus!Init => BusInv
<1> SUFFICES ASSUME Bus!Init PROVE BusInv
  OBVIOUS
<1>1. Publishing = {} /\ Cardinality(Publishing) = 0
  BY FS_EmptySet DEF Publishing, Bus!Init
<1>2. DOMAIN Bus!Nothing = {} /\ \A p \in Publishers : targets[p] = Bus!Nothing
  BY DEF Bus!Nothing, Bus!Init
<1>3. Bus!TypeOK
  BY <1>2, RoutingAssumption
  DEF Bus!Init, Bus!TypeOK, Bus!Subs, Bus!Zero, Bus!Targets
<1>4. Bus!IndexAgrees
  BY <1>2 DEF Bus!Init, Bus!IndexAgrees, Bus!Subs
<1>5. Bus!AtLeastOnce
  <2>1. \A p \in Publishers : DOMAIN targets[p] = {}
    BY <1>2
  <2>2. published = 0 /\ delivered = 0 /\ failed = 0
    BY DEF Bus!Init
  <2>3. Cardinality({p \in Publishers : busJob[p] = "publish"}) = 0
    BY <1>1 DEF Publishing
  <2>4. published = delivered + failed + Cardinality({p \in Publishers : busJob[p] = "publish"})
    BY <2>2, <2>3
  <2>5. \A p \in Publishers : \A t \in DOMAIN targets[p] :
            (stage[p][t] = "ok" => received[p][t] >= 1) /\ received[p][t] <= tries[p][t]
    BY <2>1
  <2> QED BY <2>4, <2>5 DEF Bus!AtLeastOnce, Bus!Cardinality, Cardinality
<1>6. \A p \in Publishers, t \in Bus!Targets : Attempts(p, t)
  BY RoutingAssumption DEF Bus!Init, Attempts, Bus!Zero
<1> QED BY <1>3, <1>4, <1>5, <1>6 DEF BusInv, Bus!Init

\* Steps that leave the publishers' work alone.
LEMMA RegistryStep ==
    ASSUME BusInv,
           UNCHANGED <<busJob, targets, stage, tries, received, published, delivered, failed>>,
           busKnown' \subseteq Clients, gone' \subseteq Clients, inactive' \subseteq Clients,
           closing' \in {"no", "cancelled", "closed"},
           DOMAIN subscriptions' \subseteq SubIds,
           \A s \in DOMAIN subscriptions' :
                /\ subscriptions'[s] \in [conn : Clients, topic : Topics]
                /\ subscriptions'[s].conn \in busKnown',
           topicSubs' \in [Topics -> [SubIds -> Nat]],
           \A t \in Topics, s \in SubIds :
                topicSubs'[t][s] =
                    IF s \in DOMAIN subscriptions' /\ subscriptions'[s].topic = t THEN 1 ELSE 0
    PROVE  BusInv'
<1>1. Bus!TypeOK'
  BY DEF BusInv, Bus!TypeOK, Bus!Subs, Bus!Targets
<1>2. Bus!IndexAgrees'
  BY DEF Bus!IndexAgrees, Bus!Subs
<1>3. Bus!AtLeastOnce'
  BY DEF BusInv, Bus!AtLeastOnce
<1>4. (\A p \in Publishers, t \in Bus!Targets : Attempts(p, t))'
  BY DEF BusInv, Attempts, Bus!Targets
<1> QED BY <1>1, <1>2, <1>3, <1>4 DEF BusInv

\* And a step that leaves them alone keeps them in agreement.
LEMMA RegistryKept ==
    ASSUME BusInv, UNCHANGED <<subscriptions, topicSubs>>,
           UNCHANGED <<busJob, targets, stage, tries, received, published, delivered, failed>>,
           busKnown \subseteq busKnown', busKnown' \subseteq Clients,
           gone' \subseteq Clients, inactive' \subseteq Clients,
           closing' \in {"no", "cancelled", "closed"}
    PROVE  BusInv'
BY RegistryStep DEF BusInv, Bus!TypeOK, Bus!IndexAgrees, Bus!Subs

\* Dropping subscriptions drops their places in the index.
LEMMA Unlists ==
    ASSUME BusInv, NEW ids, ids \subseteq DOMAIN subscriptions,
           subscriptions' = Bus!Without(subscriptions, ids), topicSubs' = Bus!Unlisted(ids)
    PROVE  /\ DOMAIN subscriptions' = (DOMAIN subscriptions) \ ids
           /\ \A s \in DOMAIN subscriptions' : subscriptions'[s] = subscriptions[s]
           /\ topicSubs' \in [Topics -> [SubIds -> Nat]]
           /\ \A t \in Topics, s \in SubIds :
                topicSubs'[t][s] =
                    IF s \in DOMAIN subscriptions' /\ subscriptions'[s].topic = t THEN 1 ELSE 0
<1>1. /\ DOMAIN subscriptions' = (DOMAIN subscriptions) \ ids
      /\ \A s \in DOMAIN subscriptions' : subscriptions'[s] = subscriptions[s]
  BY DEF Bus!Without
<1>2. \A t \in Topics, s \in SubIds :
        /\ topicSubs[t][s] \in Nat
        /\ topicSubs[t][s] =
             IF s \in DOMAIN subscriptions /\ subscriptions[s].topic = t THEN 1 ELSE 0
  BY DEF BusInv, Bus!TypeOK, Bus!IndexAgrees, Bus!Subs
<1>3. \A t \in Topics, s \in SubIds :
        topicSubs'[t][s] = IF s \in ids /\ subscriptions[s].topic = t /\ topicSubs[t][s] > 0
                           THEN topicSubs[t][s] - 1 ELSE topicSubs[t][s]
  BY DEF Bus!Unlisted
<1>4. \A t \in Topics, s \in SubIds :
        topicSubs'[t][s] =
            IF s \in DOMAIN subscriptions' /\ subscriptions'[s].topic = t THEN 1 ELSE 0
  BY <1>1, <1>2, <1>3
<1>5. topicSubs' \in [Topics -> [SubIds -> Nat]]
  <2>1. topicSubs' = [t \in Topics |-> [s \in SubIds |-> topicSubs'[t][s]]]
    BY DEF Bus!Unlisted
  <2>2. \A t \in Topics, s \in SubIds : topicSubs'[t][s] \in Nat
    BY <1>4
  <2> QED BY <2>1, <2>2
<1> QED BY <1>1, <1>4, <1>5

LEMMA Forgets ==
    ASSUME BusInv, NEW cs, Bus!Forget(cs),
           UNCHANGED <<inactive, busJob, targets, stage, tries, received, published, delivered,
                       failed, closing>>
    PROVE  BusInv'
<1>1. Bus!SubsOf(cs) \subseteq DOMAIN subscriptions
  BY DEF Bus!SubsOf, Bus!Subs
<1>2. /\ DOMAIN subscriptions' = (DOMAIN subscriptions) \ Bus!SubsOf(cs)
      /\ \A s \in DOMAIN subscriptions' : subscriptions'[s] = subscriptions[s]
      /\ topicSubs' \in [Topics -> [SubIds -> Nat]]
      /\ \A t \in Topics, s \in SubIds :
            topicSubs'[t][s] =
                IF s \in DOMAIN subscriptions' /\ subscriptions'[s].topic = t THEN 1 ELSE 0
  BY <1>1, Unlists DEF Bus!Forget
<1>3. \A s \in DOMAIN subscriptions :
        /\ s \in SubIds /\ subscriptions[s] \in [conn : Clients, topic : Topics]
        /\ subscriptions[s].conn \in busKnown
  BY DEF BusInv, Bus!TypeOK, Bus!IndexAgrees, Bus!Subs
<1>4. \A s \in DOMAIN subscriptions' :
        /\ s \in DOMAIN subscriptions /\ s \notin Bus!SubsOf(cs)
        /\ subscriptions'[s] = subscriptions[s]
  BY <1>2
<1>5. \A s \in DOMAIN subscriptions' : subscriptions'[s].conn \in busKnown'
  BY <1>3, <1>4 DEF Bus!SubsOf, Bus!Subs, Bus!Forget
<1>6. busKnown' \subseteq Clients /\ gone' \subseteq Clients
  BY DEF Bus!Forget, BusInv, Bus!TypeOK
<1> QED BY <1>2, <1>3, <1>4, <1>5, <1>6, RegistryStep DEF BusInv, Bus!TypeOK

LEMMA Subscribes ==
    ASSUME BusInv, NEW s \in SubIds, NEW c \in Clients, NEW t \in Topics, Bus!Subscribe(s, c, t)
    PROVE  BusInv'
<1>1. /\ s \notin DOMAIN subscriptions /\ c \in busKnown
      /\ subscriptions' = [x \in (DOMAIN subscriptions) \cup {s} |->
                            IF x = s THEN [conn |-> c, topic |-> t] ELSE subscriptions[x]]
      /\ topicSubs' = [topicSubs EXCEPT ![t][s] = @ + 1]
      /\ UNCHANGED <<busKnown, gone, inactive, busJob, targets, stage, tries, received,
                     published, delivered, failed, closing>>
  BY DEF Bus!Subscribe, Bus!Subs, Bus!work, Bus!metrics
<1>2. /\ \A x \in DOMAIN subscriptions :
            /\ x \in SubIds /\ subscriptions[x] \in [conn : Clients, topic : Topics]
            /\ subscriptions[x].conn \in busKnown
      /\ topicSubs \in [Topics -> [SubIds -> Nat]]
      /\ \A u \in Topics, x \in SubIds :
            topicSubs[u][x] =
                IF x \in DOMAIN subscriptions /\ subscriptions[x].topic = u THEN 1 ELSE 0
  BY DEF BusInv, Bus!TypeOK, Bus!IndexAgrees, Bus!Subs
<1>3. /\ DOMAIN subscriptions' = (DOMAIN subscriptions) \cup {s}
      /\ subscriptions'[s] = [conn |-> c, topic |-> t]
      /\ \A x \in DOMAIN subscriptions : subscriptions'[x] = subscriptions[x]
  BY <1>1
<1>4. topicSubs' \in [Topics -> [SubIds -> Nat]]
  BY <1>1, <1>2
<1>5. \A u \in Topics, x \in SubIds :
        topicSubs'[u][x] = IF u = t /\ x = s THEN topicSubs[u][x] + 1 ELSE topicSubs[u][x]
  BY <1>1, <1>2
<1>6. \A u \in Topics, x \in SubIds :
        topicSubs'[u][x] =
            IF x \in DOMAIN subscriptions' /\ subscriptions'[x].topic = u THEN 1 ELSE 0
  BY <1>1, <1>2, <1>3, <1>5
<1>7. \A x \in DOMAIN subscriptions' :
        /\ subscriptions'[x] \in [conn : Clients, topic : Topics]
        /\ subscriptions'[x].conn \in busKnown'
  BY <1>1, <1>2, <1>3
<1>8. DOMAIN subscriptions' \subseteq SubIds
  BY <1>2, <1>3
<1> QED BY <1>1, <1>4, <1>6, <1>7, <1>8, RegistryStep DEF BusInv, Bus!TypeOK

LEMMA Unsubscribes ==
    ASSUME BusInv, NEW s \in SubIds, Bus!Unsubscribe(s)
    PROVE  BusInv'
<1>1. /\ s \in DOMAIN subscriptions
      /\ subscriptions' = Bus!Without(subscriptions, {s}) /\ topicSubs' = Bus!Unlisted({s})
      /\ UNCHANGED <<busKnown, gone, inactive, busJob, targets, stage, tries, received,
                     published, delivered, failed, closing>>
  BY DEF Bus!Unsubscribe, Bus!Subs, Bus!work, Bus!metrics
<1>2. /\ DOMAIN subscriptions' = (DOMAIN subscriptions) \ {s}
      /\ \A x \in DOMAIN subscriptions' : subscriptions'[x] = subscriptions[x]
      /\ topicSubs' \in [Topics -> [SubIds -> Nat]]
      /\ \A u \in Topics, x \in SubIds :
            topicSubs'[u][x] =
                IF x \in DOMAIN subscriptions' /\ subscriptions'[x].topic = u THEN 1 ELSE 0
  BY <1>1, Unlists
<1>3. \A x \in DOMAIN subscriptions :
        /\ x \in SubIds /\ subscriptions[x] \in [conn : Clients, topic : Topics]
        /\ subscriptions[x].conn \in busKnown
  BY DEF BusInv, Bus!TypeOK, Bus!IndexAgrees, Bus!Subs
<1>4. /\ DOMAIN subscriptions' \subseteq SubIds
      /\ \A x \in DOMAIN subscriptions' :
            /\ subscriptions'[x] \in [conn : Clients, topic : Topics]
            /\ subscriptions'[x].conn \in busKnown'
  BY <1>1, <1>2, <1>3
<1> QED BY <1>1, <1>2, <1>4, RegistryStep DEF BusInv, Bus!TypeOK
-----------------------------------------------------------------------------
\* Steps of the delivery to one target.
LEMMA DeliveryKept ==
    ASSUME BusInv, NEW p \in Publishers, NEW t \in Bus!Targets,
           UNCHANGED <<busKnown, gone, inactive, subscriptions, topicSubs, busJob, targets,
                       published, delivered, failed, closing>>,
           stage' \in [Publishers ->
                [Bus!Targets -> {"none", "lookup", "send", "ok", "filtered", "error"}]],
           tries' \in [Publishers -> [Bus!Targets -> 0..(RetryAttempts + 1)]],
           received' \in [Publishers -> [Bus!Targets -> 0..(RetryAttempts + 1)]],
           \A q \in Publishers, u \in Bus!Targets : q # p \/ u # t =>
                stage'[q][u] = stage[q][u] /\ tries'[q][u] = tries[q][u]
                /\ received'[q][u] = received[q][u],
           Attempts(p, t)'
    PROVE  BusInv'
<1>1. (\A q \in Publishers, u \in Bus!Targets : Attempts(q, u))'
  <2>1. ASSUME NEW q \in Publishers, NEW u \in Bus!Targets, q # p \/ u # t
        PROVE  Attempts(q, u)'
    BY <2>1 DEF BusInv, Attempts
  <2> QED BY <2>1 DEF Bus!Targets
<1>2. Bus!TypeOK'
  BY DEF BusInv, Bus!TypeOK, Bus!Subs, Bus!Targets
<1>3. Bus!IndexAgrees'
  BY DEF BusInv, Bus!IndexAgrees, Bus!Subs
<1>4. Bus!AtLeastOnce'
  <2>1. \A q \in Publishers : DOMAIN targets'[q] \subseteq Bus!Targets
    BY DEF BusInv, Bus!TypeOK
  <2> QED BY <1>1, <2>1 DEF BusInv, Bus!AtLeastOnce, Attempts, Bus!Targets
<1> QED BY <1>1, <1>2, <1>3, <1>4 DEF BusInv

\* One target's goroutine moves on without a call of Send.
LEMMA MovesOn ==
    ASSUME BusInv, NEW p \in Publishers, NEW t \in Bus!Targets, NEW from, NEW to,
           to \in {"lookup", "send", "filtered", "error"},
           from \in {"lookup", "send"},
           Bus!Steps(p, t, from, to),
           UNCHANGED <<busKnown, gone, inactive, subscriptions, topicSubs, busJob, targets,
                       tries, received, published, delivered, failed, closing>>
    PROVE  BusInv'
<1>1. /\ stage \in [Publishers ->
                [Bus!Targets -> {"none", "lookup", "send", "ok", "filtered", "error"}]]
      /\ tries \in [Publishers -> [Bus!Targets -> 0..(RetryAttempts + 1)]]
      /\ received \in [Publishers -> [Bus!Targets -> 0..(RetryAttempts + 1)]]
  BY DEF BusInv, Bus!TypeOK
<1>2. stage[p][t] = from /\ stage' = [stage EXCEPT ![p][t] = to]
  BY DEF Bus!Steps
<1>3. stage' \in [Publishers ->
                [Bus!Targets -> {"none", "lookup", "send", "ok", "filtered", "error"}]]
  BY <1>1, <1>2
<1>4. /\ stage'[p][t] = to
      /\ \A q \in Publishers, u \in Bus!Targets : q # p \/ u # t => stage'[q][u] = stage[q][u]
  BY <1>1, <1>2
<1>5. Attempts(p, t)'
  BY <1>2, <1>4 DEF BusInv, Attempts
<1> QED BY <1>1, <1>3, <1>4, <1>5, DeliveryKept

LEMMA Sends ==
    ASSUME BusInv, NEW p \in Publishers, NEW t \in Bus!Targets,
           Bus!SendSucceeds(p, t) \/ Bus!SendFails(p, t)
    PROVE  BusInv'
<1>1. /\ stage \in [Publishers ->
                [Bus!Targets -> {"none", "lookup", "send", "ok", "filtered", "error"}]]
      /\ tries \in [Publishers -> [Bus!Targets -> 0..(RetryAttempts + 1)]]
      /\ received \in [Publishers -> [Bus!Targets -> 0..(RetryAttempts + 1)]]
  BY DEF BusInv, Bus!TypeOK
<1>2. /\ stage[p][t] = "send" /\ tries' = [tries EXCEPT ![p][t] = @ + 1]
      /\ UNCHANGED <<busKnown, gone, inactive, subscriptions, topicSubs, busJob, targets,
                     published, delivered, failed, closing>>
  BY DEF Bus!SendSucceeds, Bus!SendFails, Bus!Try, Bus!registry, Bus!metrics
<1>3. PICK to \in {"ok", "error", "send"}, arrived \in {0, 1} :
        /\ stage' = [stage EXCEPT ![p][t] = to]
        /\ received' = [received EXCEPT ![p][t] = @ + arrived]
        /\ \/ to = "ok" /\ arrived = 1
           \/ to = "error"
           \/ to = "send" /\ tries[p][t] # RetryAttempts
  <2>1. CASE Bus!SendSucceeds(p, t)
    BY <2>1 DEF Bus!SendSucceeds, Bus!Steps
  <2>2. CASE Bus!SendFails(p, t)
    <3>1. PICK arrived \in {0} \cup (IF targets[p][t] \in gone THEN {} ELSE {1}) :
            received' = [received EXCEPT ![p][t] = @ + arrived]
      BY <2>2 DEF Bus!SendFails
    <3>2. arrived \in {0, 1}
      OBVIOUS
    <3>3. stage' = [stage EXCEPT ![p][t] =
                        IF tries[p][t] = RetryAttempts THEN "error" ELSE "send"]
      BY <2>2 DEF Bus!SendFails
    <3> QED BY <3>1, <3>2, <3>3
  <2> QED BY <2>1, <2>2
<1>4. /\ tries[p][t] \in Nat /\ received[p][t] \in Nat /\ RetryAttempts \in Nat
      /\ tries[p][t] <= RetryAttempts /\ received[p][t] <= tries[p][t]
  <2>1. Attempts(p, t)
    BY DEF BusInv
  <2> QED BY <1>1, <1>2, <2>1, RoutingAssumption DEF Attempts
<1>5. stage' \in [Publishers ->
                [Bus!Targets -> {"none", "lookup", "send", "ok", "filtered", "error"}]]
  BY <1>1, <1>3
<1>6. tries' \in [Publishers -> [Bus!Targets -> 0..(RetryAttempts + 1)]]
  <2>1. tries[p][t] + 1 \in 0..(RetryAttempts + 1)
    BY <1>4
  <2> QED BY <1>1, <1>2, <2>1
<1>7. received' \in [Publishers -> [Bus!Targets -> 0..(RetryAttempts + 1)]]
  <2>1. received[p][t] + arrived \in 0..(RetryAttempts + 1)
    BY <1>4
  <2> QED BY <1>1, <1>3, <2>1
<1>8. /\ stage'[p][t] = to /\ tries'[p][t] = tries[p][t] + 1
      /\ received'[p][t] = received[p][t] + arrived
  BY <1>1, <1>2, <1>3
<1>9. \A q \in Publishers, u \in Bus!Targets : q # p \/ u # t =>
        stage'[q][u] = stage[q][u] /\ tries'[q][u] = tries[q][u]
        /\ received'[q][u] = received[q][u]
  BY <1>1, <1>2, <1>3
<1>10. Attempts(p, t)'
  BY <1>3, <1>4, <1>8 DEF Attempts
<1> QED BY <1>2, <1>5, <1>6, <1>7, <1>9, <1>10, DeliveryKept

LEMMA Delivers ==
    ASSUME BusInv, NEW p \in Publishers, NEW t \in Bus!Targets, Bus!DeliveryStep(p, t)
    PROVE  BusInv'
<1>1. CASE Bus!Lookup(p, t)
  <2>1. PICK to \in {"send", "error"} : Bus!Steps(p, t, "lookup", to)
    BY <1>1 DEF Bus!Lookup
  <2> QED BY <1>1, <2>1, MovesOn DEF Bus!Lookup, Bus!registry, Bus!metrics
<1>2. CASE Bus!Decline(p, t)
  BY <1>2, MovesOn DEF Bus!Decline, Bus!registry, Bus!metrics
<1>3. CASE Bus!BackoffCancelled(p, t)
  BY <1>3, MovesOn DEF Bus!BackoffCancelled, Bus!registry, Bus!metrics
<1> QED BY <1>1, <1>2, <1>3, Sends DEF Bus!DeliveryStep
-----------------------------------------------------------------------------
LEMMA BusCounts == \A S : Bus!Cardinality(S) = Cardinality(S)
BY DEF Bus!Cardinality, Cardinality, Bus!IsFiniteSet, IsFiniteSet

\* A publisher starts: its targets are connections, and nothing has been tried.
LEMMA Launches ==
    ASSUME BusInv, NEW p \in Publishers, NEW kind \in {"publish", "broadcast"},
           NEW conns, conns \in [DOMAIN conns -> Clients], DOMAIN conns \subseteq Bus!Targets,
           NEW first \in {"lookup", "send"}, Bus!Launch(p, kind, conns, first),
           published' = published + (IF kind = "publish" THEN 1 ELSE 0),
           published' <= MaxPublishes
    PROVE  BusInv'
<1>1. /\ busJob[p] = "idle" /\ busJob' = [busJob EXCEPT ![p] = kind]
      /\ targets' = [targets EXCEPT ![p] = conns]
      /\ stage' = [stage EXCEPT ![p] =
                    [t \in Bus!Targets |-> IF t \in DOMAIN conns THEN first ELSE "none"]]
      /\ tries' = [tries EXCEPT ![p] = Bus!Zero] /\ received' = [received EXCEPT ![p] = Bus!Zero]
      /\ UNCHANGED <<busKnown, gone, inactive, subscriptions, topicSubs, delivered, failed,
                     closing>>
  BY DEF Bus!Launch, Bus!registry
<1>2. /\ busJob \in [Publishers -> {"idle", "publish", "broadcast"}]
      /\ DOMAIN targets = Publishers
      /\ \A q \in Publishers : /\ targets[q] \in [DOMAIN targets[q] -> Clients]
                               /\ DOMAIN targets[q] \subseteq Bus!Targets
      /\ stage \in [Publishers ->
                [Bus!Targets -> {"none", "lookup", "send", "ok", "filtered", "error"}]]
      /\ tries \in [Publishers -> [Bus!Targets -> 0..(RetryAttempts + 1)]]
      /\ received \in [Publishers -> [Bus!Targets -> 0..(RetryAttempts + 1)]]
      /\ published \in Nat /\ delivered \in Nat /\ failed \in Nat
  <2>1. published \in Nat
    BY RoutingAssumption DEF BusInv, Bus!TypeOK
  <2>2. Bus!TypeOK /\ DOMAIN targets = Publishers
    BY DEF BusInv
  <2> QED BY <2>1, <2>2 DEF Bus!TypeOK
<1>3. busJob' \in [Publishers -> {"idle", "publish", "broadcast"}] /\ DOMAIN targets' = Publishers
  BY <1>1, <1>2
<1>4. \A q \in Publishers : /\ targets'[q] \in [DOMAIN targets'[q] -> Clients]
                            /\ DOMAIN targets'[q] \subseteq Bus!Targets
  BY <1>1, <1>2
<1>5. stage' \in [Publishers ->
                [Bus!Targets -> {"none", "lookup", "send", "ok", "filtered", "error"}]]
  <2>1. [t \in Bus!Targets |-> IF t \in DOMAIN conns THEN first ELSE "none"]
            \in [Bus!Targets -> {"none", "lookup", "send", "ok", "filtered", "error"}]
    OBVIOUS
  <2> QED BY <1>1, <1>2, <2>1
<1>6. /\ tries' \in [Publishers -> [Bus!Targets -> 0..(RetryAttempts + 1)]]
      /\ received' \in [Publishers -> [Bus!Targets -> 0..(RetryAttempts + 1)]]
  <2>1. Bus!Zero \in [Bus!Targets -> 0..(RetryAttempts + 1)]
    BY RoutingAssumption DEF Bus!Zero
  <2> QED BY <1>1, <1>2, <2>1
<1>7. published' \in 0..MaxPublishes
  BY <1>2, RoutingAssumption
<1>8. Bus!TypeOK'
  BY <1>1, <1>3, <1>4, <1>5, <1>6, <1>7 DEF BusInv, Bus!TypeOK, Bus!Subs, Bus!Targets
<1>9. Bus!IndexAgrees'
  BY <1>1 DEF BusInv, Bus!IndexAgrees, Bus!Subs
<1>10. \A q \in Publishers, t \in Bus!Targets : Attempts(q, t)'
  <2>1. ASSUME NEW t \in Bus!Targets PROVE Attempts(p, t)'
    <3>1. /\ stage'[p][t] \in {first, "none"} /\ tries'[p][t] = 0 /\ received'[p][t] = 0
      BY <1>1, <1>2 DEF Bus!Zero
    <3> QED BY <3>1, RoutingAssumption DEF Attempts
  <2>2. ASSUME NEW q \in Publishers, NEW t \in Bus!Targets, q # p PROVE Attempts(q, t)'
    BY <1>1, <1>2, <2>2 DEF BusInv, Attempts
  <2> QED BY <2>1, <2>2
<1>11. published = delivered + failed + Cardinality(Publishing)
  BY BusCounts DEF BusInv, Bus!AtLeastOnce, Publishing
<1>12. published' = delivered' + failed' + Cardinality(Publishing')
  <2>1. CASE kind = "publish"
    <3>1. Publishing' = Publishing \cup {p} /\ p \notin Publishing
      BY <1>1, <1>2, <2>1 DEF Publishing
    <3>2. Cardinality(Publishing') = Cardinality(Publishing) + 1
      BY <3>1, PublishingIsFinite, FS_AddElement
    <3> QED BY <1>1, <1>2, <1>11, <2>1, <3>2, PublishingIsFinite
  <2>2. CASE kind = "broadcast"
    <3>1. Publishing' = Publishing
      BY <1>1, <1>2, <2>2 DEF Publishing
    <3> QED BY <1>1, <1>2, <1>11, <2>2, <3>1
  <2> QED BY <2>1, <2>2
<1>13. Bus!AtLeastOnce'
  <2>1. published' = (delivered + failed + Bus!Cardinality({q \in Publishers : busJob[q] = "publish"}))'
    BY <1>12, BusCounts DEF Publishing
  <2>2. \A q \in Publishers : \A t \in DOMAIN targets'[q] : t \in Bus!Targets
    BY <1>4
  <2> QED BY <1>10, <2>1, <2>2 DEF Bus!AtLeastOnce, Attempts
<1>14. (\A q \in Publishers, t \in Bus!Targets : Attempts(q, t))'
  BY <1>10 DEF Bus!Targets
<1> QED BY <1>3, <1>8, <1>9, <1>13, <1>14 DEF BusInv

LEMMA Returns ==
    ASSUME BusInv, NEW p \in Publishers, Bus!Return(p)
    PROVE  BusInv'
<1>1. /\ busJob[p] # "idle" /\ busJob' = [busJob EXCEPT ![p] = "idle"]
      /\ IF busJob[p] = "broadcast" THEN UNCHANGED <<delivered, failed>>
         ELSE \/ delivered' = delivered + 1 /\ failed' = failed
              \/ failed' = failed + 1 /\ delivered' = delivered
      /\ UNCHANGED <<busKnown, gone, inactive, subscriptions, topicSubs, targets, stage, tries,
                     received, published, closing>>
  BY DEF Bus!Return, Bus!registry
<1>2. /\ busJob \in [Publishers -> {"idle", "publish", "broadcast"}]
      /\ published \in Nat /\ delivered \in Nat /\ failed \in Nat
  BY RoutingAssumption DEF BusInv, Bus!TypeOK
<1>3. busJob' \in [Publishers -> {"idle", "publish", "broadcast"}]
  BY <1>1, <1>2
<1>a. delivered' \in Nat /\ failed' \in Nat
  BY <1>1, <1>2
<1>4. Bus!TypeOK'
  BY <1>1, <1>3, <1>a DEF BusInv, Bus!TypeOK, Bus!Subs, Bus!Targets
<1>5. Bus!IndexAgrees'
  BY <1>1 DEF BusInv, Bus!IndexAgrees, Bus!Subs
<1>6. (\A q \in Publishers, t \in Bus!Targets : Attempts(q, t))'
  BY <1>1 DEF BusInv, Attempts, Bus!Targets
<1>7. published = delivered + failed + Cardinality(Publishing)
  BY BusCounts DEF BusInv, Bus!AtLeastOnce, Publishing
<1>8. published' = delivered' + failed' + Cardinality(Publishing')
  <2>1. CASE busJob[p] = "publish"
    <3>1. Publishing' = Publishing \ {p} /\ p \in Publishing
      BY <1>1, <1>2, <2>1 DEF Publishing
    <3>2. Cardinality(Publishing') = Cardinality(Publishing) - 1
      BY <3>1, PublishingIsFinite, FS_RemoveElement
    <3> QED BY <1>1, <1>2, <1>7, <2>1, <3>2, PublishingIsFinite
  <2>2. CASE busJob[p] = "broadcast"
    <3>1. Publishing' = Publishing
      BY <1>1, <1>2, <2>2 DEF Publishing
    <3> QED BY <1>1, <1>2, <1>7, <2>2, <3>1
  <2> QED BY <1>1, <1>2, <2>1, <2>2
<1>9. Bus!AtLeastOnce'
  <2>1. published' = (delivered + failed + Bus!Cardinality({q \in Publishers : busJob[q] = "publish"}))'
    BY <1>8, BusCounts DEF Publishing
  <2> QED BY <1>1, <2>1 DEF BusInv, Bus!AtLeastOnce
<1> QED BY <1>1, <1>4, <1>5, <1>6, <1>9 DEF BusInv
-----------------------------------------------------------------------------
\* Every step of the bus keeps the invariant.
LEMMA BusNextInv == BusInv /\ [Bus!Next]_busVars => BusInv'
<1> SUFFICES ASSUME BusInv, [Bus!Next]_busVars PROVE BusInv'
  OBVIOUS
<1>1. ASSUME NEW c \in Clients, Bus!RegisterConnection(c) \/ Bus!GoInactive(c) PROVE BusInv'
  <2>1. /\ UNCHANGED <<subscriptions, topicSubs, busJob, targets, stage, tries, received,
                       published, delivered, failed, gone, closing>>
        /\ busKnown \subseteq busKnown' /\ busKnown' \subseteq Clients /\ inactive' \subseteq Clients
    BY <1>1 DEF Bus!RegisterConnection, Bus!GoInactive, Bus!work, Bus!metrics, Bus!registry,
       BusInv, Bus!TypeOK
  <2> QED BY <2>1, RegistryKept DEF BusInv, Bus!TypeOK
<1>2. CASE Bus!CloseCancel \/ Bus!CloseConnections \/ UNCHANGED busVars
  <2>1. /\ UNCHANGED <<subscriptions, topicSubs, busJob, targets, stage, tries, received,
                       published, delivered, failed, busKnown, inactive>>
        /\ gone' \subseteq Clients /\ closing' \in {"no", "cancelled", "closed"}
    BY <1>2 DEF Bus!CloseCancel, Bus!CloseConnections, Bus!work, Bus!metrics, Bus!registry,
       BusInv, Bus!TypeOK, busVars
  <2> QED BY <2>1, RegistryKept DEF BusInv, Bus!TypeOK
<1>3. ASSUME NEW c \in Clients, Bus!UnregisterConnection(c) PROVE BusInv'
  BY <1>3, Forgets DEF Bus!UnregisterConnection, Bus!work, Bus!metrics
<1>4. CASE Bus!Cleanup
  BY <1>4, Forgets DEF Bus!Cleanup, Bus!work, Bus!metrics
<1>5. ASSUME NEW p \in Publishers, NEW t \in Topics, Bus!Publish(p, t) PROVE BusInv'
  <2> DEFINE S == {s \in DOMAIN subscriptions : topicSubs[t][s] > 0}
             conns == [s \in S |-> subscriptions[s].conn]
  <2>1. conns \in [DOMAIN conns -> Clients] /\ DOMAIN conns \subseteq Bus!Targets
    BY DEF BusInv, Bus!TypeOK, Bus!Subs, Bus!Targets
  <2>2. /\ Bus!Launch(p, "publish", conns, "lookup")
        /\ published < MaxPublishes /\ published' = published + 1
    BY <1>5 DEF Bus!Publish, Bus!Subs
  <2>3. published' <= MaxPublishes
    <3>1. published \in Nat /\ MaxPublishes \in Nat
      BY RoutingAssumption DEF BusInv, Bus!TypeOK
    <3> QED BY <2>2, <3>1
  <2> HIDE DEF conns
  <2> QED BY <2>1, <2>2, <2>3, Launches
<1>6. ASSUME NEW p \in Publishers, NEW excluded, Bus!Broadcast(p, excluded) PROVE BusInv'
  <2> DEFINE conns == [c \in busKnown \ (inactive \cup excluded) |-> c]
  <2>1. conns \in [DOMAIN conns -> Clients] /\ DOMAIN conns \subseteq Bus!Targets
    BY DEF BusInv, Bus!TypeOK, Bus!Targets
  <2>2. Bus!Launch(p, "broadcast", conns, "send") /\ published' = published
    BY <1>6 DEF Bus!Broadcast
  <2>3. published \in Nat /\ published <= MaxPublishes
    BY RoutingAssumption DEF BusInv, Bus!TypeOK
  <2> HIDE DEF conns
  <2> QED BY <2>1, <2>2, <2>3, Launches
<1> QED BY <1>1, <1>2, <1>3, <1>4, <1>5, <1>6, Subscribes, Unsubscribes, Returns, Delivers
  DEF Bus!Next
-----------------------------------------------------------------------------
(* The nodes.  A position of the ring is one of its node's own, and a node *)
(* that is being added is in the balancer already.                         *)
NodesInv ==
    /\ Nodes!TypeOK /\ Nodes!RingAgrees
    /\ \A h \in DOMAIN ring : h \in Nodes!Replicas(ring[h])
    /\ \A n \in NodeIDs : editing[n] = "adding" => n \in Nodes!InBalancer

LEMMA NodesCount == \A S : Nodes!Cardinality(S) = Cardinality(S)
BY DEF Nodes!Cardinality, Cardinality, Nodes!IsFiniteSet, IsFiniteSet

\* Initially there are no nodes.
LEMMA NodesInitInv == Nodes!Init => NodesInv
<1> SUFFICES ASSUME Nodes!Init PROVE NodesInv
  OBVIOUS
<1>1. <<>> \in Seq(NodeIDs) /\ Len(<<>>) = 0 /\ DOMAIN <<>> = {}
  OBVIOUS
<1>2. Cardinality({}) = 0
  BY FS_EmptySet
<1>3. 0 \in Nodes!Counts
  BY RoutingAssumption DEF Nodes!Counts
<1>4. Nodes!TypeOK
  BY <1>1, <1>2, <1>3, NodesCount, RoutingAssumption
  DEF Nodes!Init, Nodes!TypeOK, Nodes!Cached, Nodes!Work, Nodes!Idle
<1>5. Nodes!RingAgrees
  BY <1>1 DEF Nodes!Init, Nodes!RingAgrees
<1> QED BY <1>1, <1>4, <1>5 DEF Nodes!Init, NodesInv

\* How often a position is among a node's replicas.
LEMMA TimesIsCount ==
    ASSUME NEW n \in NodeIDs, NEW h
    PROVE  /\ Nodes!Times(n, h) \in Nat
           /\ h \in Nodes!Replicas(n) => Nodes!Times(n, h) > 0
           /\ h \notin Nodes!Replicas(n) => Nodes!Times(n, h) = 0
<1> DEFINE I == {i \in 1..Len(Hash[n]) : Hash[n][i] = h}
<1>1. Hash[n] \in Seq(Hashes) /\ Len(Hash[n]) \in Nat
  BY RoutingAssumption
<1>2. IsFiniteSet(I)
  <2>1. IsFiniteSet(1..Len(Hash[n])) /\ I \subseteq 1..Len(Hash[n])
    BY <1>1, FS_Interval
  <2> QED BY <2>1, FS_Subset
<1>3. Nodes!Times(n, h) = Cardinality(I)
  BY NodesCount DEF Nodes!Times
<1>4. h \in Nodes!Replicas(n) <=> I # {}
  BY DEF Nodes!Replicas
<1> HIDE DEF I
<1>5. Cardinality(I) \in Nat /\ (Cardinality(I) = 0 <=> I = {})
  BY <1>2, FS_CardinalityType, FS_EmptySet
<1> QED BY <1>3, <1>4, <1>5

LEMMA ReplicasAreHashes ==
    ASSUME NEW n \in NodeIDs PROVE Nodes!Replicas(n) \subseteq Hashes
BY RoutingAssumption DEF Nodes!Replicas

\* Steps that leave the nodes' lists alone.
LEMMA RingKept ==
    ASSUME NodesInv, UNCHANGED <<balanced, ring, sorted, nodesKnown, editing>>, Nodes!TypeOK'
    PROVE  NodesInv'
BY DEF NodesInv, Nodes!RingAgrees, Nodes!InBalancer, Nodes!Replicas

LEMMA AddsNode ==
    ASSUME NodesInv, NEW n \in NodeIDs, Nodes!BalancerAdd(n)
    PROVE  NodesInv'
<1>1. /\ balanced' = Append(balanced, n) /\ editing[n] = "none"
      /\ ring' = [h \in DOMAIN ring \cup Nodes!Replicas(n) |->
                    IF h \in Nodes!Replicas(n) THEN n ELSE ring[h]]
      /\ sorted' = [h \in Hashes |-> sorted[h] + Nodes!Times(n, h)]
      /\ editing' = [editing EXCEPT ![n] = "adding"]
      /\ UNCHANGED <<nodesKnown, unhealthy, failures, successes, cache, older, work>>
  BY DEF Nodes!BalancerAdd, Nodes!healthVars, Nodes!cacheVars
<1>2. /\ balanced \in Seq(NodeIDs) /\ sorted \in [Hashes -> Nat]
      /\ DOMAIN ring \subseteq Hashes /\ \A h \in DOMAIN ring : ring[h] \in NodeIDs
      /\ editing \in [NodeIDs -> {"none", "adding", "removing"}]
  BY DEF NodesInv, Nodes!TypeOK
<1>3. balanced' \in Seq(NodeIDs) /\ Nodes!InBalancer' = Nodes!InBalancer \cup {n}
  <2>1. /\ balanced' \in Seq(NodeIDs) /\ Len(balanced') = Len(balanced) + 1 /\ Len(balanced) \in Nat
        /\ balanced'[Len(balanced) + 1] = n
        /\ \A i \in 1..Len(balanced) : balanced'[i] = balanced[i]
    BY <1>1, <1>2, AppendProperties
  <2>2. 1..Len(balanced') = (1..Len(balanced)) \cup {Len(balanced) + 1}
    BY <2>1
  <2> QED BY <2>1, <2>2 DEF Nodes!InBalancer
<1>4. sorted' \in [Hashes -> Nat] /\ \A h \in Hashes : sorted'[h] >= sorted[h]
  BY <1>1, <1>2, TimesIsCount
<1>5. \A h \in Nodes!Replicas(n) : sorted'[h] > 0
  BY <1>1, <1>2, TimesIsCount, ReplicasAreHashes
<1>6. editing' \in [NodeIDs -> {"none", "adding", "removing"}]
  BY <1>1, <1>2
<1>7. /\ DOMAIN ring' = DOMAIN ring \cup Nodes!Replicas(n)
      /\ \A h \in Nodes!Replicas(n) : ring'[h] = n
      /\ \A h \in DOMAIN ring \ Nodes!Replicas(n) : ring'[h] = ring[h]
  BY <1>1
<1>8. DOMAIN ring' \subseteq Hashes /\ \A h \in DOMAIN ring' : ring'[h] \in NodeIDs
  BY <1>2, <1>7, ReplicasAreHashes
<1>9. Nodes!TypeOK'
  BY <1>1, <1>3, <1>4, <1>6, <1>8 DEF NodesInv, Nodes!TypeOK, Nodes!Cached
<1>10. \A h \in DOMAIN ring' : h \in Nodes!Replicas(ring'[h])
  BY <1>7 DEF NodesInv
<1>11. \A h \in DOMAIN ring' : ring'[h] \in Nodes!InBalancer' /\ sorted'[h] > 0
  <2>1. ASSUME NEW h \in DOMAIN ring PROVE ring[h] \in Nodes!InBalancer /\ sorted[h] \in Nat /\ sorted[h] > 0
    BY <1>2 DEF NodesInv, Nodes!RingAgrees
  <2>2. ASSUME NEW h \in DOMAIN ring \ Nodes!Replicas(n)
        PROVE  ring'[h] \in Nodes!InBalancer' /\ sorted'[h] > 0
    BY <1>2, <1>3, <1>4, <1>7, <2>1
  <2>3. ASSUME NEW h \in Nodes!Replicas(n)
        PROVE  ring'[h] \in Nodes!InBalancer' /\ sorted'[h] > 0
    BY <1>3, <1>5, <1>7
  <2> QED BY <1>7, <2>2, <2>3
<1>12. \A m \in NodeIDs : editing'[m] = "none" => (m \in nodesKnown' => m \in Nodes!InBalancer')
  BY <1>1, <1>2, <1>3 DEF NodesInv, Nodes!RingAgrees
<1>13. \A m \in NodeIDs : editing'[m] = "adding" => m \in Nodes!InBalancer'
  BY <1>1, <1>2, <1>3 DEF NodesInv
<1> QED BY <1>9, <1>10, <1>11, <1>12, <1>13
  DEF NodesInv, Nodes!RingAgrees, Nodes!Replicas

\* removeNode takes one place of a node from the balancer's list.
LEMMA OneLess ==
    ASSUME balanced \in Seq(NodeIDs), NEW n \in NodeIDs
    PROVE  /\ Nodes!WithoutFirst(n) \in Seq(NodeIDs)
           /\ \A m \in Nodes!InBalancer \ {n} :
                \E i \in 1..Len(Nodes!WithoutFirst(n)) : Nodes!WithoutFirst(n)[i] = m
<1>1. CASE \A i \in 1..Len(balanced) : balanced[i] # n
  <2>1. Nodes!WithoutFirst(n) = balanced
    BY <1>1 DEF Nodes!WithoutFirst
  <2> QED BY <2>1 DEF Nodes!InBalancer
<1>2. CASE \E i \in 1..Len(balanced) : balanced[i] = n
  <2> DEFINE k == Nodes!FirstOf(n)
             t == Nodes!WithoutFirst(n)
  <2>0. Len(balanced) \in Nat
    BY LenProperties
  <2>1. k \in 1..Len(balanced) /\ balanced[k] = n
    <3> DEFINE S == {i \in 1..Len(balanced) : balanced[i] = n}
    <3>1. S \subseteq Nat /\ S # {}
      BY <1>2, <2>0
    <3>2. PICK i \in S : \A j \in S : i <= j
      BY <3>1, LeastOf
    <3>3. i \in 1..Len(balanced) /\ balanced[i] = n /\ \A j \in 1..(i - 1) : balanced[j] # n
      BY <2>0, <3>2
    <3> QED BY <3>3 DEF Nodes!FirstOf
  <2>2. t = SubSeq(balanced, 1, k - 1) \o SubSeq(balanced, k + 1, Len(balanced))
    BY <1>2 DEF Nodes!WithoutFirst
  <2> HIDE DEF k, t
  <2>3. /\ t \in Seq(NodeIDs) /\ Len(t) = Len(balanced) - 1
        /\ \A j \in 1..(Len(balanced) - 1) : t[j] = balanced[IF j < k THEN j ELSE j + 1]
    BY <2>1, <2>2, TakesOut
  <2>4. ASSUME NEW i \in 1..Len(balanced), balanced[i] # n
        PROVE  \E j \in 1..Len(t) : t[j] = balanced[i]
    <3> DEFINE j == IF i < k THEN i ELSE i - 1
    <3>1. i \in Nat /\ k \in Nat /\ i # k
      BY <2>0, <2>1, <2>4
    <3>2. j \in 1..(Len(balanced) - 1) /\ (IF j < k THEN j ELSE j + 1) = i
      BY <2>0, <2>1, <3>1
    <3> QED BY <2>3, <3>2
  <2> QED BY <2>3, <2>4 DEF Nodes!InBalancer, t
<1> QED BY <1>1, <1>2

LEMMA RemovesNode ==
    ASSUME NodesInv, NEW n \in NodeIDs, Nodes!BalancerRemove(n)
    PROVE  NodesInv'
<1>1. /\ balanced' = Nodes!WithoutFirst(n) /\ editing[n] = "none"
      /\ ring' = [h \in DOMAIN ring \ Nodes!Replicas(n) |-> ring[h]]
      /\ sorted' = [h \in Hashes |-> IF sorted[h] > Nodes!Times(n, h)
                                     THEN sorted[h] - Nodes!Times(n, h) ELSE 0]
      /\ editing' = [editing EXCEPT ![n] = "removing"]
      /\ UNCHANGED <<nodesKnown, unhealthy, failures, successes, cache, older, work>>
  BY DEF Nodes!BalancerRemove, Nodes!RingWithout, Nodes!healthVars, Nodes!cacheVars
<1>2. /\ balanced \in Seq(NodeIDs) /\ sorted \in [Hashes -> Nat]
      /\ DOMAIN ring \subseteq Hashes /\ \A h \in DOMAIN ring : ring[h] \in NodeIDs
      /\ editing \in [NodeIDs -> {"none", "adding", "removing"}]
  BY DEF NodesInv, Nodes!TypeOK
<1>3. balanced' \in Seq(NodeIDs) /\ \A m \in Nodes!InBalancer \ {n} : m \in Nodes!InBalancer'
  BY <1>1, <1>2, OneLess DEF Nodes!InBalancer
<1>4. sorted' \in [Hashes -> Nat]
  BY <1>1, <1>2, TimesIsCount
<1>5. /\ DOMAIN ring' = DOMAIN ring \ Nodes!Replicas(n)
      /\ \A h \in DOMAIN ring' : ring'[h] = ring[h]
  BY <1>1
<1>6. \A h \in DOMAIN ring' : ring[h] # n
  BY <1>5 DEF NodesInv
<1>7. \A h \in DOMAIN ring' : ring'[h] \in Nodes!InBalancer' /\ sorted'[h] > 0
  <2> SUFFICES ASSUME NEW h \in DOMAIN ring' PROVE ring'[h] \in Nodes!InBalancer' /\ sorted'[h] > 0
    OBVIOUS
  <2>1. h \in DOMAIN ring /\ h \notin Nodes!Replicas(n) /\ h \in Hashes
    BY <1>2, <1>5
  <2>2. ring[h] \in Nodes!InBalancer /\ sorted[h] > 0 /\ sorted[h] \in Nat
    BY <1>2, <2>1 DEF NodesInv, Nodes!RingAgrees
  <2>3. Nodes!Times(n, h) = 0
    BY <2>1, TimesIsCount
  <2> QED BY <1>1, <1>3, <1>5, <1>6, <2>1, <2>2, <2>3
<1>8. editing' \in [NodeIDs -> {"none", "adding", "removing"}]
  BY <1>1, <1>2
<1>9. Nodes!TypeOK'
  BY <1>1, <1>2, <1>3, <1>4, <1>5, <1>8 DEF NodesInv, Nodes!TypeOK, Nodes!Cached
<1>10. \A m \in NodeIDs : editing'[m] = "none" => (m \in nodesKnown' => m \in Nodes!InBalancer')
  BY <1>1, <1>2, <1>3 DEF NodesInv, Nodes!RingAgrees
<1>11. \A m \in NodeIDs : editing'[m] = "adding" => m \in Nodes!InBalancer'
  BY <1>1, <1>2, <1>3 DEF NodesInv
<1>12. \A h \in DOMAIN ring' : h \in Nodes!Replicas(ring'[h])
  BY <1>5 DEF NodesInv
<1> QED BY <1>7, <1>9, <1>10, <1>11, <1>12 DEF NodesInv, Nodes!RingAgrees, Nodes!Replicas
LEMMA DimensionsFollows ==
    ASSUME NodesInv, NEW n \in NodeIDs, Nodes!DimensionsFollow(n)
    PROVE  NodesInv'
<1>1. /\ editing[n] # "none"
      /\ nodesKnown' = IF editing[n] = "adding" THEN nodesKnown \cup {n} ELSE nodesKnown \ {n}
      /\ editing' = [editing EXCEPT ![n] = "none"]
      /\ UNCHANGED <<balanced, ring, sorted, unhealthy, failures, successes, cache, older, work>>
  BY DEF Nodes!DimensionsFollow, Nodes!healthVars, Nodes!cacheVars
<1>2. /\ editing \in [NodeIDs -> {"none", "adding", "removing"}] /\ nodesKnown \subseteq NodeIDs
      /\ \A m \in NodeIDs : editing[m] = "adding" => m \in Nodes!InBalancer
      /\ \A m \in NodeIDs : editing[m] = "none" => (m \in nodesKnown => m \in Nodes!InBalancer)
  BY DEF NodesInv, Nodes!TypeOK, Nodes!RingAgrees
<1>3. editing' \in [NodeIDs -> {"none", "adding", "removing"}] /\ nodesKnown' \subseteq NodeIDs
  BY <1>1, <1>2
<1>4. \A m \in NodeIDs : /\ editing'[m] = "none" => (m \in nodesKnown' => m \in Nodes!InBalancer)
                         /\ editing'[m] = "adding" => m \in Nodes!InBalancer
  BY <1>1, <1>2
<1>5. Nodes!InBalancer' = Nodes!InBalancer
  BY <1>1 DEF Nodes!InBalancer
<1>6. Nodes!TypeOK'
  BY <1>1, <1>3 DEF NodesInv, Nodes!TypeOK, Nodes!Cached
<1> QED BY <1>1, <1>4, <1>5, <1>6 DEF NodesInv, Nodes!RingAgrees, Nodes!Replicas

LEMMA HealthChanges ==
    ASSUME NodesInv,
           Nodes!RouterHealthCheck \/ Nodes!DimensionsHealthCheck
           \/ \E n \in NodeIDs : Nodes!Report(n)
    PROVE  NodesInv'
<1>1. UNCHANGED <<balanced, ring, sorted, nodesKnown, editing, cache, older, work>>
  BY DEF Nodes!RouterHealthCheck, Nodes!DimensionsHealthCheck, Nodes!Report, Nodes!nodeVars,
     Nodes!cacheVars
<1>2. /\ failures \in [NodeIDs -> Nodes!Counts] /\ successes \in [NodeIDs -> Nodes!Counts]
      /\ unhealthy \subseteq NodeIDs /\ balanced \in Seq(NodeIDs) /\ nodesKnown \subseteq NodeIDs
  BY DEF NodesInv, Nodes!TypeOK
<1>3. 0 \in Nodes!Counts
  BY RoutingAssumption DEF Nodes!Counts
<1>4. /\ failures' \in [NodeIDs -> Nodes!Counts] /\ successes' \in [NodeIDs -> Nodes!Counts]
      /\ unhealthy' \subseteq NodeIDs
  <2>1. CASE Nodes!RouterHealthCheck
    <3>1. Nodes!InBalancer \subseteq NodeIDs
      BY <1>2 DEF Nodes!InBalancer
    <3> QED BY <1>2, <2>1, <3>1 DEF Nodes!RouterHealthCheck
  <2>2. CASE Nodes!DimensionsHealthCheck
    BY <1>2, <1>3, <2>2 DEF Nodes!DimensionsHealthCheck
  <2>3. ASSUME NEW n \in NodeIDs, Nodes!Report(n)
        PROVE  /\ failures' \in [NodeIDs -> Nodes!Counts]
               /\ successes' \in [NodeIDs -> Nodes!Counts] /\ unhealthy' = unhealthy
    BY <1>2, <2>3 DEF Nodes!Report
  <2> QED BY <1>2, <2>1, <2>2, <2>3
<1>5. Nodes!TypeOK'
  BY <1>1, <1>4 DEF NodesInv, Nodes!TypeOK, Nodes!Cached
<1> QED BY <1>1, <1>5, RingKept
-----------------------------------------------------------------------------
\* Steps of the cache and of the workers.
LEMMA LookupKept ==
    ASSUME NodesInv,
           UNCHANGED <<balanced, ring, sorted, nodesKnown, editing, unhealthy, failures, successes>>,
           cache' \in [DOMAIN cache' -> Nodes!Route], DOMAIN cache' \subseteq Lookups,
           Cardinality(DOMAIN cache') <= CacheSize,
           older' \subseteq (DOMAIN cache') \X (DOMAIN cache'),
           work' \in [RouteWorkers -> Nodes!Work]
    PROVE  NodesInv'
<1>1. Nodes!TypeOK'
  BY NodesCount DEF NodesInv, Nodes!TypeOK, Nodes!Cached, Nodes!Route, Nodes!Work, Nodes!Idle
<1> QED BY <1>1, RingKept

LEMMA CacheIsFinite ==
    ASSUME NodesInv
    PROVE  /\ cache \in [DOMAIN cache -> Nodes!Route] /\ DOMAIN cache \subseteq Lookups
           /\ IsFiniteSet(DOMAIN cache) /\ Cardinality(DOMAIN cache) \in Nat
           /\ Cardinality(DOMAIN cache) <= CacheSize
           /\ older \subseteq (DOMAIN cache) \X (DOMAIN cache)
           /\ work \in [RouteWorkers -> Nodes!Work]
<1>1. /\ cache \in [DOMAIN cache -> Nodes!Route] /\ DOMAIN cache \subseteq Lookups
      /\ Cardinality(DOMAIN cache) <= CacheSize
      /\ older \subseteq (DOMAIN cache) \X (DOMAIN cache)
      /\ work \in [RouteWorkers -> Nodes!Work]
  BY NodesCount DEF NodesInv, Nodes!TypeOK, Nodes!Cached
<1>2. IsFiniteSet(DOMAIN cache)
  BY <1>1, RoutingAssumption, FS_Subset
<1> QED BY <1>1, <1>2, FS_CardinalityType

LEMMA GetsRoute ==
    ASSUME NodesInv, NEW w \in RouteWorkers, NEW r \in Lookups, Nodes!CacheGet(w, r)
    PROVE  NodesInv'
<1>1. UNCHANGED <<balanced, ring, sorted, nodesKnown, editing, unhealthy, failures, successes, cache>>
  BY DEF Nodes!CacheGet, Nodes!nodeVars, Nodes!healthVars
<1>2. older' \subseteq (DOMAIN cache) \X (DOMAIN cache)
  <2>1. CASE r \in DOMAIN cache /\ older' = Nodes!Used(DOMAIN cache, r)
    BY <2>1 DEF Nodes!Used
  <2> QED BY <2>1, CacheIsFinite DEF Nodes!CacheGet, Nodes!Cached
<1>3. work' \in [RouteWorkers -> Nodes!Work]
  <2>1. [stage |-> "dimensions", request |-> r] \in Nodes!Work
    BY DEF Nodes!Work
  <2>2. work' = work \/ work' = [work EXCEPT ![w] = [stage |-> "dimensions", request |-> r]]
    BY DEF Nodes!CacheGet
  <2> QED BY <2>1, <2>2, CacheIsFinite
<1> QED BY <1>1, <1>2, <1>3, LookupKept, CacheIsFinite

LEMMA SelectsNode ==
    ASSUME NodesInv, NEW w \in RouteWorkers, Nodes!DimensionsSelect(w) \/ Nodes!BalancerSelect(w)
    PROVE  NodesInv'
<1>1. UNCHANGED <<balanced, ring, sorted, nodesKnown, editing, unhealthy, failures, successes,
                  cache, older>>
  BY DEF Nodes!DimensionsSelect, Nodes!BalancerSelect, Nodes!nodeVars, Nodes!healthVars,
     Nodes!cacheVars
<1>2. work \in [RouteWorkers -> Nodes!Work] /\ work[w].stage \in {"dimensions", "balance"}
  BY CacheIsFinite DEF Nodes!DimensionsSelect, Nodes!BalancerSelect
<1>3. work[w] \in [stage : {"dimensions", "balance"}, request : Lookups]
  BY <1>2 DEF Nodes!Work, Nodes!Idle
<1>4. nodesKnown \subseteq NodeIDs /\ Nodes!InBalancer \subseteq NodeIDs
  BY DEF NodesInv, Nodes!TypeOK, Nodes!InBalancer
<1>5. Nodes!FirstHealthy \subseteq NodeIDs
  BY <1>4 DEF Nodes!FirstHealthy, Nodes!InBalancer
<1>6. \/ work' = [work EXCEPT ![w].stage = "balance"]
      \/ work' = [work EXCEPT ![w] = Nodes!Idle]
      \/ \E n \in NodeIDs : work' = [work EXCEPT ![w] =
                                [stage |-> "put", request |-> @.request, node |-> n]]
  <2>1. CASE Nodes!DimensionsSelect(w)
    BY <1>4, <2>1 DEF Nodes!DimensionsSelect
  <2>2. CASE Nodes!BalancerSelect(w)
    BY <1>4, <1>5, <2>2 DEF Nodes!BalancerSelect
  <2> QED BY <2>1, <2>2
<1>7. work' \in [RouteWorkers -> Nodes!Work]
  <2>1. CASE work' = [work EXCEPT ![w].stage = "balance"]
    <3>1. [work[w] EXCEPT !.stage = "balance"] \in Nodes!Work
      BY <1>3 DEF Nodes!Work
    <3> QED BY <1>2, <2>1, <3>1
  <2>2. CASE work' = [work EXCEPT ![w] = Nodes!Idle]
    BY <1>2, <2>2 DEF Nodes!Work
  <2>3. ASSUME NEW n \in NodeIDs, work' = [work EXCEPT ![w] =
                                [stage |-> "put", request |-> @.request, node |-> n]]
        PROVE  work' \in [RouteWorkers -> Nodes!Work]
    <3>1. [stage |-> "put", request |-> work[w].request, node |-> n] \in Nodes!Work
      BY <1>3 DEF Nodes!Work
    <3> QED BY <1>2, <2>3, <3>1
  <2> QED BY <1>6, <2>1, <2>2, <2>3
<1> QED BY <1>1, <1>7, LookupKept, CacheIsFinite

LEMMA PutsRoute ==
    ASSUME NodesInv, NEW w \in RouteWorkers, Nodes!CachePut(w)
    PROVE  NodesInv'
<1> DEFINE r == work[w].request
           n == work[w].node
<1>1. /\ UNCHANGED <<balanced, ring, sorted, nodesKnown, editing, unhealthy, failures, successes>>
      /\ work' = [work EXCEPT ![w] = Nodes!Idle] /\ work[w].stage = "put"
  BY DEF Nodes!CachePut, Nodes!nodeVars, Nodes!healthVars
<1>2. PICK lost \in IF Cardinality(DOMAIN cache) >= CacheSize THEN {{q} : q \in Nodes!LeastUsed}
                    ELSE {{}} :
        /\ cache' = [q \in ((DOMAIN cache) \ lost) \cup {r} |->
                        IF q = r THEN [node |-> n, fresh |-> TRUE] ELSE cache[q]]
        /\ older' = Nodes!Used((DOMAIN cache) \ lost, r)
  BY NodesCount DEF Nodes!CachePut, Nodes!Cached
<1>3. r \in Lookups /\ n \in NodeIDs
  BY <1>1, CacheIsFinite DEF Nodes!Work, Nodes!Idle
<1> DEFINE kept == (DOMAIN cache) \ lost
<1>4. IsFiniteSet(kept) /\ Cardinality(kept) \in Nat /\ Cardinality(kept) < CacheSize
  <2>1. IsFiniteSet(kept) /\ Cardinality(kept) \in Nat
    BY CacheIsFinite, FS_Difference, FS_Subset, FS_CardinalityType
  <2>2. CASE Cardinality(DOMAIN cache) >= CacheSize
    <3>1. PICK q \in DOMAIN cache : lost = {q}
      BY <2>2 DEF Nodes!LeastUsed, Nodes!Cached
    <3>2. Cardinality(kept) = Cardinality(DOMAIN cache) - 1
      BY <3>1, CacheIsFinite, FS_RemoveElement
    <3> QED BY <2>1, <3>2, CacheIsFinite, RoutingAssumption
  <2>3. CASE ~ (Cardinality(DOMAIN cache) >= CacheSize)
    <3>1. kept = DOMAIN cache
      BY <2>3
    <3> QED BY <2>1, <2>3, <3>1, CacheIsFinite, RoutingAssumption
  <2> QED BY <2>2, <2>3, <2>1
<1>5. DOMAIN cache' = kept \cup {r}
  BY <1>2
<1>6. Cardinality(DOMAIN cache') <= CacheSize
  <2>1. CASE r \in kept
    <3>1. DOMAIN cache' = kept
      BY <1>5, <2>1
    <3> QED BY <1>4, <3>1, RoutingAssumption
  <2>2. CASE r \notin kept
    <3> HIDE DEF kept, r
    <3>1. Cardinality(kept \cup {r}) = Cardinality(kept) + 1
      BY <1>4, <2>2, FS_AddElement
    <3> QED BY <1>4, <1>5, <3>1, RoutingAssumption
  <2> QED BY <2>1, <2>2
<1>7. older' \subseteq (DOMAIN cache') \X (DOMAIN cache')
  BY <1>2, <1>5 DEF Nodes!Used
<1>8. cache' \in [DOMAIN cache' -> Nodes!Route] /\ DOMAIN cache' \subseteq Lookups
  BY <1>2, <1>3, <1>5, CacheIsFinite DEF Nodes!Route
<1>9. work' \in [RouteWorkers -> Nodes!Work]
  BY <1>1, CacheIsFinite DEF Nodes!Work
<1> QED BY <1>1, <1>6, <1>7, <1>8, <1>9, LookupKept

LEMMA RoutesFade ==
    ASSUME NodesInv, Nodes!CacheExpire \/ Nodes!CacheCleanup
    PROVE  NodesInv'
<1>1. /\ UNCHANGED <<balanced, ring, sorted, nodesKnown, editing, unhealthy, failures, successes>>
      /\ UNCHANGED work
  BY DEF Nodes!CacheExpire, Nodes!CacheCleanup, Nodes!nodeVars, Nodes!healthVars
<1>2. CASE Nodes!CacheExpire
  <2>1. PICK r \in DOMAIN cache : cache' = [cache EXCEPT ![r].fresh = FALSE]
    BY <1>2 DEF Nodes!CacheExpire, Nodes!Cached
  <2>2. DOMAIN cache' = DOMAIN cache /\ older' = older
    BY <1>2, <2>1 DEF Nodes!CacheExpire
  <2>3. [cache[r] EXCEPT !.fresh = FALSE] \in Nodes!Route
    BY CacheIsFinite DEF Nodes!Route
  <2>4. cache' \in [DOMAIN cache' -> Nodes!Route]
    BY <2>1, <2>2, <2>3, CacheIsFinite
  <2> QED BY <1>1, <2>2, <2>4, CacheIsFinite, LookupKept
<1>3. CASE Nodes!CacheCleanup
  <2> DEFINE kept == {r \in DOMAIN cache : cache[r].fresh}
  <2>1. cache' = [r \in kept |-> cache[r]] /\ older' = older \cap (kept \X kept)
    BY <1>3 DEF Nodes!CacheCleanup, Nodes!Cached
  <2>2. kept \subseteq DOMAIN cache
    OBVIOUS
  <2> HIDE DEF kept
  <2>3. Cardinality(kept) <= Cardinality(DOMAIN cache) /\ Cardinality(kept) \in Nat
    BY <2>2, CacheIsFinite, FS_Subset, FS_CardinalityType
  <2>4. DOMAIN cache' = kept /\ cache' \in [DOMAIN cache' -> Nodes!Route]
    BY <2>1, <2>2, CacheIsFinite
  <2>5. Cardinality(DOMAIN cache') <= CacheSize
    BY <2>3, <2>4, CacheIsFinite, RoutingAssumption
  <2> QED BY <1>1, <2>1, <2>2, <2>4, <2>5, CacheIsFinite, LookupKept
<1> QED BY <1>2, <1>3

\* Every step on the nodes keeps the invariant.
LEMMA NodesNextInv == NodesInv /\ [Nodes!Next]_nodesVars => NodesInv'
<1> SUFFICES ASSUME NodesInv, [Nodes!Next]_nodesVars PROVE NodesInv'
  OBVIOUS
<1>1. CASE UNCHANGED nodesVars
  <2>1. Nodes!TypeOK'
    BY <1>1 DEF nodesVars, NodesInv, Nodes!TypeOK, Nodes!Cached
  <2> QED BY <1>1, <2>1, RingKept DEF nodesVars
<1> QED BY <1>1, AddsNode, RemovesNode, DimensionsFollows, HealthChanges, GetsRoute, SelectsNode,
           PutsRoute, RoutesFade DEF Nodes!Next
-----------------------------------------------------------------------------
(* The route cache.  The list has each key of the map once, whatever call  *)
(* is under way; how far a Set is says how the limits hold meanwhile.      *)
Once ==
    /\ \A i, j \in 1..Len(order) : order[i] = order[j] => i = j
    /\ \A i \in 1..Len(order) : order[i] \in DOMAIN entries
    /\ \A k \in DOMAIN entries : \E i \in 1..Len(order) : order[i] = k

Size == Cardinality(DOMAIN entries)
Alone == memory > MaxMemory => Size = 1

Limits ==
    /\ Size <= MaxSize \/ (setting.stage = "trim" /\ Size <= MaxSize + 1)
    /\ Alone
    /\ setting.stage = "store" => memory + setting.size <= MaxMemory \/ DOMAIN entries = {}

CacheInv == Cache!TypeOK /\ Once /\ memory = Cardinality(Cache!Taken) /\ Limits

LEMMA CacheBounds ==
    /\ IsFiniteSet(Keys) /\ \A size \in Sizes : size \in Nat
    /\ MaxSize \in Nat /\ MaxMemory \in Nat /\ MaxHits \in Nat
BY RoutingAssumption

LEMMA CacheCounts == \A S : Cache!Cardinality(S) = Cardinality(S)
BY DEF Cache!Cardinality, Cardinality, Cache!IsFiniteSet, IsFiniteSet

\* The bytes of an entry.
BytesOf(k, size) == {k} \X (1..size)

\* An entry takes as many pairs as its size says.
LEMMA BytesCount ==
    ASSUME NEW k, NEW size \in Nat
    PROVE  IsFiniteSet(BytesOf(k, size)) /\ Cardinality(BytesOf(k, size)) = size
<1>1. IsFiniteSet(1..size) /\ Cardinality(1..size) = size
  BY FS_Interval
<1>2. IsFiniteSet({k}) /\ Cardinality({k}) = 1
  BY FS_Singleton
<1> QED BY <1>1, <1>2, FS_Product DEF BytesOf

Held(f, D) == UNION {BytesOf(k, f[k].size) : k \in D}

\* What is held is finite.
LEMMA HeldIsFinite ==
    ASSUME NEW f, NEW D, IsFiniteSet(D), \A k \in D : f[k].size \in Nat
    PROVE  IsFiniteSet(Held(f, D)) /\ Cardinality(Held(f, D)) \in Nat
<1> DEFINE parts == {BytesOf(k, f[k].size) : k \in D}
<1>1. IsFiniteSet(parts)
  <2> DEFINE g == [k \in D |-> BytesOf(k, f[k].size)]
  <2>1. g \in Surjection(D, parts)
    BY DEF Surjection
  <2> QED BY <2>1, FS_Surjection
<1>2. \A T \in parts : IsFiniteSet(T)
  BY BytesCount
<1>3. Held(f, D) = UNION parts
  BY DEF Held
<1> HIDE DEF parts
<1> QED BY <1>1, <1>2, <1>3, FS_UNION, FS_CardinalityType

\* An entry more, or less, changes what is held by its own bytes only.
LEMMA HeldGrows ==
    ASSUME NEW f, NEW D, IsFiniteSet(D), NEW k, k \notin D,
           \A j \in D \cup {k} : f[j].size \in Nat
    PROVE  Cardinality(Held(f, D \cup {k})) = Cardinality(Held(f, D)) + f[k].size
<1>1. Held(f, D \cup {k}) = Held(f, D) \cup BytesOf(k, f[k].size)
  BY DEF Held
<1>2. Held(f, D) \cap BytesOf(k, f[k].size) = {}
  BY DEF Held, BytesOf
<1>3. IsFiniteSet(Held(f, D)) /\ Cardinality(Held(f, D)) \in Nat
  BY HeldIsFinite
<1>4. IsFiniteSet(BytesOf(k, f[k].size)) /\ Cardinality(BytesOf(k, f[k].size)) = f[k].size
  BY BytesCount
<1>5. Cardinality({}) = 0
  BY FS_EmptySet
<1> DEFINE A == Held(f, D)
           B == BytesOf(k, f[k].size)
<1> HIDE DEF A, B
<1>6. IsFiniteSet(A) /\ IsFiniteSet(B) /\ A \cap B = {}
  BY <1>2, <1>3, <1>4 DEF A, B
<1>7. Cardinality(A \cup B) = Cardinality(A) + Cardinality(B) - Cardinality(A \cap B)
  BY <1>6, FS_Union
<1>8. Cardinality(A) \in Nat /\ Cardinality(B) = f[k].size /\ f[k].size \in Nat
  BY <1>3, <1>4 DEF A, B
<1>9. Cardinality(A \cup B) = Cardinality(A) + f[k].size
  <2>1. Cardinality(A \cap B) = 0
    BY <1>5, <1>6
  <2> QED BY <1>7, <1>8, <2>1
<1> QED BY <1>1, <1>9 DEF A, B

LEMMA HeldIsOfSizes ==
    ASSUME NEW f, NEW g, NEW D, \A k \in D : f[k].size = g[k].size
    PROVE  Held(f, D) = Held(g, D)
BY DEF Held

LEMMA TakenIsHeld == Cache!Taken = Held(entries, DOMAIN entries)
BY DEF Cache!Taken, Held, BytesOf

LEMMA NoneHeld == \A f : Cardinality(Held(f, {})) = 0
BY FS_EmptySet DEF Held

\* What the types say of the entries.
LEMMA EntriesAre ==
    ASSUME CacheInv
    PROVE  /\ IsFiniteSet(DOMAIN entries) /\ Size \in Nat /\ DOMAIN entries \subseteq Keys
           /\ \A k \in DOMAIN entries : entries[k] \in Cache!Entry /\ entries[k].size \in Nat
           /\ order \in Seq(Keys) /\ Len(order) \in Nat /\ memory \in Nat
           /\ memory = Cardinality(Held(entries, DOMAIN entries))
           /\ MaxSize \in Nat /\ MaxMemory \in Nat
<1>1. /\ DOMAIN entries \subseteq Keys /\ \A k \in DOMAIN entries : entries[k] \in Cache!Entry
      /\ order \in Seq(Keys) /\ memory \in Nat
  BY DEF CacheInv, Cache!TypeOK
<1>2. \A k \in DOMAIN entries : entries[k].size \in Nat
  BY <1>1, CacheBounds DEF Cache!Entry
<1>3. IsFiniteSet(DOMAIN entries) /\ Size \in Nat
  BY <1>1, CacheBounds, FS_Subset, FS_CardinalityType DEF Size
<1>4. memory = Cardinality(Held(entries, DOMAIN entries))
  BY TakenIsHeld DEF CacheInv
<1> QED BY <1>1, <1>2, <1>3, <1>4, LenProperties, CacheBounds
-----------------------------------------------------------------------------
\* removeFromAccessOrder takes the key's one place out of the list.
LEMMA Unorders ==
    ASSUME Once, order \in Seq(Keys), NEW k
    PROVE  /\ Cache!Unordered(k) \in Seq(Keys)
           /\ \A i, j \in 1..Len(Cache!Unordered(k)) :
                Cache!Unordered(k)[i] = Cache!Unordered(k)[j] => i = j
           /\ \A i \in 1..Len(Cache!Unordered(k)) :
                Cache!Unordered(k)[i] \in (DOMAIN entries) \ {k}
           /\ \A m \in (DOMAIN entries) \ {k} :
                \E i \in 1..Len(Cache!Unordered(k)) : Cache!Unordered(k)[i] = m
<1>0. Len(order) \in Nat
  BY LenProperties
<1>1. CASE \A i \in 1..Len(order) : order[i] # k
  <2>1. Cache!Unordered(k) = order
    BY <1>1 DEF Cache!Unordered
  <2> QED BY <1>1, <2>1 DEF Once
<1>2. CASE \E i \in 1..Len(order) : order[i] = k
  <2> DEFINE p == Cache!Place(k)
             t == Cache!Unordered(k)
  <2>1. p \in 1..Len(order) /\ order[p] = k
    BY <1>2 DEF Cache!Place
  <2>2. t = SubSeq(order, 1, p - 1) \o SubSeq(order, p + 1, Len(order))
    BY <1>2 DEF Cache!Unordered
  <2> HIDE DEF p, t
  <2>3. /\ t \in Seq(Keys) /\ Len(t) = Len(order) - 1
        /\ \A j \in 1..(Len(order) - 1) : t[j] = order[IF j < p THEN j ELSE j + 1]
    BY <2>1, <2>2, TakesOut
  <2>4. ASSUME NEW i \in 1..Len(t)
        PROVE  /\ (IF i < p THEN i ELSE i + 1) \in 1..Len(order)
               /\ (IF i < p THEN i ELSE i + 1) # p
               /\ t[i] = order[IF i < p THEN i ELSE i + 1]
    BY <1>0, <2>1, <2>3
  <2>5. ASSUME NEW i \in 1..Len(t), NEW j \in 1..Len(t), t[i] = t[j] PROVE i = j
    <3> DEFINE a == IF i < p THEN i ELSE i + 1
               b == IF j < p THEN j ELSE j + 1
    <3>1. /\ a \in 1..Len(order) /\ t[i] = order[a]
          /\ b \in 1..Len(order) /\ t[j] = order[b]
      BY <2>4
    <3> HIDE DEF a, b
    <3>2. a = b
      BY <2>5, <3>1 DEF Once
    <3>3. (IF i < p THEN i ELSE i + 1) = (IF j < p THEN j ELSE j + 1)
      BY <3>2 DEF a, b
    <3> QED BY <1>0, <2>1, <2>3, <3>3
  <2>6. ASSUME NEW i \in 1..Len(t) PROVE t[i] \in (DOMAIN entries) \ {k}
    <3> DEFINE a == IF i < p THEN i ELSE i + 1
    <3>1. a \in 1..Len(order) /\ a # p /\ t[i] = order[a]
      BY <2>4
    <3> HIDE DEF a
    <3> QED BY <2>1, <3>1 DEF Once
  <2>7. ASSUME NEW m \in (DOMAIN entries) \ {k} PROVE \E i \in 1..Len(t) : t[i] = m
    <3>1. PICK q \in 1..Len(order) : order[q] = m
      BY DEF Once
    <3>2. q # p
      BY <2>1, <3>1
    <3>3. CASE q < p
      <4>1. q \in 1..Len(t) /\ t[q] = order[q]
        BY <1>0, <2>1, <2>3, <3>3
      <4> QED BY <3>1, <4>1
    <3>4. CASE q > p
      <4>1. q - 1 \in 1..(Len(order) - 1) /\ ~ (q - 1 < p) /\ q - 1 + 1 = q
        BY <1>0, <2>1, <3>4
      <4>2. t[q - 1] = order[q]
        BY <2>3, <4>1
      <4> QED BY <2>3, <3>1, <4>1, <4>2
    <3> QED BY <1>0, <2>1, <3>2, <3>3, <3>4
  <2> QED BY <2>3, <2>5, <2>6, <2>7 DEF t
<1> QED BY <1>1, <1>2

\* Removing an entry keeps map, list and count together, and empties or lightens the cache.
LEMMA Removes ==
    ASSUME CacheInv, NEW k \in DOMAIN entries, Cache!RemoveEntry(k)
    PROVE  /\ Once' /\ memory' = Cardinality(Cache!Taken)' /\ order' \in Seq(Keys)
           /\ memory' \in Nat /\ memory' <= memory
           /\ Size' = Size - 1 /\ (Size = 1 => memory' = 0)
           /\ DOMAIN entries' = (DOMAIN entries) \ {k}
           /\ \A j \in DOMAIN entries' : entries'[j] = entries[j]
<1> DEFINE D == (DOMAIN entries) \ {k}
<1>1. /\ entries' = [j \in D |-> entries[j]] /\ order' = Cache!Unordered(k)
      /\ memory' = memory - entries[k].size
  BY DEF Cache!RemoveEntry, Cache!Has, Cache!Without
<1>2. DOMAIN entries' = D /\ \A j \in D : entries'[j] = entries[j]
  BY <1>1
<1>3. Once' /\ order' \in Seq(Keys)
  <2>1. Once /\ order \in Seq(Keys)
    BY DEF CacheInv, Cache!TypeOK
  <2> QED BY <1>1, <1>2, <2>1, Unorders DEF Once
<1>4. IsFiniteSet(D) /\ Cardinality(D) = Size - 1
  BY EntriesAre, FS_RemoveElement DEF Size
<1>5. D \cup {k} = DOMAIN entries /\ k \notin D
  OBVIOUS
<1> HIDE DEF D
<1>6. memory = Cardinality(Held(entries, D)) + entries[k].size
  BY <1>4, <1>5, EntriesAre, HeldGrows
<1>7. Held(entries', D) = Held(entries, D)
  BY <1>2, HeldIsOfSizes
<1>8. Cardinality(Held(entries, D)) \in Nat
  BY <1>4, <1>5, EntriesAre, HeldIsFinite
<1>9. memory' = Cardinality(Held(entries', DOMAIN entries')) /\ memory' \in Nat /\ memory' <= memory
  BY <1>1, <1>2, <1>5, <1>6, <1>7, <1>8, EntriesAre
<1>10. Size = 1 => memory' = 0
  <2>1. ASSUME Size = 1 PROVE D = {}
    BY <1>4, <2>1, FS_EmptySet
  <2> QED BY <1>2, <1>9, <2>1, NoneHeld
<1>11. Cache!Taken' = Held(entries', DOMAIN entries')
  BY DEF Cache!Taken, Held, BytesOf
<1> QED BY <1>2, <1>3, <1>4, <1>9, <1>10, <1>11 DEF Size, D
-----------------------------------------------------------------------------
\* Initially the cache is empty.
LEMMA CacheInitInv == Cache!Init => CacheInv
<1> SUFFICES ASSUME Cache!Init PROVE CacheInv
  OBVIOUS
<1>1. /\ <<>> \in Seq(Keys) /\ Len(<<>>) = 0 /\ DOMAIN <<>> = {}
  OBVIOUS
<1>2. Size = 0 /\ Cardinality(Cache!Taken) = 0
  <2>1. Cache!Taken = {}
    BY <1>1 DEF Cache!Init, Cache!Taken
  <2> QED BY <1>1, <2>1, FS_EmptySet DEF Cache!Init, Size
<1>3. Cache!TypeOK
  BY <1>1 DEF Cache!Init, Cache!TypeOK, Cache!SettingSet
<1>4. Once
  BY <1>1 DEF Cache!Init, Once
<1>5. Limits
  BY <1>2, CacheBounds DEF Cache!Init, Limits, Alone, Cache!NotSetting
<1> QED BY <1>2, <1>3, <1>4, <1>5 DEF Cache!Init, CacheInv

\* Steps that leave map, list and count alone.
LEMMA CacheKept ==
    ASSUME CacheInv, UNCHANGED <<entries, order, memory>>,
           policy' \in {"LRU", "LFU", "TTL", "FIFO"}, sweep' \subseteq Keys,
           setting' \in Cache!SettingSet, Limits'
    PROVE  CacheInv'
<1>1. Cache!TypeOK'
  BY DEF CacheInv, Cache!TypeOK, Cache!SettingSet, Cache!NotSetting
<1>2. Once' /\ (memory = Cardinality(Cache!Taken))'
  BY DEF CacheInv, Once, Cache!Taken
<1> QED BY <1>1, <1>2 DEF CacheInv

\* Steps that remove an entry, whoever does it.
LEMMA RemovalKept ==
    ASSUME CacheInv, NEW k \in DOMAIN entries, Cache!RemoveEntry(k),
           policy' \in {"LRU", "LFU", "TTL", "FIFO"}, sweep' \subseteq Keys,
           setting' \in Cache!SettingSet, setting'.stage # "store"
    PROVE  CacheInv'
<1>1. /\ Once' /\ memory' = Cardinality(Cache!Taken)' /\ order' \in Seq(Keys)
      /\ memory' \in Nat /\ memory' <= memory
      /\ Size' = Size - 1 /\ (Size = 1 => memory' = 0)
      /\ DOMAIN entries' = (DOMAIN entries) \ {k}
      /\ \A j \in DOMAIN entries' : entries'[j] = entries[j]
  BY Removes
<1>2. /\ Size \in Nat /\ memory \in Nat /\ MaxSize \in Nat /\ MaxMemory \in Nat
      /\ DOMAIN entries \subseteq Keys /\ \A j \in DOMAIN entries : entries[j] \in Cache!Entry
  BY EntriesAre
<1>3. Limits'
  <2>1. Size' <= MaxSize
    BY <1>1, <1>2 DEF CacheInv, Limits
  <2>2. Alone'
    BY <1>1, <1>2 DEF CacheInv, Limits, Alone
  <2> QED BY <2>1, <2>2 DEF Limits
<1>4. Cache!TypeOK'
  BY <1>1, <1>2 DEF CacheInv, Cache!TypeOK, Cache!SettingSet, Cache!NotSetting, Cache!Entry
<1> QED BY <1>1, <1>3, <1>4 DEF CacheInv

LEMMA MovesToEnd ==
    ASSUME CacheInv, NEW k \in Keys, order' = Append(Cache!Unordered(k), k),
           DOMAIN entries' = (DOMAIN entries) \cup {k}
    PROVE  Once' /\ order' \in Seq(Keys)
<1> DEFINE t == Cache!Unordered(k)
<1>1. /\ t \in Seq(Keys)
      /\ \A i, j \in 1..Len(t) : t[i] = t[j] => i = j
      /\ \A i \in 1..Len(t) : t[i] \in (DOMAIN entries) \ {k}
      /\ \A m \in (DOMAIN entries) \ {k} : \E i \in 1..Len(t) : t[i] = m
  BY Unorders DEF CacheInv, Cache!TypeOK
<1>2. order' = Append(t, k)
  OBVIOUS
<1> HIDE DEF t
<1>3. /\ order' \in Seq(Keys) /\ Len(order') = Len(t) + 1 /\ Len(t) \in Nat
      /\ order'[Len(t) + 1] = k /\ \A i \in 1..Len(t) : order'[i] = t[i]
  BY <1>1, <1>2, AppendProperties, LenProperties
<1>4. \A i \in 1..Len(order') : i \in 1..Len(t) \/ i = Len(t) + 1
  BY <1>3
<1>5. \A i, j \in 1..Len(order') : order'[i] = order'[j] => i = j
  BY <1>1, <1>3, <1>4
<1>6. \A i \in 1..Len(order') : order'[i] \in DOMAIN entries'
  BY <1>1, <1>3, <1>4
<1>7. \A m \in DOMAIN entries' : \E i \in 1..Len(order') : order'[i] = m
  <2>1. ASSUME NEW m \in DOMAIN entries' PROVE \E i \in 1..Len(order') : order'[i] = m
    <3>1. CASE m = k
      BY <1>3, <3>1
    <3>2. CASE m # k
      <4>1. PICK i \in 1..Len(t) : t[i] = m
        BY <1>1, <3>2
      <4>2. i \in 1..Len(order')
        BY <1>3
      <4> QED BY <1>3, <4>1, <4>2
    <3> QED BY <3>1, <3>2
  <2> QED BY <2>1
<1> QED BY <1>3, <1>5, <1>6, <1>7 DEF Once

\* Steps that change an entry and leave its size.
LEMMA SameSizes ==
    ASSUME CacheInv, DOMAIN entries' = DOMAIN entries,
           \A j \in DOMAIN entries :
                entries'[j] \in Cache!Entry /\ entries'[j].size = entries[j].size,
           Once', order' \in Seq(Keys), UNCHANGED <<memory, policy, setting, sweep>>
    PROVE  CacheInv'
<1>1. Cache!Taken' = Cache!Taken
  BY DEF Cache!Taken
<1>2. Limits'
  BY DEF CacheInv, Limits, Alone, Size
<1>3. Cache!TypeOK'
  BY DEF CacheInv, Cache!TypeOK, Cache!SettingSet, Cache!NotSetting, Cache!Entry
<1> QED BY <1>1, <1>2, <1>3 DEF CacheInv

LEMMA GetsEntry ==
    ASSUME CacheInv, NEW k \in Keys, Cache!Get(k)
    PROVE  CacheInv'
<1>1. /\ k \in DOMAIN entries /\ setting = Cache!NotSetting /\ UNCHANGED <<policy, setting, sweep>>
  BY DEF Cache!Get, Cache!Unlocked, Cache!Has
<1>2. CASE Cache!RemoveEntry(k)
  BY <1>1, <1>2, RemovalKept DEF CacheInv, Cache!TypeOK, Cache!NotSetting
<1>3. CASE ~ entries[k].expired
  <2>1. /\ entries' = [entries EXCEPT ![k].hits = IF @ < MaxHits THEN @ + 1 ELSE @]
        /\ order' = Append(Cache!Unordered(k), k) /\ UNCHANGED memory
    BY <1>3 DEF Cache!Get
  <2>2. DOMAIN entries' = DOMAIN entries
    BY <2>1
  <2>3. \A j \in DOMAIN entries :
            entries'[j] \in Cache!Entry /\ entries'[j].size = entries[j].size
    <3>1. entries[k] \in Cache!Entry
      BY <1>1, EntriesAre
    <3>2. entries'[k] = [entries[k] EXCEPT !.hits = IF @ < MaxHits THEN @ + 1 ELSE @]
      BY <1>1, <2>1
    <3>3. entries'[k] \in Cache!Entry /\ entries'[k].size = entries[k].size
      <4> DEFINE h == IF entries[k].hits < MaxHits THEN entries[k].hits + 1 ELSE entries[k].hits
      <4>1. entries[k].hits \in 0..MaxHits
        BY <3>1 DEF Cache!Entry
      <4>2. h \in 0..MaxHits
        BY <4>1, CacheBounds
      <4>3. entries'[k] = [entries[k] EXCEPT !.hits = h]
        BY <3>2
      <4> HIDE DEF h
      <4> QED BY <3>1, <4>2, <4>3 DEF Cache!Entry
    <3>4. \A j \in (DOMAIN entries) \ {k} : entries'[j] = entries[j]
      BY <2>1
    <3> QED BY <3>3, <3>4, EntriesAre
  <2>4. DOMAIN entries' = (DOMAIN entries) \cup {k}
    BY <1>1, <2>2
  <2>5. Once' /\ order' \in Seq(Keys)
    BY <2>1, <2>4, MovesToEnd
  <2> QED BY <1>1, <2>1, <2>2, <2>3, <2>5, SameSizes
<1> QED BY <1>2, <1>3 DEF Cache!Get

LEMMA Expires ==
    ASSUME CacheInv, NEW k \in Keys, Cache!Expire(k)
    PROVE  CacheInv'
<1>1. /\ k \in DOMAIN entries /\ entries' = [entries EXCEPT ![k].expired = TRUE]
      /\ UNCHANGED <<order, memory, policy, setting, sweep>>
  BY DEF Cache!Expire, Cache!Has
<1>2. DOMAIN entries' = DOMAIN entries
  BY <1>1
<1>3. entries[k] \in Cache!Entry /\ entries'[k] = [entries[k] EXCEPT !.expired = TRUE]
  BY <1>1, EntriesAre
<1>4. entries'[k] \in Cache!Entry /\ entries'[k].size = entries[k].size
  BY <1>3 DEF Cache!Entry
<1>5. \A j \in (DOMAIN entries) \ {k} : entries'[j] = entries[j]
  BY <1>1
<1>6. Once' /\ order' \in Seq(Keys)
  BY <1>1, <1>2 DEF CacheInv, Once, Cache!TypeOK
<1> QED BY <1>1, <1>2, <1>4, <1>5, <1>6, SameSizes, EntriesAre

\* A Set that found room stores its entry at the end of the list.
LEMMA Stores ==
    ASSUME CacheInv, Cache!Store
    PROVE  CacheInv'
<1> DEFINE k == setting.key
           new == [size |-> setting.size, hits |-> 0, expired |-> FALSE]
           D == (DOMAIN entries) \ {k}
<1>1. /\ setting.stage = "store" /\ UNCHANGED <<policy, sweep>>
      /\ entries' = [j \in DOMAIN entries \cup {k} |-> IF j = k THEN new ELSE entries[j]]
      /\ order' = Append(Cache!Unordered(k), k)
      /\ memory' = memory - (IF k \in DOMAIN entries THEN entries[k].size ELSE 0) + setting.size
      /\ setting' = [setting EXCEPT !.stage = "trim"]
  BY DEF Cache!Store, Cache!Has
<1>2. setting \in [stage : {"room", "store", "trim"}, key : Keys, size : Sizes]
  BY <1>1 DEF CacheInv, Cache!TypeOK, Cache!SettingSet, Cache!NotSetting
<1>3. k \in Keys /\ setting.size \in Sizes /\ setting.size \in Nat /\ new \in Cache!Entry
      /\ new.size = setting.size
  <2>1. k \in Keys /\ setting.size \in Sizes
    BY <1>2
  <2>2. 0 \in 0..MaxHits /\ setting.size \in Nat
    BY <2>1, CacheBounds
  <2> QED BY <2>1, <2>2 DEF Cache!Entry
<1>4. setting' \in Cache!SettingSet /\ setting'.stage = "trim"
  BY <1>1, <1>2 DEF Cache!SettingSet
<1>5. /\ DOMAIN entries' = (DOMAIN entries) \cup {k} /\ entries'[k] = new
      /\ \A j \in D : entries'[j] = entries[j]
  BY <1>1
<1>6. IsFiniteSet(D) /\ Cardinality(D) = (IF k \in DOMAIN entries THEN Size - 1 ELSE Size)
  <2>1. CASE k \in DOMAIN entries
    BY <2>1, EntriesAre, FS_RemoveElement DEF Size
  <2>2. CASE k \notin DOMAIN entries
    <3>1. D = DOMAIN entries
      BY <2>2
    <3> QED BY <2>2, <3>1, EntriesAre DEF Size
  <2> QED BY <2>1, <2>2
<1>7. D \cup {k} = DOMAIN entries' /\ k \notin D /\ D \subseteq DOMAIN entries
  BY <1>5
<1>8. \A j \in DOMAIN entries' : entries'[j] \in Cache!Entry
  BY <1>3, <1>5, EntriesAre
<1>9. \A j \in DOMAIN entries' : entries'[j].size \in Nat
  BY <1>8, CacheBounds DEF Cache!Entry
<1>10. Cardinality(DOMAIN entries') = Cardinality(D) + 1
  BY <1>6, <1>7, FS_AddElement
<1> HIDE DEF D
<1>11. Held(entries', D) = Held(entries, D)
  BY <1>5, HeldIsOfSizes
<1>12. Cardinality(Held(entries, D)) =
            memory - (IF k \in DOMAIN entries THEN entries[k].size ELSE 0)
  <2>1. CASE k \in DOMAIN entries
    <3>1. D \cup {k} = DOMAIN entries
      BY <1>5, <1>7, <2>1 DEF D
    <3>2. memory = Cardinality(Held(entries, D)) + entries[k].size
      BY <1>6, <1>7, <3>1, EntriesAre, HeldGrows
    <3>3. Cardinality(Held(entries, D)) \in Nat
      BY <1>6, <1>7, EntriesAre, HeldIsFinite
    <3> QED BY <2>1, <3>2, <3>3, EntriesAre
  <2>2. CASE k \notin DOMAIN entries
    <3>1. D = DOMAIN entries
      BY <2>2 DEF D
    <3> QED BY <2>2, <3>1, EntriesAre
  <2> QED BY <2>1, <2>2
<1>13. Cardinality(Held(entries', DOMAIN entries')) = Cardinality(Held(entries, D)) + setting.size
  BY <1>3, <1>5, <1>6, <1>7, <1>9, <1>11, HeldGrows
<1>14. memory' = Cardinality(Held(entries', DOMAIN entries'))
  BY <1>1, <1>12, <1>13
<1>15. memory' = Cardinality(Cache!Taken)'
  BY <1>14 DEF Cache!Taken, Held, BytesOf
<1>16. memory' \in Nat /\ memory' <= memory + setting.size
       /\ (DOMAIN entries = {} => Cardinality(DOMAIN entries') = 1)
  <2>1. Cardinality(Held(entries, D)) \in Nat
    BY <1>6, <1>7, EntriesAre, HeldIsFinite
  <2>2. Cardinality(Held(entries, D)) <= memory
    <3>1. CASE k \in DOMAIN entries
      BY <1>12, <3>1, EntriesAre
    <3>2. CASE k \notin DOMAIN entries
      BY <1>12, <3>2, EntriesAre
    <3> QED BY <3>1, <3>2
  <2>3. DOMAIN entries = {} => Cardinality(DOMAIN entries') = 1
    <3>1. ASSUME DOMAIN entries = {} PROVE Cardinality(DOMAIN entries') = 1
      <4>1. DOMAIN entries' = {k}
        BY <1>5, <3>1
      <4> QED BY <4>1, FS_Singleton
    <3> QED BY <3>1
  <2> QED BY <1>3, <1>13, <1>14, <2>1, <2>2, <2>3, EntriesAre
<1>17. Once' /\ order' \in Seq(Keys)
  BY <1>1, <1>3, <1>5, MovesToEnd
<1>18. Limits'
  <2>1. Size <= MaxSize /\ (memory + setting.size <= MaxMemory \/ DOMAIN entries = {})
    BY <1>1 DEF CacheInv, Limits
  <2>2. Size' <= MaxSize + 1
    BY <1>6, <1>10, <2>1, EntriesAre DEF Size
  <2>3. Alone'
    BY <1>3, <1>16, <2>1, EntriesAre DEF Alone, Size
  <2> QED BY <1>4, <2>2, <2>3 DEF Limits
<1>19. Cache!TypeOK'
  <2>1. DOMAIN entries' \subseteq Keys
    BY <1>3, <1>5, EntriesAre
  <2> QED BY <1>1, <1>4, <1>8, <1>16, <1>17, <2>1
      DEF CacheInv, Cache!TypeOK, Cache!SettingSet, Cache!NotSetting, Cache!Entry
<1> QED BY <1>15, <1>17, <1>18, <1>19 DEF CacheInv

\* Whom a policy names is in the map.
LEMMA VictimsAreEntries ==
    ASSUME CacheInv, DOMAIN entries # {}
    PROVE  Cache!Victims \subseteq DOMAIN entries
<1>1. order[1] \in DOMAIN entries
  <2>1. Len(order) \in Nat /\ \E i \in 1..Len(order) : TRUE
    BY EntriesAre DEF CacheInv, Once
  <2>2. 1 \in 1..Len(order)
    BY <2>1
  <2> QED BY <2>2 DEF CacheInv, Once
<1>2. policy \in {"LRU", "LFU", "TTL", "FIFO"}
  BY DEF CacheInv, Cache!TypeOK
<1>3. CASE policy = "LFU"
  BY <1>3 DEF Cache!Victims
<1>4. CASE policy = "TTL" /\ \E k \in DOMAIN entries : entries[k].expired
  BY <1>4 DEF Cache!Victims
<1>5. CASE policy # "LFU" /\ ~ (policy = "TTL" /\ \E k \in DOMAIN entries : entries[k].expired)
  <2>1. Cache!Victims = {order[1]}
    BY <1>5 DEF Cache!Victims
  <2> QED BY <1>1, <2>1
<1> QED BY <1>3, <1>4, <1>5

\* evict takes the entries one by one until there is room.
LEMMA MakesSpace ==
    ASSUME CacheInv, Cache!MakeSpace
    PROVE  CacheInv'
<1>1. setting.stage = "room" /\ UNCHANGED <<policy, sweep>>
  BY DEF Cache!MakeSpace
<1>2. setting \in [stage : {"room", "store", "trim"}, key : Keys, size : Sizes]
  BY <1>1 DEF CacheInv, Cache!TypeOK, Cache!SettingSet, Cache!NotSetting
<1>3. CASE memory + setting.size > MaxMemory /\ DOMAIN entries # {}
  <2>1. PICK v \in Cache!Victims : Cache!RemoveEntry(v)
    BY <1>3 DEF Cache!MakeSpace
  <2>2. v \in DOMAIN entries /\ setting' = setting
    BY <1>3, <2>1, VictimsAreEntries DEF Cache!MakeSpace
  <2> QED BY <1>1, <2>1, <2>2, RemovalKept DEF CacheInv, Cache!TypeOK
<1>4. CASE ~ (memory + setting.size > MaxMemory /\ DOMAIN entries # {})
  <2>1. setting' = [setting EXCEPT !.stage = "store"] /\ UNCHANGED <<entries, order, memory>>
    BY <1>4 DEF Cache!MakeSpace
  <2>2. setting' \in Cache!SettingSet /\ setting'.stage = "store" /\ setting'.size = setting.size
    BY <1>2, <2>1 DEF Cache!SettingSet
  <2>3. memory + setting.size <= MaxMemory \/ DOMAIN entries = {}
    <3>1. setting.size \in Nat
      BY <1>2, CacheBounds
    <3>2. memory \in Nat /\ MaxMemory \in Nat
      BY EntriesAre
    <3>3. \A x \in Nat : memory + x > MaxMemory \/ memory + x <= MaxMemory
      BY <3>2
    <3> QED BY <1>4, <3>1, <3>3
  <2>4. Limits'
    BY <1>1, <2>1, <2>2, <2>3 DEF CacheInv, Limits, Alone, Size
  <2> QED BY <1>1, <2>1, <2>2, <2>4, CacheKept DEF CacheInv, Cache!TypeOK
<1> QED BY <1>3, <1>4

LEMMA Trims ==
    ASSUME CacheInv, Cache!Trim
    PROVE  CacheInv'
<1>1. /\ setting.stage = "trim" /\ setting' = Cache!NotSetting /\ UNCHANGED <<policy, sweep>>
      /\ setting' \in Cache!SettingSet /\ setting'.stage = "none"
  BY DEF Cache!Trim, Cache!SettingSet, Cache!NotSetting
<1>2. CASE Size > MaxSize
  <2>1. PICK v \in Cache!Victims : Cache!RemoveEntry(v)
    BY <1>2, CacheCounts DEF Cache!Trim, Size
  <2>2. DOMAIN entries # {}
    <3>1. ASSUME DOMAIN entries = {} PROVE FALSE
      BY <1>2, <3>1, FS_EmptySet, CacheBounds DEF Size
    <3> QED BY <3>1
  <2>3. v \in DOMAIN entries
    BY <2>1, <2>2, VictimsAreEntries
  <2> QED BY <1>1, <2>1, <2>3, RemovalKept DEF CacheInv, Cache!TypeOK
<1>3. CASE ~ (Size > MaxSize)
  <2>1. UNCHANGED <<entries, order, memory>>
    BY <1>3, CacheCounts DEF Cache!Trim, Size
  <2>2. Limits'
    BY <1>1, <1>3, <2>1, EntriesAre DEF CacheInv, Limits, Alone, Size
  <2> QED BY <1>1, <2>1, <2>2, CacheKept DEF CacheInv, Cache!TypeOK
<1> QED BY <1>2, <1>3

\* Steps between calls, and those of cleanup, which remove a key or change no entry.
LEMMA RemovesOrNot ==
    ASSUME CacheInv, NEW k, Cache!RemoveEntry(k) \/ UNCHANGED <<entries, order, memory>>,
           policy' \in {"LRU", "LFU", "TTL", "FIFO"}, sweep' \subseteq Keys,
           setting' \in Cache!SettingSet, setting'.stage # "store", setting.stage # "trim"
    PROVE  CacheInv'
<1>1. CASE k \in DOMAIN entries /\ Cache!RemoveEntry(k)
  BY <1>1, RemovalKept
<1>2. CASE UNCHANGED <<entries, order, memory>>
  <2>1. Limits'
    BY <1>2 DEF CacheInv, Limits, Alone, Size
  <2> QED BY <1>2, <2>1, CacheKept
<1> QED BY <1>1, <1>2 DEF Cache!RemoveEntry, Cache!Has

\* Cleanup removes an expired key, whether or not it is still there.
LEMMA CleansUp ==
    ASSUME CacheInv, NEW k \in Keys, Cache!CleanupNext(k)
    PROVE  CacheInv'
<1>1. /\ setting.stage = "clean" /\ k \in setting.expired /\ Cache!RemoveEntry(k)
      /\ setting' = IF setting.expired = {k} THEN Cache!NotSetting
                    ELSE [setting EXCEPT !.expired = @ \ {k}]
      /\ UNCHANGED <<policy, sweep>>
  BY DEF Cache!CleanupNext
<1>2. setting \in [stage : {"clean"}, expired : SUBSET Keys]
  BY <1>1 DEF CacheInv, Cache!TypeOK, Cache!SettingSet, Cache!NotSetting
<1>3. setting' \in Cache!SettingSet /\ setting'.stage \in {"none", "clean"}
  <2>1. CASE setting.expired = {k}
    BY <1>1, <2>1 DEF Cache!SettingSet, Cache!NotSetting
  <2>2. CASE setting.expired # {k}
    BY <1>1, <1>2, <2>2 DEF Cache!SettingSet
  <2> QED BY <2>1, <2>2
<1> QED BY <1>1, <1>3, RemovesOrNot DEF CacheInv, Cache!TypeOK

\* Every step of the cache keeps the invariant.
LEMMA CacheNextInv == CacheInv /\ [Cache!Next]_cacheVars => CacheInv'
<1> SUFFICES ASSUME CacheInv, [Cache!Next]_cacheVars PROVE CacheInv'
  OBVIOUS
<1>0. /\ policy \in {"LRU", "LFU", "TTL", "FIFO"} /\ sweep \subseteq Keys
      /\ setting \in Cache!SettingSet
      /\ Cache!NotSetting \in Cache!SettingSet /\ Cache!NotSetting.stage = "none"
      /\ DOMAIN entries \subseteq Keys
  BY DEF CacheInv, Cache!TypeOK, Cache!NotSetting, Cache!SettingSet
<1>1. ASSUME NEW k \in Keys, Cache!Delete(k) PROVE CacheInv'
  BY <1>0, <1>1, RemovesOrNot DEF Cache!Delete, Cache!Unlocked
<1>2. ASSUME NEW k \in Keys, Cache!InvalidateNext(k) PROVE CacheInv'
  <2>1. /\ sweep' = sweep \ {k} /\ UNCHANGED <<policy, setting>>
    BY <1>2 DEF Cache!InvalidateNext
  <2>2. CASE k \in MatchedKeys
    BY <1>0, <1>2, <2>1, <2>2, RemovesOrNot DEF Cache!InvalidateNext, Cache!Unlocked
  <2>3. CASE k \notin MatchedKeys
    <3>1. UNCHANGED <<entries, order, memory>>
      BY <1>2, <2>3 DEF Cache!InvalidateNext
    <3>2. Limits'
      BY <2>1, <3>1 DEF CacheInv, Limits, Alone, Size
    <3> QED BY <1>0, <2>1, <3>1, <3>2, CacheKept
  <2> QED BY <2>2, <2>3
<1>3. ASSUME NEW k \in Keys, NEW s \in Sizes, Cache!Set(k, s) PROVE CacheInv'
  <2>1. /\ setting = Cache!NotSetting /\ setting' = [stage |-> "room", key |-> k, size |-> s]
        /\ UNCHANGED <<entries, order, memory, policy, sweep>>
    BY <1>3 DEF Cache!Set, Cache!Unlocked
  <2>2. setting' \in Cache!SettingSet /\ setting'.stage = "room"
    BY <2>1 DEF Cache!SettingSet
  <2> QED BY <1>0, <2>1, <2>2, RemovesOrNot
<1>4. CASE Cache!Cleanup
  <2> DEFINE expired == {k \in DOMAIN entries : entries[k].expired}
  <2>1. /\ setting = Cache!NotSetting /\ setting' = [stage |-> "clean", expired |-> expired]
        /\ UNCHANGED <<entries, order, memory, policy, sweep>>
    BY <1>4 DEF Cache!Cleanup, Cache!Unlocked
  <2>2. setting' \in Cache!SettingSet /\ setting'.stage = "clean"
    BY <1>0, <2>1 DEF Cache!SettingSet
  <2> QED BY <1>0, <2>1, <2>2, RemovesOrNot
<1>5. ASSUME NEW p \in {"LRU", "LFU", "TTL", "FIFO"}, Cache!SetEvictionPolicy(p) PROVE CacheInv'
  BY <1>0, <1>5, RemovesOrNot DEF Cache!SetEvictionPolicy, Cache!Unlocked
<1>6. CASE Cache!InvalidatePattern
  BY <1>0, <1>6, RemovesOrNot DEF Cache!InvalidatePattern, Cache!Unlocked
<1>7. CASE UNCHANGED cacheVars
  <2>1. Limits'
    BY <1>7 DEF cacheVars, CacheInv, Limits, Alone, Size
  <2> QED BY <1>0, <1>7, <2>1, CacheKept DEF cacheVars
<1>8. CASE Cache!Clear
  <2>1. /\ entries' = <<>> /\ order' = <<>> /\ memory' = 0 /\ setting = Cache!NotSetting
        /\ UNCHANGED <<policy, setting, sweep>>
    BY <1>8 DEF Cache!Clear, Cache!Unlocked
  <2>2. /\ <<>> \in Seq(Keys) /\ Len(<<>>) = 0 /\ DOMAIN <<>> = {}
    OBVIOUS
  <2>3. Size' = 0 /\ Cardinality(Cache!Taken)' = 0
    <3>1. Cache!Taken' = {} /\ DOMAIN entries' = {}
      BY <2>1, <2>2 DEF Cache!Taken
    <3> QED BY <3>1, FS_EmptySet DEF Size
  <2>4. Cache!TypeOK'
    BY <1>0, <2>1, <2>2 DEF Cache!TypeOK, Cache!SettingSet, Cache!NotSetting
  <2>5. Once'
    BY <2>1, <2>2 DEF Once
  <2>6. Limits'
    BY <1>0, <2>1, <2>3, CacheBounds DEF Limits, Alone
  <2> QED BY <2>1, <2>3, <2>4, <2>5, <2>6 DEF CacheInv
<1> QED BY <1>1, <1>2, <1>3, <1>4, <1>5, <1>6, <1>7, <1>8, GetsEntry, Expires, Stores, MakesSpace,
           Trims, CleansUp DEF Cache!Next
-----------------------------------------------------------------------------
\* A list that has each of some keys once is as long as they are many.
LEMMA AsLong ==
    ASSUME CacheInv
    PROVE  /\ Len(order) = Size
           /\ {order[i] : i \in 1..Len(order)} = DOMAIN entries
<1> DEFINE f == [i \in 1..Len(order) |-> order[i]]
<1>1. Len(order) \in Nat
  BY EntriesAre
<1>a. Once
  BY DEF CacheInv
<1>b. f \in [1..Len(order) -> DOMAIN entries]
  BY <1>a DEF Once
<1>c. f \in Injection(1..Len(order), DOMAIN entries)
  BY <1>a, <1>b DEF Once, Injection, IsInjective
<1>d. f \in Surjection(1..Len(order), DOMAIN entries)
  BY <1>a, <1>b DEF Once, Surjection
<1>2. f \in Bijection(1..Len(order), DOMAIN entries)
  BY <1>c, <1>d DEF Bijection
<1>3. ExistsBijection(1..Len(order), DOMAIN entries)
  BY <1>2 DEF ExistsBijection
<1>4. IsFiniteSet(1..Len(order)) /\ Cardinality(1..Len(order)) = Len(order)
  BY <1>1, FS_Interval
<1>5. Cardinality(DOMAIN entries) = Cardinality(1..Len(order))
  BY <1>3, <1>4, FS_Bijection
<1>6. {order[i] : i \in 1..Len(order)} = DOMAIN entries
  <2>1. \A k \in DOMAIN entries : \E i \in 1..Len(order) : order[i] = k
    BY <1>a DEF Once
  <2>2. \A i \in 1..Len(order) : order[i] \in DOMAIN entries
    BY <1>a DEF Once
  <2> HIDE DEF f
  <2> QED BY <2>1, <2>2, Zenon
<1> QED BY <1>4, <1>5, <1>6 DEF Size

\* The invariant says what CacheAgrees says.
LEMMA CacheInvAgrees == CacheInv => Cache!TypeOK /\ Cache!CacheAgrees
<1> SUFFICES ASSUME CacheInv PROVE Cache!TypeOK /\ Cache!CacheAgrees
  OBVIOUS
<1>1. Cache!ListAgrees
  BY AsLong, CacheCounts DEF CacheInv, Cache!ListAgrees, Size
<1>2. Cache!LimitsKept
  BY CacheCounts DEF CacheInv, Cache!LimitsKept, Cache!Unlocked, Limits, Alone, Size,
     Cache!NotSetting
<1> QED BY <1>1, <1>2 DEF CacheInv, Cache!CacheAgrees
-----------------------------------------------------------------------------
(* The stream of a connection.  While every Read was careful, what is in   *)
(* the buffer is what was taken from the connection and not handed out; a  *)
(* Read waits for the connection only when that is nothing.                *)
Buffers == [buf : Seq(Nat), rpos : Nat, wpos : Nat]

StreamHeld ==
    /\ got <= taken
    /\ buffer.rpos <= buffer.wpos /\ buffer.wpos - buffer.rpos = taken - got
    /\ \A i \in 1..(taken - got) : buffer.buf[buffer.rpos + i] = got + i

StreamInv ==
    /\ Buffered!TypeOK /\ buffer \in Buffers
    /\ bufferedClosed => call.op = "none"
    /\ call.op = "fill" => buffer.rpos = 0 /\ buffer.wpos = 0
    /\ ~careless => right
    /\ ~careless /\ ~bufferedClosed => StreamHeld
    /\ ~careless /\ call.op \in {"direct", "fill"} => got = taken

\* The bytes of the stream after m, up to n.
LEMMA StreamIs ==
    ASSUME NEW m \in Nat, NEW n \in Nat, m <= n
    PROVE  /\ Buffered!Stream(m, n) \in Seq(Nat) /\ Len(Buffered!Stream(m, n)) = n - m
           /\ \A i \in 1..(n - m) : Buffered!Stream(m, n)[i] = m + i
BY DEF Buffered!Stream

\* The only sequence of some length with the stream's bytes is the stream.
LEMMA StreamOnly ==
    ASSUME NEW m \in Nat, NEW n \in Nat, m <= n,
           NEW s \in Seq(Nat), Len(s) = n - m, \A i \in 1..(n - m) : s[i] = m + i
    PROVE  s = Buffered!Stream(m, n)
<1>1. \A i \in 1..Len(s) : s[i] = Buffered!Stream(m, n)[i]
  BY StreamIs
<1> QED BY <1>1, StreamIs, SeqEqual

\* Growing keeps what was written.
LEMMA Grows ==
    ASSUME NEW b \in Buffers, b.wpos <= Len(b.buf), NEW n \in Nat
    PROVE  /\ Buffered!Grow(b, n) \in Buffers
           /\ Buffered!Grow(b, n).rpos = b.rpos /\ Buffered!Grow(b, n).wpos = b.wpos
           /\ Len(Buffered!Grow(b, n).buf) = 2 * Len(b.buf) + n
           /\ \A i \in 1..b.wpos : Buffered!Grow(b, n).buf[i] = b.buf[i]
<1> DEFINE kept == SubSeq(b.buf, 1, b.wpos)
           room == 2 * Len(b.buf) + n - b.wpos
           zeros == [i \in 1..room |-> 0]
<1>0. Len(b.buf) \in Nat /\ b.wpos \in Nat /\ b.rpos \in Nat /\ b.buf \in Seq(Nat)
  BY DEF Buffers
<1>1. kept \in Seq(Nat) /\ Len(kept) = b.wpos /\ \A i \in 1..b.wpos : kept[i] = b.buf[i]
  BY <1>0, SubSeqProperties
<1>2. room \in Nat
  BY <1>0
<1>3. zeros \in Seq(Nat) /\ Len(zeros) = room
  BY <1>2
<1>4. Buffered!Grow(b, n) = [b EXCEPT !.buf = kept \o zeros]
  BY DEF Buffered!Grow, Buffered!Bytes, Buffered!Cap
<1> HIDE DEF kept, zeros, room
<1>5. /\ kept \o zeros \in Seq(Nat) /\ Len(kept \o zeros) = Len(kept) + Len(zeros)
      /\ \A i \in 1..(Len(kept) + Len(zeros)) :
            (kept \o zeros)[i] = IF i <= Len(kept) THEN kept[i] ELSE zeros[i - Len(kept)]
  BY <1>1, <1>3, ConcatProperties
<1>6. b.wpos + room = 2 * Len(b.buf) + n
  BY <1>0 DEF room
<1>7. \A i \in 1..b.wpos : (kept \o zeros)[i] = b.buf[i]
  BY <1>0, <1>1, <1>2, <1>3, <1>5
<1> HIDE DEF Buffered!Grow
<1>8. Buffered!Grow(b, n) = [buf |-> kept \o zeros, rpos |-> b.rpos, wpos |-> b.wpos]
  BY <1>4 DEF Buffers
<1> QED BY <1>0, <1>1, <1>3, <1>5, <1>6, <1>7, <1>8 DEF Buffers

\* Writing data over the elements of a sequence after the first w.
Over(s, w, data) ==
    SubSeq(s, 1, w) \o data \o SubSeq(s, w + Len(data) + 1, Len(s))

LEMMA Overwrites ==
    ASSUME NEW s \in Seq(Nat), NEW data \in Seq(Nat), NEW w \in Nat,
           w + Len(data) <= Len(s)
    PROVE  /\ Over(s, w, data) \in Seq(Nat) /\ Len(Over(s, w, data)) = Len(s)
           /\ \A i \in 1..w : Over(s, w, data)[i] = s[i]
           /\ \A i \in 1..Len(data) : Over(s, w, data)[w + i] = data[i]
<1> DEFINE t == Over(s, w, data)
           e == w + Len(data)
           kept == SubSeq(s, 1, w)
           rest == SubSeq(s, e + 1, Len(s))
           front == kept \o data
<1>0. Len(s) \in Nat /\ Len(data) \in Nat /\ w <= Len(s) /\ e \in Nat /\ e <= Len(s)
  BY LenProperties
<1>a. e = w + Len(data)
  OBVIOUS
<1>1. kept \in Seq(Nat) /\ Len(kept) = w /\ \A i \in 1..w : kept[i] = s[i]
  BY <1>0, SubSeqProperties
<1>2. rest \in Seq(Nat) /\ Len(rest) = Len(s) - e
  <2> HIDE DEF e, t
  <2>1. e + 1 \in Int /\ \A i \in (e + 1)..Len(s) : s[i] \in Nat
    BY <1>0
  <2> QED BY <1>0, <2>1, SubSeqProperties
<1>3. t = front \o rest
  BY DEF Over
<1> HIDE DEF kept, rest, e, t
<1>4. /\ front \in Seq(Nat) /\ Len(front) = e
      /\ \A i \in 1..e : front[i] = IF i <= w THEN kept[i] ELSE data[i - w]
  BY <1>1, <1>a, ConcatProperties
<1> HIDE DEF front
<1>5. /\ front \o rest \in Seq(Nat) /\ Len(front \o rest) = Len(front) + Len(rest)
      /\ \A i \in 1..(Len(front) + Len(rest)) :
            (front \o rest)[i] = IF i <= Len(front) THEN front[i] ELSE rest[i - Len(front)]
  <2>1. front \in Seq(Nat) /\ rest \in Seq(Nat)
    BY <1>2, <1>4
  <2> QED BY <2>1, ConcatProperties, Zenon
<1>6. e + (Len(s) - e) = Len(s)
  BY <1>0
<1>6a. t \in Seq(Nat) /\ Len(t) = Len(s)
  BY <1>2, <1>3, <1>4, <1>5, <1>6
<1>7. \A i \in 1..e : t[i] = front[i]
  <2> TAKE i \in 1..e
  <2>1. i \in 1..(Len(front) + Len(rest)) /\ i <= Len(front)
    BY <1>0, <1>2, <1>4, <1>6
  <2> QED BY <1>3, <1>5, <2>1
<1>8. \A i \in 1..w : i \in 1..e /\ i <= w
  BY <1>0, <1>a
<1>10. \A i \in 1..w : t[i] = s[i]
  BY <1>1, <1>4, <1>7, <1>8, Zenon
<1>11. ASSUME NEW i \in 1..Len(data) PROVE t[w + i] = data[i]
  <2> DEFINE j == w + i
  <2>1. j \in 1..e /\ ~ (j <= w) /\ j - w = i
    BY <1>0, <1>a
  <2> HIDE DEF j
  <2>2. t[j] = front[j]
    BY <1>7, <2>1, Zenon
  <2>3. front[j] = data[j - w]
    BY <1>4, <2>1
  <2>4. t[j] = data[i]
    BY <2>1, <2>2, <2>3
  <2> QED BY <2>4 DEF j
<1> QED BY <1>6a, <1>10, <1>11 DEF t

\* Writing appends to what was written.
LEMMA Writes ==
    ASSUME NEW b \in Buffers, b.wpos <= Len(b.buf), NEW data \in Seq(Nat),
           NEW c, c = Buffered!Write(b, data)
    PROVE  /\ c \in Buffers /\ c.rpos = b.rpos /\ c.wpos = b.wpos + Len(data)
           /\ c.wpos <= Len(c.buf) /\ Len(b.buf) <= Len(c.buf)
           /\ \A i \in 1..b.wpos : c.buf[i] = b.buf[i]
           /\ \A i \in 1..Len(data) : c.buf[b.wpos + i] = data[i]
<1> DEFINE n == Len(data)
           w == b.wpos
           room == IF Len(b.buf) < w + n THEN Buffered!Grow(b, n) ELSE b
           s == room.buf
           e == w + n
           t == Over(s, w, data)
<1>0. n \in Nat /\ Len(b.buf) \in Nat /\ w \in Nat /\ b.rpos \in Nat /\ w <= Len(b.buf)
  BY LenProperties DEF Buffers
<1>1. room \in Buffers /\ room.wpos = w /\ Len(b.buf) <= Len(s) /\ w + n <= Len(s)
      /\ \A i \in 1..w : s[i] = b.buf[i]
  <2>1. CASE Len(b.buf) < w + n
    <3>1. room = Buffered!Grow(b, n)
      BY <2>1
    <3> HIDE DEF room
    <3>2. /\ room \in Buffers /\ room.wpos = w /\ Len(s) = 2 * Len(b.buf) + n
          /\ \A i \in 1..w : s[i] = b.buf[i]
      BY <1>0, <3>1, Grows
    <3> HIDE DEF s, n, w
    <3>3. w + n <= 2 * Len(b.buf) + n /\ Len(b.buf) <= 2 * Len(b.buf) + n
      BY <1>0
    <3> QED BY <3>2, <3>3
  <2>2. CASE ~ (Len(b.buf) < w + n)
    <3>1. room = b
      BY <2>2
    <3> HIDE DEF room, n
    <3> QED BY <1>0, <2>2, <3>1
  <2> QED BY <2>1, <2>2
<1>2. c = [buf |-> t, rpos |-> b.rpos, wpos |-> w + n]
  BY <1>1 DEF Buffered!Write, Buffered!Bytes, Buffered!Cap, Over
<1>3. /\ s \in Seq(Nat) /\ Len(s) \in Nat /\ n = Len(data)
      /\ w \in Nat /\ e \in Nat /\ e = w + Len(data) /\ e <= Len(s)
  BY <1>0, <1>1, LenProperties DEF Buffers
<1> HIDE DEF room, s, w, n, e
<1>4. /\ t \in Seq(Nat) /\ Len(t) = Len(s)
      /\ \A i \in 1..w : t[i] = s[i]
      /\ \A i \in 1..Len(data) : t[w + i] = data[i]
  BY <1>3, Overwrites
<1> HIDE DEF t
<1>5. c \in Buffers /\ c.buf = t /\ c.rpos = b.rpos /\ c.wpos = w + Len(data)
  BY <1>0, <1>2, <1>3, <1>4 DEF Buffers, e
<1> QED BY <1>1, <1>3, <1>4, <1>5 DEF w

\* What follows the first r elements of a sequence, at most n of it.
Part(s, r, n) ==
    LET ahead == SubSeq(s, r + 1, Len(s))
    IN SubSeq(ahead, 1, IF n < Len(ahead) THEN n ELSE Len(ahead))

LEMMA Follows ==
    ASSUME NEW s \in Seq(Nat), NEW r \in Nat, r <= Len(s), NEW n \in Nat
    PROVE  /\ Part(s, r, n) \in Seq(Nat) /\ Len(Part(s, r, n)) <= n
           /\ r + Len(Part(s, r, n)) <= Len(s)
           /\ n <= Len(s) - r => Len(Part(s, r, n)) = n
           /\ \A i \in 1..Len(Part(s, r, n)) : Part(s, r, n)[i] = s[r + i]
<1> DEFINE t == Part(s, r, n)
           ahead == SubSeq(s, r + 1, Len(s))
           m == IF n < Len(ahead) THEN n ELSE Len(ahead)
<1>0. Len(s) \in Nat
  BY LenProperties
<1>1. ahead \in Seq(Nat) /\ Len(ahead) = Len(s) - r
  BY <1>0, SubSeqProperties
<1>1a. \A i \in 1..(Len(s) - r) : ahead[i] = s[r + i]
  BY <1>0, SubSeqProperties
<1>2. t = SubSeq(ahead, 1, m)
  BY DEF Part
<1> HIDE DEF ahead, t
<1>3. m \in Nat /\ m <= n /\ m <= Len(s) - r /\ (n <= Len(s) - r => m = n)
  <2> DEFINE l == Len(s) - r
  <2>1. l \in Nat /\ m = IF n < l THEN n ELSE l
    BY <1>0, <1>1
  <2> HIDE DEF l, m
  <2>2. m \in Nat /\ m <= n /\ m <= l /\ (n <= l => m = n)
    BY <2>1
  <2> QED BY <2>2 DEF l
<1> HIDE DEF m
<1>4. t \in Seq(Nat) /\ Len(t) = m /\ \A i \in 1..m : t[i] = ahead[i]
  <2>1. m <= Len(ahead) /\ Len(ahead) \in Nat
    BY <1>0, <1>1, <1>3
  <2>2. /\ SubSeq(ahead, 1, m) \in Seq(Nat) /\ Len(SubSeq(ahead, 1, m)) = m
        /\ \A i \in 1..m : SubSeq(ahead, 1, m)[i] = ahead[i]
    BY <1>1, <1>3, <2>1, SubSeqProperties
  <2> QED BY <1>2, <2>2, Zenon
<1>5. \A i \in 1..m : i \in 1..(Len(s) - r)
  BY <1>0, <1>3
<1>6. r + m <= Len(s)
  BY <1>0, <1>3
<1> QED BY <1>1a, <1>3, <1>4, <1>5, <1>6 DEF t

\* Reading hands out what follows the reading position, to the end of the slice.
LEMMA Reads ==
    ASSUME NEW b \in Buffers, b.rpos <= Len(b.buf), NEW n \in Nat,
           NEW data, data = Buffered!ReadBytes(b, n)
    PROVE  /\ data \in Seq(Nat) /\ Len(data) <= n /\ b.rpos + Len(data) <= Len(b.buf)
           /\ n <= Len(b.buf) - b.rpos => Len(data) = n
           /\ \A i \in 1..Len(data) : data[i] = b.buf[b.rpos + i]
<1>0. b.wpos \in Nat /\ b.rpos \in Nat /\ b.buf \in Seq(Nat)
  BY DEF Buffers
<1>1. data = Part(b.buf, b.rpos, n)
  BY DEF Buffered!ReadBytes, Buffered!Ahead, Buffered!Smaller, Buffered!Cap, Part
<1>2. /\ data \in Seq(Nat) /\ Len(data) <= n /\ b.rpos + Len(data) <= Len(b.buf)
      /\ n <= Len(b.buf) - b.rpos => Len(data) = n
      /\ \A i \in 1..Len(data) : data[i] = b.buf[b.rpos + i]
  <2> DEFINE s == b.buf
             r == b.rpos
  <2>1. s \in Seq(Nat) /\ r \in Nat /\ r <= Len(s) /\ data = Part(s, r, n)
    BY <1>0, <1>1
  <2> HIDE DEF s, r
  <2>2. /\ data \in Seq(Nat) /\ Len(data) <= n /\ r + Len(data) <= Len(s)
        /\ n <= Len(s) - r => Len(data) = n
        /\ \A i \in 1..Len(data) : data[i] = s[r + i]
    <3> DEFINE p == Part(s, r, n)
    <3>1. p \in Seq(Nat) /\ Len(p) <= n
      BY <2>1, Follows
    <3>2. r + Len(p) <= Len(s)
      BY <2>1, Follows
    <3>3. n <= Len(s) - r => Len(p) = n
      BY <2>1, Follows
    <3>4. \A i \in 1..Len(p) : p[i] = s[r + i]
      BY <2>1, Follows
    <3> HIDE DEF p
    <3>5. data = p
      BY <2>1 DEF p
    <3> QED BY <3>1, <3>2, <3>3, <3>4, <3>5
  <2> QED BY <2>2 DEF s, r
<1> QED BY <1>2

\* The bytes it hands out are those.
LEMMA ReadsBytes ==
    ASSUME NEW b \in Buffers, b.rpos <= Len(b.buf), NEW n \in Nat,
           NEW i \in 1..Len(Buffered!ReadBytes(b, n))
    PROVE  Buffered!ReadBytes(b, n)[i] = b.buf[b.rpos + i]
BY Reads

\* And moves the reading position behind it.
LEMMA ReadsOn ==
    ASSUME NEW b \in Buffers, b.rpos <= Len(b.buf), NEW n \in Nat,
           NEW data, data = Buffered!ReadBytes(b, n)
    PROVE  Buffered!AfterRead(b, n) = [buf |-> b.buf, rpos |-> b.rpos + Len(data), wpos |-> b.wpos]
<1>1. Buffered!AfterRead(b, n) = [b EXCEPT !.rpos = b.rpos + Len(data)]
  BY DEF Buffered!AfterRead
<1>2. b = [buf |-> b.buf, rpos |-> b.rpos, wpos |-> b.wpos]
  BY DEF Buffers
<1> QED BY <1>1, <1>2

\* A Read of the next bytes of the stream is what it should be.
LEMMA HandsOut ==
    ASSUME Buffered!TypeOK, right, NEW data \in Seq(Nat),
           got + Len(data) <= bufferedSent, \A i \in 1..Len(data) : data[i] = got + i,
           Buffered!HandOut(data)
    PROVE  right' /\ got' = got + Len(data)
<1>1. got \in Nat /\ Len(data) \in Nat /\ got + Len(data) \in Nat /\ got + Len(data) - got = Len(data)
  BY LenProperties DEF Buffered!TypeOK
<1>2. data = Buffered!Stream(got, got + Len(data))
  BY <1>1, StreamOnly
<1> QED BY <1>2 DEF Buffered!HandOut

\* And otherwise the history keeps its types.
LEMMA HandsOutTypes ==
    ASSUME Buffered!TypeOK, NEW data \in Seq(Nat), Buffered!HandOut(data)
    PROVE  right' \in BOOLEAN /\ got' \in 0..bufferedSent
<1>1. got \in 0..bufferedSent /\ bufferedSent \in Nat /\ Len(data) \in Nat
  BY RoutingAssumption, LenProperties DEF Buffered!TypeOK
<1>2. (right /\ got + Len(data) <= bufferedSent) => got + Len(data) \in 0..bufferedSent
  BY <1>1
<1> QED BY <1>1, <1>2 DEF Buffered!HandOut

\* What the invariant says of the buffer's cursors and the history's numbers.
LEMMA BufferBounds ==
    ASSUME Buffered!TypeOK, buffer \in Buffers
    PROVE  /\ Len(buffer.buf) \in Nat /\ buffer.rpos \in Nat /\ buffer.wpos \in Nat
           /\ buffer.rpos <= Len(buffer.buf) /\ buffer.wpos <= Len(buffer.buf)
           /\ bufferedSent \in Nat /\ taken \in Nat /\ got \in Nat
           /\ taken <= bufferedSent /\ got <= bufferedSent
BY RoutingAssumption DEF Buffered!TypeOK, Buffered!Cap, Buffers

\* The part of the types that a step on the buffer and the stream may change.
StreamTypes ==
    /\ buffer \in Buffers /\ buffer.rpos <= Len(buffer.buf) /\ buffer.wpos <= Len(buffer.buf)
    /\ bufferedSent \in 0..MaxSent /\ taken \in 0..bufferedSent /\ got \in 0..bufferedSent
    /\ right \in BOOLEAN /\ careless \in BOOLEAN

ConnTypes ==
    /\ bufferedClosed \in BOOLEAN /\ call \in Buffered!Calls
    /\ timed \in BOOLEAN /\ deadline \in {"none", "armed", "passed"} /\ fin \in BOOLEAN

\* The types of the buffered connection, in two parts.
LEMMA TypesAre == Buffered!TypeOK /\ buffer \in Buffers <=> StreamTypes /\ ConnTypes
<1>1. buffer \in Buffers => Len(buffer.buf) \in Nat /\ buffer.rpos \in Nat /\ buffer.wpos \in Nat
  BY LenProperties DEF Buffers
<1> QED BY <1>1 DEF StreamTypes, ConnTypes, Buffered!TypeOK, Buffered!Cap

LEMMA TypesAreNext == (Buffered!TypeOK /\ buffer \in Buffers <=> StreamTypes /\ ConnTypes)'
BY TypesAre, PTL

\* Initially nothing was sent, and the buffer is empty.
LEMMA StreamInitInv == Buffered!Init => StreamInv
<1> SUFFICES ASSUME Buffered!Init PROVE StreamInv
  OBVIOUS
<1> DEFINE zeros == [i \in 1..BufferSize |-> 0]
<1>1. BufferSize \in Nat /\ MaxSent \in Nat /\ zeros \in Seq(Nat) /\ Len(zeros) = BufferSize
  BY RoutingAssumption
<1>2. buffer = [buf |-> zeros, rpos |-> 0, wpos |-> 0]
  BY DEF Buffered!Init, Buffered!NewBytesBuffer
<1> HIDE DEF zeros
<1>3. buffer \in Buffers /\ Len(buffer.buf) \in Nat /\ buffer.rpos = 0 /\ buffer.wpos = 0
  BY <1>1, <1>2 DEF Buffers
<1>3a. 0 \in 0..Len(buffer.buf) /\ 0 \in 0..MaxSent
  BY <1>1, <1>3
<1>4. Buffered!TypeOK
  <2>1. StreamTypes
    <3>1. /\ bufferedSent = 0 /\ taken = 0 /\ got = 0 /\ right = TRUE /\ careless = FALSE
      BY DEF Buffered!Init
    <3>2. /\ buffer.rpos <= Len(buffer.buf) /\ buffer.wpos <= Len(buffer.buf)
          /\ 0 \in 0..0
      BY <1>3
    <3> QED BY <1>3, <1>3a, <3>1, <3>2 DEF StreamTypes
  <2>2. ConnTypes
    BY DEF Buffered!Init, ConnTypes, Buffered!Calls
  <2> QED BY <2>1, <2>2, TypesAre
<1> QED BY <1>3, <1>4 DEF Buffered!Init, StreamInv, StreamHeld, Buffered!NoCall

\* Read hands out what the buffer has.
LEMMA ReadsBuffered ==
    ASSUME StreamInv, NEW n \in SliceLengths, Buffered!ReadBuffered(n)
    PROVE  StreamInv'
<1> DEFINE data == Buffered!ReadBytes(buffer, n)
<1>0. n \in Nat /\ StreamTypes /\ ConnTypes /\ Buffered!TypeOK /\ buffer \in Buffers
  BY RoutingAssumption, TypesAre DEF StreamInv
<1>1. /\ ~bufferedClosed /\ call.op = "none" /\ buffer.wpos - buffer.rpos > 0
      /\ Buffered!HandOut(data) /\ buffer' = Buffered!AfterRead(buffer, n)
      /\ careless' = (careless \/ Len(data) > buffer.wpos - buffer.rpos)
      /\ UNCHANGED <<bufferedClosed, timed, call, deadline, bufferedSent, fin, taken>>
  BY DEF Buffered!ReadBuffered, Buffered!Unlocked, Buffered!Remain, Buffered!connVars,
         Buffered!peerVars, Buffered!NoCall
<1> HIDE DEF data
<1>2. /\ data \in Seq(Nat) /\ buffer.rpos + Len(data) <= Len(buffer.buf)
      /\ \A i \in 1..Len(data) : data[i] = buffer.buf[buffer.rpos + i]
      /\ buffer' \in Buffers /\ buffer'.buf = buffer.buf /\ buffer'.wpos = buffer.wpos
      /\ buffer'.rpos = buffer.rpos + Len(data)
  <2>1. buffer.rpos <= Len(buffer.buf)
    BY <1>0 DEF StreamTypes
  <2> DEFINE f == buffer
  <2>2. f \in Buffers /\ f.rpos <= Len(f.buf) /\ n \in Nat /\ data = Buffered!ReadBytes(f, n)
    BY <1>0, <2>1 DEF data
  <2> HIDE DEF f
  <2>3. data \in Seq(Nat) /\ f.rpos + Len(data) <= Len(f.buf)
    BY <2>2, Reads
  <2>4. \A i \in 1..Len(data) : data[i] = f.buf[f.rpos + i]
    BY <2>2, ReadsBytes
  <2>5. Buffered!AfterRead(f, n) = [buf |-> f.buf, rpos |-> f.rpos + Len(data), wpos |-> f.wpos]
    BY <2>2, ReadsOn
  <2>6. Buffered!AfterRead(f, n) \in Buffers
    BY <2>2, <2>3, <2>5, LenProperties DEF Buffers
  <2> QED BY <1>1, <2>3, <2>4, <2>5, <2>6 DEF f
<1>3. Len(data) \in Nat
  BY <1>2, LenProperties
<1>4. StreamTypes'
  BY <1>0, <1>1, <1>2, HandsOutTypes DEF StreamTypes
<1>5. ASSUME ~careless'
      PROVE  ~careless /\ right' /\ got' = got + Len(data) /\ StreamHeld'
  <2>1. ~careless /\ ~ (Len(data) > buffer.wpos - buffer.rpos)
    BY <1>0, <1>1, <1>5 DEF StreamTypes
  <2>2. /\ right /\ got <= taken /\ buffer.rpos <= buffer.wpos
        /\ buffer.wpos - buffer.rpos = taken - got
        /\ \A i \in 1..(taken - got) : buffer.buf[buffer.rpos + i] = got + i
    BY <1>1, <2>1 DEF StreamInv, StreamHeld
  <2>3. /\ Len(buffer.buf) \in Nat /\ buffer.rpos \in Nat /\ buffer.wpos \in Nat
        /\ bufferedSent \in Nat /\ taken \in Nat /\ got \in Nat /\ taken <= bufferedSent
    BY <1>0, BufferBounds
  <2>4. Len(data) <= taken - got /\ got + Len(data) <= taken /\ got + Len(data) <= bufferedSent
    BY <1>3, <2>1, <2>2, <2>3
  <2>5. \A i \in 1..Len(data) : data[i] = got + i
    <3> TAKE i \in 1..Len(data)
    <3>1. i \in 1..(taken - got)
      BY <1>3, <2>3, <2>4
    <3> QED BY <1>2, <2>2, <3>1
  <2>6. right' /\ got' = got + Len(data)
    BY <1>0, <1>1, <1>2, <2>2, <2>4, <2>5, HandsOut
  <2>7. ASSUME NEW i \in 1..(taken - (got + Len(data)))
        PROVE  buffer.buf[buffer.rpos + Len(data) + i] = got + Len(data) + i
    <3> DEFINE j == Len(data) + i
    <3>1. /\ j \in 1..(taken - got) /\ buffer.rpos + j = buffer.rpos + Len(data) + i
          /\ got + j = got + Len(data) + i
      BY <1>3, <2>3, <2>4
    <3> HIDE DEF j
    <3>2. buffer.buf[buffer.rpos + j] = got + j
      BY <2>2, <3>1
    <3> QED BY <3>1, <3>2
  <2>8. /\ buffer.rpos + Len(data) <= buffer.wpos
        /\ buffer.wpos - (buffer.rpos + Len(data)) = taken - (got + Len(data))
    BY <1>3, <2>2, <2>3, <2>4
  <2> QED BY <1>1, <1>2, <2>1, <2>4, <2>6, <2>7, <2>8 DEF StreamHeld
<1>6. ConnTypes'
  BY <1>0, <1>1 DEF ConnTypes, Buffered!Calls, Buffered!NoCall
<1>7. (Buffered!TypeOK /\ buffer \in Buffers)'
  BY <1>4, <1>6, TypesAreNext
<1> QED BY <1>1, <1>5, <1>7 DEF StreamInv

\* Every step that gives these gives the invariant.
LEMMA StreamNext ==
    ASSUME StreamTypes', ConnTypes',
           (bufferedClosed => call.op = "none")',
           (call.op = "fill" => buffer.rpos = 0 /\ buffer.wpos = 0)',
           ~careless' => right' /\ (~bufferedClosed' => StreamHeld')
                         /\ (call'.op \in {"direct", "fill"} => got' = taken')
    PROVE  StreamInv'
BY TypesAreNext DEF StreamInv

\* What the invariant says, unfolded.
LEMMA StreamFacts ==
    ASSUME StreamInv
    PROVE  /\ StreamTypes /\ ConnTypes /\ Buffered!TypeOK /\ buffer \in Buffers
           /\ bufferedClosed => call.op = "none"
           /\ call.op = "fill" => buffer.rpos = 0 /\ buffer.wpos = 0
           /\ ~careless => right
           /\ ~careless /\ ~bufferedClosed => StreamHeld
           /\ ~careless /\ call.op \in {"direct", "fill"} => got = taken
BY TypesAre DEF StreamInv

\* Steps that leave the stream alone, but for what the peer sends.
LEMMA StreamStays ==
    ASSUME StreamInv, ConnTypes', UNCHANGED <<buffer, taken, got, right, careless>>,
           bufferedClosed' = bufferedClosed,
           bufferedSent' \in bufferedSent..MaxSent,
           call' = call \/ call'.op \in {"none", "peek"},
           bufferedClosed => call' = call
    PROVE  StreamInv'
<1>1. StreamTypes'
  BY StreamFacts, RoutingAssumption DEF StreamTypes
<1>2. StreamHeld => StreamHeld'
  BY DEF StreamHeld
<1> QED BY <1>1, <1>2, StreamFacts, StreamNext

\* Read finds the buffer empty, and waits for the connection.
LEMMA WaitsForRead ==
    ASSUME StreamInv, NEW n \in SliceLengths, Buffered!ReadWaits(n)
    PROVE  StreamInv'
<1> DEFINE op == IF n >= Len(buffer.buf) THEN "direct" ELSE "fill"
<1>0. n \in Nat /\ StreamTypes /\ ConnTypes
  BY RoutingAssumption, StreamFacts
<1>1. /\ ~bufferedClosed /\ (buffer.wpos - buffer.rpos <= 0 \/ n = 0)
      /\ call' = [op |-> op, n |-> n]
      /\ buffer' = IF n >= Len(buffer.buf) THEN buffer ELSE Buffered!Reset(buffer)
      /\ careless' = (careless \/ buffer.wpos - buffer.rpos > 0)
      /\ UNCHANGED <<bufferedClosed, timed, deadline, bufferedSent, fin, taken, got, right>>
  BY DEF Buffered!ReadWaits, Buffered!Unlocked, Buffered!Remain, Buffered!connVars,
         Buffered!peerVars, Buffered!Cap
<1>2. Buffered!Reset(buffer) = [buf |-> buffer.buf, rpos |-> 0, wpos |-> 0]
  BY DEF Buffered!Reset
<1>3. /\ Len(buffer.buf) \in Nat /\ buffer.rpos \in Nat /\ buffer.wpos \in Nat
      /\ taken \in Nat /\ got \in Nat
  BY BufferBounds DEF StreamInv
<1>4. /\ buffer' \in Buffers /\ buffer'.buf = buffer.buf
      /\ \/ buffer' = buffer /\ op = "direct"
         \/ buffer'.rpos = 0 /\ buffer'.wpos = 0 /\ op = "fill"
  BY <1>0, <1>1, <1>2 DEF Buffers, StreamTypes
<1>5. op \in {"direct", "fill"}
  OBVIOUS
<1> HIDE DEF op
<1>6. call'.op = op /\ call' \in Buffered!Calls
  BY <1>1, <1>5 DEF Buffered!Calls
<1>7. StreamTypes'
  BY <1>0, <1>1, <1>3, <1>4 DEF StreamTypes
<1>8. ConnTypes'
  BY <1>0, <1>1, <1>6 DEF ConnTypes
<1>9. ASSUME ~careless'
      PROVE  right' /\ StreamHeld' /\ got' = taken'
  <2>1. ~careless /\ ~ (buffer.wpos - buffer.rpos > 0)
    BY <1>0, <1>1, <1>9 DEF StreamTypes
  <2>2. /\ right /\ got <= taken /\ buffer.rpos <= buffer.wpos
        /\ buffer.wpos - buffer.rpos = taken - got
    BY <1>1, <2>1 DEF StreamInv, StreamHeld
  <2>3. got = taken /\ buffer.wpos = buffer.rpos
    BY <1>3, <2>1, <2>2
  <2>4. buffer'.rpos = buffer'.wpos /\ buffer'.rpos \in Nat
    BY <1>3, <1>4, <2>3
  <2>5. taken - got = 0 /\ buffer'.wpos - buffer'.rpos = 0 /\ 1..0 = {}
    BY <1>3, <2>3, <2>4
  <2> QED BY <1>1, <2>2, <2>3, <2>4, <2>5 DEF StreamHeld
<1> QED BY <1>1, <1>4, <1>6, <1>7, <1>8, <1>9, StreamNext

\* Conn.Read returns the next k bytes of the stream.
LEMMA ArrivesNext ==
    ASSUME StreamInv, NEW k \in 1..MaxSent, NEW op \in {"direct", "fill", "peek"},
           Buffered!Arrives(op, k)
    PROVE  /\ call.op = op /\ ~bufferedClosed /\ k \in Nat
           /\ taken' = taken + k /\ taken + k <= bufferedSent /\ taken + k \in Nat
           /\ UNCHANGED <<bufferedClosed, timed, bufferedSent, fin>>
           /\ Buffered!Arrived(k) \in Seq(Nat) /\ Len(Buffered!Arrived(k)) = k
           /\ \A i \in 1..k : Buffered!Arrived(k)[i] = taken + i
<1>1. bufferedSent \in Nat /\ taken \in Nat /\ k \in Nat
  BY RoutingAssumption, BufferBounds DEF StreamInv
<1>2. /\ call.op = op /\ k <= bufferedSent - taken /\ taken' = taken + k
      /\ UNCHANGED <<bufferedClosed, timed, bufferedSent, fin>>
  BY DEF Buffered!Arrives, Buffered!connVars, Buffered!peerVars
<1>3. taken + k \in Nat /\ taken <= taken + k /\ taken + k - taken = k /\ taken + k <= bufferedSent
  BY <1>1, <1>2
<1>4. /\ Buffered!Arrived(k) \in Seq(Nat) /\ Len(Buffered!Arrived(k)) = k
      /\ \A i \in 1..k : Buffered!Arrived(k)[i] = taken + i
  <2> DEFINE n == taken + k
  <2>1. Buffered!Arrived(k) = Buffered!Stream(taken, n)
    BY DEF Buffered!Arrived
  <2>2. n \in Nat /\ taken <= n /\ n - taken = k
    BY <1>1, <1>3
  <2> HIDE DEF n
  <2>3. Buffered!Stream(taken, n) \in Seq(Nat) /\ Len(Buffered!Stream(taken, n)) = k
    BY <1>1, <2>2, StreamIs
  <2>4. \A i \in 1..k : Buffered!Stream(taken, n)[i] = taken + i
    BY <1>1, <2>2, StreamIs
  <2> QED BY <2>1, <2>3, <2>4
<1>5. ~bufferedClosed
  BY <1>2, StreamFacts
<1> QED BY <1>2, <1>1, <1>3, <1>4, <1>5

\* Read passes on what arrives.
LEMMA ReadsDirect ==
    ASSUME StreamInv, NEW k \in 1..MaxSent, Buffered!ReadDirect(k)
    PROVE  StreamInv'
<1> DEFINE data == Buffered!Arrived(k)
<1>0. StreamTypes /\ ConnTypes /\ Buffered!TypeOK /\ right \in BOOLEAN
  BY StreamFacts DEF StreamTypes
<1>1. /\ Buffered!Arrives("direct", k) /\ Buffered!HandOut(data) /\ call' = [op |-> "none"]
      /\ UNCHANGED <<buffer, deadline, careless>>
  BY DEF Buffered!ReadDirect, Buffered!NoCall
<1>2. /\ call.op = "direct" /\ ~bufferedClosed /\ k \in Nat
      /\ taken' = taken + k /\ taken + k <= bufferedSent /\ taken + k \in Nat
      /\ UNCHANGED <<bufferedClosed, timed, bufferedSent, fin>>
      /\ data \in Seq(Nat) /\ Len(data) = k /\ \A i \in 1..k : data[i] = taken + i
  BY <1>1, ArrivesNext
<1> HIDE DEF data
<1>3. /\ buffer.rpos \in Nat /\ buffer.wpos \in Nat
      /\ bufferedSent \in Nat /\ taken \in Nat /\ got \in Nat
  BY BufferBounds DEF StreamInv
<1>4. right' \in BOOLEAN /\ got' \in 0..bufferedSent
  BY <1>0, <1>1, <1>2, HandsOutTypes
<1>5. StreamTypes' /\ ConnTypes'
  BY <1>0, <1>1, <1>2, <1>3, <1>4 DEF StreamTypes, ConnTypes, Buffered!Calls, Buffered!NoCall
<1>6. ASSUME ~careless PROVE right' /\ StreamHeld'
  <2>1. got = taken /\ right /\ StreamHeld
    BY <1>2, <1>6, StreamFacts
  <2>2. got + Len(data) <= bufferedSent /\ \A i \in 1..Len(data) : data[i] = got + i
    BY <1>2, <2>1
  <2>3. right' /\ got' = got + Len(data)
    BY <1>0, <1>1, <1>2, <2>1, <2>2, HandsOut
  <2>4. got' = taken' /\ taken' - got' = 0 /\ taken - got = 0 /\ got' <= taken' /\ 1..0 = {}
    BY <1>2, <1>3, <2>1, <2>3
  <2> QED BY <1>1, <2>1, <2>3, <2>4 DEF StreamHeld
<1> QED BY <1>1, <1>2, <1>5, <1>6, StreamNext

\* What arrives is written behind what the buffer has.
LEMMA Fills ==
    ASSUME StreamInv, NEW k \in 1..MaxSent, NEW op \in {"fill", "peek"},
           Buffered!Arrives(op, k),
           NEW filled, filled = Buffered!Write(buffer, Buffered!Arrived(k))
    PROVE  /\ filled \in Buffers /\ filled.rpos = buffer.rpos /\ filled.wpos = buffer.wpos + k
           /\ filled.wpos <= Len(filled.buf) /\ Len(buffer.buf) <= Len(filled.buf)
           /\ \A i \in 1..buffer.wpos : filled.buf[i] = buffer.buf[i]
           /\ \A i \in 1..k : filled.buf[buffer.wpos + i] = taken + i
<1> DEFINE b == buffer
           data == Buffered!Arrived(k)
<1>1. data \in Seq(Nat) /\ Len(data) = k /\ \A i \in 1..k : data[i] = taken + i
  BY ArrivesNext
<1>2. b \in Buffers /\ b.wpos <= Len(b.buf) /\ filled = Buffered!Write(b, data)
  BY StreamFacts DEF StreamTypes
<1> HIDE DEF b, data
<1>3. /\ filled \in Buffers /\ filled.rpos = b.rpos /\ filled.wpos = b.wpos + Len(data)
      /\ filled.wpos <= Len(filled.buf) /\ Len(b.buf) <= Len(filled.buf)
  BY <1>1, <1>2, Writes
<1>4. \A i \in 1..b.wpos : filled.buf[i] = b.buf[i]
  BY <1>1, <1>2, Writes
<1>5. \A i \in 1..Len(data) : filled.buf[b.wpos + i] = data[i]
  BY <1>1, <1>2, Writes
<1>6. \A i \in 1..k : filled.buf[b.wpos + i] = taken + i
  BY <1>1, <1>5
<1> QED BY <1>1, <1>3, <1>4, <1>6 DEF b

\* Read fills the buffer, and hands out its start.
LEMMA ReadsFilled ==
    ASSUME StreamInv, NEW k \in 1..MaxSent, Buffered!ReadFilled(k)
    PROVE  StreamInv'
<1> DEFINE filled == Buffered!Write(buffer, Buffered!Arrived(k))
           n == call.n
           data == Buffered!ReadBytes(filled, n)
<1>0. StreamTypes /\ ConnTypes /\ Buffered!TypeOK
  BY StreamFacts
<1>1. /\ Buffered!Arrives("fill", k) /\ Buffered!HandOut(data) /\ call' = [op |-> "none"]
      /\ k <= Len(buffer.buf) /\ buffer' = Buffered!AfterRead(filled, n)
      /\ careless' = (careless \/ n > k) /\ UNCHANGED deadline
  BY DEF Buffered!ReadFilled, Buffered!NoCall, Buffered!Cap
<1>2. /\ call.op = "fill" /\ ~bufferedClosed /\ k \in Nat
      /\ taken' = taken + k /\ taken + k <= bufferedSent /\ taken + k \in Nat
      /\ UNCHANGED <<bufferedClosed, timed, bufferedSent, fin>>
  BY <1>1, ArrivesNext
<1>3. buffer.rpos = 0 /\ buffer.wpos = 0
  BY <1>2, StreamFacts
<1>4. /\ filled \in Buffers /\ filled.rpos = 0 /\ filled.wpos = k
      /\ k <= Len(filled.buf)
  <2>1. /\ filled \in Buffers /\ filled.rpos = buffer.rpos /\ filled.wpos = buffer.wpos + k
        /\ filled.wpos <= Len(filled.buf)
    BY <1>1, Fills
  <2> QED BY <1>2, <1>3, <2>1
<1>5. \A i \in 1..k : filled.buf[i] = taken + i
  <2>1. \A i \in 1..k : filled.buf[buffer.wpos + i] = taken + i
    BY <1>1, Fills
  <2> QED BY <1>2, <1>3, <2>1
<1>6. n \in Nat
  <2>1. call \in Buffered!Calls /\ call # Buffered!NoCall
    BY <1>0, <1>2 DEF ConnTypes, Buffered!NoCall
  <2>2. call.n \in SliceLengths
    BY <2>1 DEF Buffered!Calls
  <2> QED BY <2>2, RoutingAssumption
<1>6a. data = Buffered!ReadBytes(filled, n)
  OBVIOUS
<1> HIDE DEF filled, n, data
<1>6b. filled.rpos <= Len(filled.buf)
  BY <1>2, <1>4
<1>7. data \in Seq(Nat) /\ filled.rpos + Len(data) <= Len(filled.buf)
  BY <1>4, <1>6, <1>6a, <1>6b, Reads
<1>8. n <= Len(filled.buf) - filled.rpos => Len(data) = n
  BY <1>4, <1>6, <1>6a, <1>6b, Reads
<1>9. \A i \in 1..Len(data) : data[i] = filled.buf[filled.rpos + i]
  BY <1>4, <1>6, <1>6a, <1>6b, ReadsBytes
<1>10. buffer' = [buf |-> filled.buf, rpos |-> filled.rpos + Len(data), wpos |-> filled.wpos]
  BY <1>1, <1>4, <1>6, <1>6a, ReadsOn
<1>11. /\ Len(data) \in Nat /\ Len(filled.buf) \in Nat /\ filled.buf \in Seq(Nat)
       /\ Len(data) <= Len(filled.buf)
  BY <1>4, <1>7, LenProperties DEF Buffers
<1>12. /\ buffer' \in Buffers /\ buffer'.buf = filled.buf /\ buffer'.rpos = Len(data)
       /\ buffer'.wpos = k
  BY <1>2, <1>4, <1>10, <1>11 DEF Buffers
<1>13. right' \in BOOLEAN /\ got' \in 0..bufferedSent
  BY <1>0, <1>1, <1>7, HandsOutTypes
<1>14. bufferedSent \in Nat /\ taken \in Nat /\ got \in Nat
  BY BufferBounds DEF StreamInv
<1>15. StreamTypes'
  BY <1>0, <1>1, <1>2, <1>4, <1>11, <1>12, <1>13, <1>14 DEF StreamTypes
<1>16. ConnTypes'
  BY <1>0, <1>1, <1>2 DEF ConnTypes, Buffered!Calls, Buffered!NoCall
<1>17. ASSUME ~careless' PROVE right' /\ StreamHeld'
  <2>1. ~careless /\ n <= k
    <3>1. ~ (careless \/ n > k)
      BY <1>1, <1>17, Zenon
    <3> QED BY <1>2, <1>6, <3>1
  <2>2. got = taken /\ right
    BY <1>2, <2>1, StreamFacts
  <2>3. Len(data) = n /\ n <= Len(filled.buf)
    BY <1>2, <1>4, <1>6, <1>8, <1>11, <2>1
  <2>4. \A i \in 1..Len(data) : data[i] = got + i
    <3> TAKE i \in 1..Len(data)
    <3>1. i \in 1..k /\ filled.rpos + i = i
      BY <1>2, <1>4, <1>6, <2>1, <2>3
    <3> QED BY <1>5, <1>9, <2>2, <3>1
  <2>5. got + Len(data) <= bufferedSent
    BY <1>2, <1>6, <1>14, <2>1, <2>2, <2>3
  <2>6. right' /\ got' = got + Len(data)
    BY <1>0, <1>1, <1>7, <2>2, <2>4, <2>5, HandsOut
  <2>7. got' <= taken' /\ taken' - got' = k - n /\ buffer'.rpos <= buffer'.wpos
        /\ buffer'.wpos - buffer'.rpos = k - n /\ buffer'.rpos = n /\ got' = taken + n
    BY <1>2, <1>6, <1>12, <1>14, <2>1, <2>2, <2>3, <2>6
  <2>8. ASSUME NEW i \in 1..(k - n) PROVE buffer'.buf[n + i] = taken + n + i
    <3> DEFINE j == n + i
    <3>1. j \in 1..k /\ taken + j = taken + n + i
      BY <1>2, <1>6, <1>14, <2>1
    <3> HIDE DEF j
    <3>2. filled.buf[j] = taken + j
      BY <1>5, <3>1
    <3> QED BY <1>12, <3>1, <3>2 DEF j
  <2> QED BY <2>6, <2>7, <2>8 DEF StreamHeld
<1> QED BY <1>1, <1>2, <1>15, <1>16, <1>17, StreamNext

\* Counting what is buffered when k bytes arrive.
LEMMA Shifts ==
    ASSUME NEW r \in Nat, NEW w \in Nat, NEW g \in Nat, NEW t \in Nat, NEW k \in Nat,
           r <= w, g <= t, w - r = t - g
    PROVE  /\ g <= t + k /\ r <= w + k /\ w + k - r = t + k - g
           /\ \A i \in 1..(t + k - g) :
                \/ i \in 1..(t - g) /\ r + i \in 1..w
                \/ \E j \in 1..k : w + j = r + i /\ t + j = g + i
<1>1. ASSUME NEW i \in 1..(t + k - g), ~ (i <= t - g)
      PROVE  \E j \in 1..k : w + j = r + i /\ t + j = g + i
  <2>1. /\ i - (t - g) \in 1..k /\ w + (i - (t - g)) = r + i
        /\ t + (i - (t - g)) = g + i
    BY <1>1
  <2> QED BY <2>1
<1>2. ASSUME NEW i \in 1..(t + k - g), i <= t - g
      PROVE  i \in 1..(t - g) /\ r + i \in 1..w
  BY <1>2
<1> QED BY <1>1, <1>2

\* Peek appends what arrives.
LEMMA PeeksMore ==
    ASSUME StreamInv, NEW k \in 1..MaxSent, Buffered!PeekMore(k)
    PROVE  StreamInv'
<1>0. StreamTypes /\ ConnTypes
  BY StreamFacts
<1>1. /\ Buffered!Arrives("peek", k) /\ buffer' = Buffered!Write(buffer, Buffered!Arrived(k))
      /\ call' = [op |-> "none"] \/ call' = call
      /\ deadline' \in {deadline, "armed"} /\ UNCHANGED <<got, right, careless>>
  BY DEF Buffered!PeekMore, Buffered!NoCall
<1>2. /\ call.op = "peek" /\ ~bufferedClosed /\ k \in Nat
      /\ taken' = taken + k /\ taken + k <= bufferedSent /\ taken + k \in Nat
      /\ UNCHANGED <<bufferedClosed, timed, bufferedSent, fin>>
  BY <1>1, ArrivesNext
<1>3. /\ buffer' \in Buffers /\ buffer'.rpos = buffer.rpos /\ buffer'.wpos = buffer.wpos + k
      /\ buffer'.wpos <= Len(buffer'.buf) /\ Len(buffer.buf) <= Len(buffer'.buf)
  BY <1>1, Fills
<1>4. /\ \A i \in 1..buffer.wpos : buffer'.buf[i] = buffer.buf[i]
      /\ \A i \in 1..k : buffer'.buf[buffer.wpos + i] = taken + i
  BY <1>1, Fills
<1>5. /\ buffer.rpos \in Nat /\ buffer.wpos \in Nat /\ bufferedSent \in Nat /\ taken \in Nat
      /\ got \in Nat /\ Len(buffer.buf) \in Nat /\ Len(buffer'.buf) \in Nat
      /\ buffer.rpos <= Len(buffer.buf)
  BY <1>3, BufferBounds, LenProperties DEF StreamInv, Buffers
<1>6. StreamTypes'
  BY <1>0, <1>1, <1>2, <1>3, <1>5 DEF StreamTypes
<1>7. ConnTypes'
  BY <1>0, <1>1, <1>2 DEF ConnTypes, Buffered!Calls, Buffered!NoCall
<1>8. ASSUME ~careless PROVE right' /\ StreamHeld'
  <2>1. /\ right /\ got <= taken /\ buffer.rpos <= buffer.wpos
        /\ buffer.wpos - buffer.rpos = taken - got
        /\ \A i \in 1..(taken - got) : buffer.buf[buffer.rpos + i] = got + i
    BY <1>2, <1>8, StreamFacts DEF StreamHeld
  <2> DEFINE r == buffer.rpos
             w == buffer.wpos
  <2>a. r \in Nat /\ w \in Nat /\ r <= w /\ w - r = taken - got
    BY <1>5, <2>1
  <2>b. \A i \in 1..(taken - got) : buffer.buf[r + i] = got + i
    BY <2>1
  <2>c. /\ \A i \in 1..w : buffer'.buf[i] = buffer.buf[i]
        /\ \A i \in 1..k : buffer'.buf[w + i] = taken + i
    BY <1>4
  <2> HIDE DEF r, w
  <2>2. got <= taken + k /\ r <= w + k /\ w + k - r = taken + k - got
    BY <1>2, <1>5, <2>1, <2>a, Shifts
  <2>3. ASSUME NEW i \in 1..(taken + k - got) PROVE buffer'.buf[r + i] = got + i
    <3>1. \/ i \in 1..(taken - got) /\ r + i \in 1..w
          \/ \E j \in 1..k : w + j = r + i /\ taken + j = got + i
      BY <1>2, <1>5, <2>1, <2>a, Shifts
    <3>2. CASE i \in 1..(taken - got) /\ r + i \in 1..w
      BY <2>b, <2>c, <3>2
    <3>3. ASSUME NEW j \in 1..k, w + j = r + i, taken + j = got + i
          PROVE  buffer'.buf[r + i] = got + i
      <4>1. buffer'.buf[w + j] = taken + j
        BY <2>c
      <4> QED BY <3>3, <4>1
    <3> QED BY <3>1, <3>2, <3>3
  <2>4. buffer'.rpos = r /\ buffer'.wpos = w + k /\ taken' = taken + k /\ got' = got
    BY <1>1, <1>2, <1>3 DEF r, w
  <2>5. StreamHeld'
    <3>1. \A i \in 1..(taken' - got') : buffer'.buf[buffer'.rpos + i] = got' + i
      <4>1. taken' - got' = taken + k - got
        BY <1>2, <1>5, <2>4
      <4> QED BY <2>3, <2>4, <4>1, Zenon
    <3>2. got' <= taken' /\ buffer'.rpos <= buffer'.wpos
      BY <2>2, <2>4
    <3>3. buffer'.wpos - buffer'.rpos = taken' - got'
      BY <1>2, <1>5, <2>a, <2>2, <2>4
    <3> QED BY <3>1, <3>2, <3>3 DEF StreamHeld
  <2> QED BY <1>1, <2>1, <2>5
<1> QED BY <1>1, <1>2, <1>6, <1>7, <1>8, StreamNext

\* Reset skips what was received.
LEMMA ResetsBuffer ==
    ASSUME StreamInv, Buffered!ResetBuffer
    PROVE  StreamInv'
<1>0. StreamTypes /\ ConnTypes /\ bufferedSent \in Nat /\ taken \in Nat /\ taken <= bufferedSent
      /\ Len(buffer.buf) \in Nat
  BY StreamFacts, BufferBounds
<1>1. /\ ~bufferedClosed /\ call.op = "none" /\ got' = taken
      /\ buffer' = [buf |-> buffer.buf, rpos |-> 0, wpos |-> 0]
      /\ UNCHANGED <<bufferedClosed, timed, call, deadline, bufferedSent, fin, taken, right, careless>>
  BY DEF Buffered!ResetBuffer, Buffered!Reset, Buffered!Unlocked, Buffered!NoCall,
         Buffered!connVars, Buffered!peerVars
<1>2. buffer' \in Buffers /\ buffer'.buf = buffer.buf /\ buffer'.rpos = 0 /\ buffer'.wpos = 0
  BY <1>0, <1>1 DEF Buffers, StreamTypes
<1>3. StreamTypes'
  BY <1>0, <1>1, <1>2 DEF StreamTypes
<1>4. ConnTypes'
  BY <1>0, <1>1 DEF ConnTypes
<1>5. StreamHeld'
  <2>1. taken - taken = 0 /\ 0 - 0 = 0 /\ 1..0 = {} /\ taken <= taken
    BY <1>0
  <2> QED BY <1>1, <1>2, <2>1 DEF StreamHeld
<1> QED BY <1>1, <1>3, <1>4, <1>5, StreamFacts, StreamNext

\* Close gives the buffer back.
LEMMA ClosesBuffer ==
    ASSUME StreamInv, Buffered!Close
    PROVE  StreamInv'
<1>0. StreamTypes /\ ConnTypes
  BY StreamFacts
<1>1. /\ bufferedClosed' = TRUE /\ call.op = "none"
      /\ UNCHANGED <<timed, call, deadline, bufferedSent, fin, taken, got, right, careless>>
      /\ buffer' = [buf |-> [i \in 1..0 |-> 0], rpos |-> 0, wpos |-> 0]
  BY DEF Buffered!Close, Buffered!Unlocked, Buffered!NoCall, Buffered!peerVars,
         Buffered!Released, Buffered!NewBytesBuffer
<1>2. [i \in 1..0 |-> 0] \in Seq(Nat) /\ Len([i \in 1..0 |-> 0]) = 0
  OBVIOUS
<1>3. buffer' \in Buffers /\ buffer'.rpos = 0 /\ buffer'.wpos = 0 /\ Len(buffer'.buf) = 0
  BY <1>1, <1>2 DEF Buffers
<1>4. StreamTypes'
  BY <1>0, <1>1, <1>3 DEF StreamTypes
<1>5. ConnTypes'
  BY <1>0, <1>1 DEF ConnTypes
<1> QED BY <1>1, <1>4, <1>5, StreamFacts, StreamNext

\* Every step of the connection keeps the invariant.
LEMMA StreamNextInv == StreamInv /\ [Buffered!Next]_bufferedVars => StreamInv'
<1> SUFFICES ASSUME StreamInv, [Buffered!Next]_bufferedVars PROVE StreamInv'
  OBVIOUS
<1>0. StreamTypes /\ ConnTypes /\ bufferedSent \in 0..MaxSent /\ MaxSent \in Nat
  BY StreamFacts, RoutingAssumption DEF StreamTypes
<1>1. ASSUME NEW n \in SliceLengths, Buffered!PeekWaits(n) PROVE StreamInv'
  <2>1. /\ ~bufferedClosed /\ call' = [op |-> "peek", n |-> n] /\ deadline' \in {"armed", deadline}
        /\ UNCHANGED <<buffer, bufferedClosed, timed, bufferedSent, fin, taken, got, right, careless>>
    BY <1>1 DEF Buffered!PeekWaits, Buffered!Unlocked, Buffered!connVars, Buffered!peerVars
  <2>2. ConnTypes'
    BY <1>0, <2>1 DEF ConnTypes, Buffered!Calls
  <2> QED BY <1>0, <2>1, <2>2, StreamStays
<1>2. CASE Buffered!CallFails
  <2>1. /\ call # [op |-> "none"] /\ call' = [op |-> "none"]
        /\ UNCHANGED <<buffer, bufferedClosed, timed, deadline, bufferedSent, fin, taken, got, right, careless>>
    BY <1>2 DEF Buffered!CallFails, Buffered!NoCall, Buffered!connVars, Buffered!peerVars
  <2>2. ConnTypes'
    BY <1>0, <2>1 DEF ConnTypes, Buffered!Calls, Buffered!NoCall
  <2>3. ~bufferedClosed
    BY <1>0, <2>1, StreamFacts DEF ConnTypes, Buffered!Calls, Buffered!NoCall
  <2> QED BY <1>0, <2>1, <2>2, <2>3, StreamStays
<1>3. ASSUME NEW on \in BOOLEAN, Buffered!SetReadTimeout(on) PROVE StreamInv'
  <2>1. /\ timed' \in BOOLEAN
        /\ UNCHANGED <<buffer, bufferedClosed, call, deadline, bufferedSent, fin, taken, got, right, careless>>
    BY <1>3 DEF Buffered!SetReadTimeout, Buffered!peerVars
  <2>2. ConnTypes'
    BY <1>0, <2>1 DEF ConnTypes
  <2> QED BY <1>0, <2>1, <2>2, StreamStays
<1>4. CASE Buffered!DeadlinePasses
  <2>1. /\ deadline' = "passed"
        /\ UNCHANGED <<buffer, bufferedClosed, timed, call, bufferedSent, fin, taken, got, right, careless>>
    BY <1>4 DEF Buffered!DeadlinePasses, Buffered!connVars, Buffered!peerVars
  <2>2. ConnTypes'
    BY <1>0, <2>1 DEF ConnTypes
  <2> QED BY <1>0, <2>1, <2>2, StreamStays
<1>5. CASE Buffered!PeerSends
  <2>1. /\ bufferedSent' = bufferedSent + 1 /\ bufferedSent < MaxSent
        /\ UNCHANGED <<buffer, bufferedClosed, timed, call, deadline, fin, taken, got, right, careless>>
    BY <1>5 DEF Buffered!PeerSends, Buffered!connVars
  <2>2. ConnTypes'
    BY <1>0, <2>1 DEF ConnTypes
  <2>3. bufferedSent' \in bufferedSent..MaxSent
    BY <1>0, <2>1
  <2> QED BY <2>1, <2>2, <2>3, StreamStays
<1>6. CASE Buffered!PeerEnds
  <2>1. /\ fin' = TRUE
        /\ UNCHANGED <<buffer, bufferedClosed, timed, call, deadline, bufferedSent, taken, got, right, careless>>
    BY <1>6 DEF Buffered!PeerEnds, Buffered!connVars
  <2>2. ConnTypes'
    BY <1>0, <2>1 DEF ConnTypes
  <2> QED BY <1>0, <2>1, <2>2, StreamStays
<1>7. CASE UNCHANGED bufferedVars
  <2>1. UNCHANGED <<buffer, bufferedClosed, timed, call, deadline, bufferedSent, fin, taken, got, right, careless>>
    BY <1>7 DEF bufferedVars
  <2>2. ConnTypes'
    BY <1>0, <2>1 DEF ConnTypes
  <2> QED BY <1>0, <2>1, <2>2, StreamStays
<1> QED BY <1>1, <1>2, <1>3, <1>4, <1>5, <1>6, <1>7, ReadsBuffered, WaitsForRead, ReadsDirect,
           ReadsFilled, PeeksMore, ResetsBuffer, ClosesBuffer DEF Buffered!Next

\* The invariant says of the stream what StreamKept says.
LEMMA StreamInvKept == StreamInv => Buffered!TypeOK /\ Buffered!StreamKept
<1> SUFFICES ASSUME StreamInv, ~careless, ~bufferedClosed
             PROVE  SubSeq(buffer.buf, buffer.rpos + 1, buffer.wpos) = Buffered!Stream(got, taken)
  BY DEF StreamInv, Buffered!StreamKept
<1> DEFINE s == buffer.buf
           r == buffer.rpos
           w == buffer.wpos
<1>1. /\ s \in Seq(Nat) /\ Len(s) \in Nat /\ r \in Nat /\ w \in Nat /\ w <= Len(s)
      /\ taken \in Nat /\ got \in Nat
  BY BufferBounds DEF StreamInv, Buffers
<1>2. /\ got <= taken /\ r <= w /\ w - r = taken - got
      /\ \A i \in 1..(taken - got) : s[r + i] = got + i
  BY DEF StreamInv, StreamHeld
<1> HIDE DEF s, r, w
<1> DEFINE part == SubSeq(s, r + 1, w)
<1>3. part \in Seq(Nat) /\ Len(part) = w - r
  BY <1>1, <1>2, SubSeqProperties
<1>4. \A i \in 1..(w - r) : part[i] = s[r + i]
  BY <1>1, <1>2, SubSeqProperties
<1> HIDE DEF part
<1>5. part = Buffered!Stream(got, taken)
  BY <1>1, <1>2, <1>3, <1>4, StreamOnly
<1> QED BY <1>5 DEF part, s, r, w
-----------------------------------------------------------------------------
(* The suite: a step is of one component, and leaves the others alone.     *)
LEMMA SuiteStep ==
    [SuiteNext]_suiteVars =>
        /\ [Bus!Next]_busVars /\ [Nodes!Next]_nodesVars
        /\ [Router!Next]_routerVars /\ [Cache!Next]_cacheVars
        /\ [Buffered!Next]_bufferedVars
<1>1. UNCHANGED suiteVars => UNCHANGED <<busVars, nodesVars, routerVars, cacheVars, bufferedVars>>
  BY DEF suiteVars
<1>2. SuiteNext =>
        /\ [Bus!Next]_busVars /\ [Nodes!Next]_nodesVars
        /\ [Router!Next]_routerVars /\ [Cache!Next]_cacheVars
        /\ [Buffered!Next]_bufferedVars
  BY <1>1 DEF SuiteNext
<1> QED BY <1>1, <1>2

(* The bus's index by topic agrees with its map of subscriptions, and what *)
(* it reports as delivered it has sent at least once, whoever subscribes,  *)
(* unsubscribes, closes and publishes meanwhile.                           *)
THEOREM BusDeliversHolds == SuiteSpec => []BusDelivers
<1>1. SuiteInit => BusInv
  BY BusInitInv DEF SuiteInit
<1>2. BusInv /\ [SuiteNext]_suiteVars => BusInv'
  BY SuiteStep, BusNextInv
<1>3. BusInv => BusDelivers
  BY DEF BusInv, BusDelivers
<1> QED BY <1>1, <1>2, <1>3, PTL DEF SuiteSpec

(* The ring, the balancer and the health of the nodes agree, through every *)
(* node added, removed, failing and recovering, and every route cached.    *)
THEOREM RingAgreesHolds == SuiteSpec => []RingAgrees
<1>1. SuiteInit => NodesInv
  BY NodesInitInv DEF SuiteInit
<1>2. NodesInv /\ [SuiteNext]_suiteVars => NodesInv'
  BY SuiteStep, NodesNextInv
<1>3. NodesInv => RingAgrees
  BY DEF NodesInv, RingAgrees
<1> QED BY <1>1, <1>2, <1>3, PTL DEF SuiteSpec

(* The route cache's map, list and memory count tell the same story,       *)
(* within its limits, at any size, memory and choice of entry to evict.    *)
THEOREM CacheAgreesHolds == SuiteSpec => []CacheAgrees
<1>1. SuiteInit => CacheInv
  BY CacheInitInv DEF SuiteInit
<1>2. CacheInv /\ [SuiteNext]_suiteVars => CacheInv'
  BY SuiteStep, CacheNextInv
<1>3. CacheInv => CacheAgrees
  BY CacheInvAgrees DEF CacheAgrees
<1> QED BY <1>1, <1>2, <1>3, PTL DEF SuiteSpec

(* The answer for a path changes only in favour of a more exact route, and *)
(* the routes stand still while a request is served by them.               *)
THEOREM AnswersSettleHolds == SuiteSpec => AnswersSettle
<1> DEFINE Settles ==
        \A m \in Methods, p \in Paths :
            LET now == Router!MatchRoute(m, p) IN
            /\ now # Router!NoRoute /\ Router!MatchRoute(m, p)' # now =>
                    now.path \in Patterns /\ Router!MatchRoute(m, p)'.path = p
            /\ \A r \in HTTPRequests : request[r] # Router!Outside =>
                    (request[r].method = m /\ request[r].path = p =>
                        request[r].route = Router!MatchRoute(m, p)')
<1>1. SuiteInit => RouterInv
  BY RouterInitInv DEF SuiteInit
<1>2. RouterInv /\ [SuiteNext]_suiteVars => RouterInv'
  BY SuiteStep, RouterNextInv
<1>3. RouterInv => Router!TypeOK
  BY DEF RouterInv
<1>4. RouterInv /\ [SuiteNext]_suiteVars => [Settles]_(Router!vars)
  BY SuiteStep, RouterSettles
<1>5. AnswersSettle <=> []Router!TypeOK /\ [][Settles]_(Router!vars)
  BY DEF AnswersSettle, Router!AnswersSettle
<1> HIDE DEF Settles
<1> QED BY <1>1, <1>2, <1>3, <1>4, <1>5, PTL DEF SuiteSpec

(* While no Read got more than the buffer had, or asked for nothing, Read  *)
(* hands out the peer's stream in order and the buffer holds the rest of   *)
(* what was received, for any buffer, slices and arrivals.                 *)
THEOREM StreamKeptHolds ==
    SuiteSpec => [](which = "buffered" => Buffered!TypeOK /\ Buffered!StreamKept)
<1>1. SuiteInit => StreamInv
  BY StreamInitInv DEF SuiteInit
<1>2. StreamInv /\ [SuiteNext]_suiteVars => StreamInv'
  BY SuiteStep, StreamNextInv
<1> QED BY <1>1, <1>2, StreamInvKept, PTL DEF SuiteSpec
=============================================================================
