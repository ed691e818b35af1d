----------------------------- MODULE PoolProofs -----------------------------
(* Proofs about ConnectionPool: connections are conserved, and a pool with *)
(* more connections than its worker opens transactions cannot lock up on   *)
(* itself.  The argument counts: Clients(w) and Running(w) change by at    *)
(* most one handler in a step, which free[w] makes up for.  And advisory   *)
(* locks end with their transactions: the lines for the keys hold nobody   *)
(* else, in the order the locks were asked for.                            *)
EXTENDS ConnectionPool, FiniteSetTheorems, TLAPS

-----------------------------------------------------------------------------
(* Counting.                                                               *)

(* Handlers of a worker are finitely many.                                 *)
LEMMA FiniteHandlers ==
  \A w \in Workers : /\ IsFiniteSet(Clients(w)) /\ Cardinality(Clients(w)) \in Nat
                     /\ IsFiniteSet(Running(w)) /\ Cardinality(Running(w)) \in Nat
<1>1. ASSUME NEW S, S \subseteq Handlers
      PROVE  IsFiniteSet(S) /\ Cardinality(S) \in Nat
  BY <1>1, FS_Subset, FS_CardinalityType, ConstantsAssumption
<1> QED BY <1>1 DEF Clients, Running

(* One more element, one more to count; and one fewer.                     *)
LEMMA OneMore ==
  ASSUME NEW S, IsFiniteSet(S), NEW x, x \notin S, NEW T, T = S \cup {x}
  PROVE  IsFiniteSet(T) /\ Cardinality(T) = Cardinality(S) + 1
BY FS_AddElement

LEMMA OneFewer ==
  ASSUME NEW S, IsFiniteSet(S), NEW x \in S, NEW T, T = S \ {x}
  PROVE  IsFiniteSet(T) /\ Cardinality(T) = Cardinality(S) - 1
BY FS_RemoveElement

-----------------------------------------------------------------------------
(* Where a step of a script leaves a handler.                              *)

(* A handler's place in its script.                                        *)
LEMMA Place ==
  ASSUME PoolInv, NEW h \in Handlers, pc[h] # 0
  PROVE  /\ pc[h] \in 1 .. Len(Script[h])
         /\ Script[h] \in Seq(Steps) /\ Len(Script[h]) \in Nat
         /\ pc[h] \in DOMAIN Script[h]
<1>1. Script[h] \in Seq(Steps)
  BY ConstantsAssumption
<1>2. Len(Script[h]) \in Nat /\ DOMAIN Script[h] = 1 .. Len(Script[h])
  BY <1>1
<1>3. pc[h] \in Nat /\ pc[h] <= Len(Script[h])
  BY DEF PoolInv, TypeOK
<1> QED BY <1>1, <1>2, <1>3

(* No client before connect.                                               *)
LEMMA NoClientAtConnect ==
  ASSUME PoolInv, NEW h \in Handlers, pc[h] # 0, Script[h][pc[h]] = "connect"
  PROVE  ~client[h]
<1>1. pc[h] \in DOMAIN Script[h] /\ WellFormed(Script[h])
  BY Place, ConstantsAssumption
<1>2. \A j \in DOMAIN Script[h] : Script[h][j] = "connect" => j = pc[h]
  BY <1>1 DEF WellFormed
<1>3. \A j \in 1 .. pc[h] - 1 : j \in DOMAIN Script[h] /\ j # pc[h]
  BY Place
<1> QED BY <1>2, <1>3 DEF PoolInv, ClientInTransaction

(* A client at release.                                                    *)
LEMMA ClientAtRelease ==
  ASSUME PoolInv, NEW h \in Handlers, pc[h] # 0,
         Script[h][pc[h]] \in {"lock", "client", "release"}
  PROVE  client[h]
<1>1. pc[h] \in DOMAIN Script[h] /\ WellFormed(Script[h])
  BY Place, ConstantsAssumption
<1>2. \E j \in 1 .. pc[h] - 1 : Script[h][j] = "connect"
  BY <1>1 DEF WellFormed
<1> QED BY <1>2 DEF PoolInv, ClientInTransaction

(* Where a handler goes from a step other than connect and release: its    *)
(* client, if any, stays its own.                                          *)
LEMMA StepInside ==
  ASSUME PoolInv, NEW h \in Handlers, pc[h] # 0,
         Script[h][pc[h]] \notin {"connect", "release"},
         NEW p, p \in {IF pc[h] = Len(Script[h]) THEN 0 ELSE pc[h] + 1,
                       IF client[h] THEN Len(Script[h]) ELSE 0}
  PROVE  /\ p \in Nat /\ p <= Len(Script[h])
         /\ client[h] <=> \E j \in 1 .. p - 1 : Script[h][j] = "connect"
<1>0. /\ pc[h] \in 1 .. Len(Script[h]) /\ Len(Script[h]) \in Nat
      /\ DOMAIN Script[h] = 1 .. Len(Script[h])
      /\ WellFormed(Script[h])
  BY Place, ConstantsAssumption
<1>1. p \in Nat /\ p <= Len(Script[h])
  BY <1>0
<1>2. client[h] <=> \E j \in 1 .. pc[h] - 1 : Script[h][j] = "connect"
  BY DEF PoolInv, ClientInTransaction
<1>3. CASE client[h]
  <2>1. PICK j \in 1 .. pc[h] - 1 : Script[h][j] = "connect"
    BY <1>2, <1>3
  <2>0. j \in DOMAIN Script[h]
    BY <1>0
  <2>2. Script[h][Len(Script[h])] = "release"
    BY <2>0, <2>1, <1>0 DEF WellFormed
  <2>3. pc[h] # Len(Script[h])
    BY <2>2
  <2>4. p >= pc[h]
    BY <1>0, <1>3, <2>3
  <2>5. j \in 1 .. p - 1
    BY <2>4, <1>0, <1>1
  <2> QED BY <2>1, <2>5, <1>1, <1>3
<1>4. CASE ~client[h]
  <2>1. p = 0 \/ p = pc[h] + 1
    BY <1>4
  <2>2. \A j \in 1 .. p - 1 : j \in 1 .. pc[h] - 1 \/ j = pc[h]
    BY <2>1, <1>0
  <2> QED BY <2>2, <1>1, <1>2, <1>4
<1> QED BY <1>3, <1>4

(* A step inside a script keeps ClientInTransaction and the bounds of pc.  *)
LEMMA InsideKeepsClients ==
  ASSUME PoolInv, NEW h \in Handlers, pc[h] # 0,
         Script[h][pc[h]] \notin {"connect", "release"},
         Advance(h) \/ Abandon(h), client' = client
  PROVE  /\ pc' \in [Handlers -> Nat]
         /\ \A g \in Handlers : pc'[g] <= Len(Script[g])
         /\ ClientInTransaction'
         /\ \A g \in Handlers \ {h} : pc'[g] = pc[g]
<1>1. PICK p : /\ p \in {IF pc[h] = Len(Script[h]) THEN 0 ELSE pc[h] + 1,
                         IF client[h] THEN Len(Script[h]) ELSE 0}
               /\ pc' = [pc EXCEPT ![h] = p]
  BY DEF Advance, Abandon
<1>2. /\ p \in Nat /\ p <= Len(Script[h])
      /\ client[h] <=> \E j \in 1 .. p - 1 : Script[h][j] = "connect"
  BY <1>1, StepInside
<1>3. /\ pc \in [Handlers -> Nat]
      /\ \A g \in Handlers : pc[g] <= Len(Script[g])
  BY DEF PoolInv, TypeOK
<1>4. pc'[h] = p /\ \A g \in Handlers \ {h} : pc'[g] = pc[g]
  BY <1>1, <1>3
<1>5. ClientInTransaction'
  <2>1. SUFFICES ASSUME NEW g \in Handlers
                 PROVE  client[g] <=> \E j \in 1 .. pc'[g] - 1 : Script[g][j] = "connect"
    BY DEF ClientInTransaction
  <2>2. CASE g = h
    BY <2>2, <1>2, <1>4
  <2>3. CASE g # h
    BY <2>3, <1>4 DEF PoolInv, ClientInTransaction
  <2> QED BY <2>2, <2>3
<1> QED BY <1>1, <1>2, <1>3, <1>4, <1>5
-----------------------------------------------------------------------------
(* Every step preserves the invariant.                                     *)

(* A step that starts or ends no query and no transaction changes no count.*)
LEMMA CountsUnchanged ==
  ASSUME PoolInv, client' = client, free' = free,
         \A g \in Handlers : state'[g] = "running" <=> state[g] = "running"
  PROVE  Conserved'
<1>1. \A w \in Workers : Clients(w)' = Clients(w) /\ Running(w)' = Running(w)
  BY DEF Clients, Running
<1> QED BY <1>1 DEF PoolInv, Conserved

(* A queue nobody joins or leaves and whose members keep waiting.          *)
LEMMA QueuesUnchanged ==
  ASSUME PoolInv, queue' = queue,
         \A g \in Handlers : state[g] = "waiting" => state'[g] = "waiting"
  PROVE  QueueOfWaiters'
<1>1. \A w \in Workers : \A i \in 1 .. Len(queue[w]) : queue[w][i] \in Handlers
  BY DEF PoolInv, TypeOK
<1> QED BY <1>1 DEF PoolInv, QueueOfWaiters

LEMMA ArriveKeepsPool ==
  ASSUME PoolInv, NEW h \in Handlers, Arrive(h)
  PROVE  PoolInv'
<1>1. /\ pc[h] = 0 /\ pc' = [pc EXCEPT ![h] = 1]
      /\ UNCHANGED <<state, client, free, queue, locks>>
  BY DEF Arrive
<1>2. Len(Script[h]) \in Nat /\ Len(Script[h]) # 0
  BY ConstantsAssumption
<1>3. pc'[h] = 1 /\ \A g \in Handlers \ {h} : pc'[g] = pc[g]
  BY <1>1 DEF PoolInv, TypeOK
<1>4. TypeOK'
  BY <1>1, <1>2, <1>3 DEF PoolInv, TypeOK
<1>5. WaitsAtStep'
  <2>1. state[h] = "ready"
    BY <1>1 DEF PoolInv, WaitsAtStep, TypeOK
  <2> QED BY <2>1, <1>1, <1>3 DEF PoolInv, WaitsAtStep
<1>6. ClientInTransaction'
  <2>1. ~client[h]
    BY <1>1 DEF PoolInv, ClientInTransaction
  <2> QED BY <2>1, <1>1, <1>3 DEF PoolInv, ClientInTransaction
<1>7. QueueOfWaiters' /\ Conserved'
  BY <1>1, QueuesUnchanged, CountsUnchanged
<1> QED BY <1>4, <1>5, <1>6, <1>7 DEF PoolInv

LEMMA AskKeepsPool ==
  ASSUME PoolInv, NEW h \in Handlers, Ask(h)
  PROVE  PoolInv'
<1> DEFINE w == WorkerOf[h]
<1>1. /\ pc[h] # 0 /\ state[h] = "ready" /\ Script[h][pc[h]] \in {"query", "connect"}
      /\ state' = [state EXCEPT ![h] = "waiting"]
      /\ queue' = [queue EXCEPT ![w] = Append(@, h)]
      /\ UNCHANGED <<pc, client, free, locks>>
  BY DEF Ask, At
<1>2. w \in Workers /\ queue[w] \in Seq(Handlers)
  BY ConstantsAssumption DEF PoolInv, TypeOK
<1>3. state'[h] = "waiting" /\ \A g \in Handlers \ {h} : state'[g] = state[g]
  BY <1>1 DEF PoolInv, TypeOK
<1>4. TypeOK'
  BY <1>1, <1>2 DEF PoolInv, TypeOK
<1>5. WaitsAtStep' /\ ClientInTransaction'
  BY <1>1, <1>3 DEF PoolInv, WaitsAtStep, ClientInTransaction
<1>6. QueueOfWaiters'
  <2>1. SUFFICES ASSUME NEW v \in Workers
        PROVE  /\ \A i \in 1 .. Len(queue'[v]) :
                    state'[queue'[v][i]] = "waiting" /\ WorkerOf[queue'[v][i]] = v
               /\ \A i, j \in 1 .. Len(queue'[v]) : queue'[v][i] = queue'[v][j] => i = j
    BY DEF QueueOfWaiters
  <2>2. /\ \A i \in 1 .. Len(queue[v]) : /\ queue[v][i] \in Handlers \ {h}
                                        /\ state[queue[v][i]] = "waiting"
                                        /\ WorkerOf[queue[v][i]] = v
        /\ \A i, j \in 1 .. Len(queue[v]) : queue[v][i] = queue[v][j] => i = j
    BY <1>1 DEF PoolInv, QueueOfWaiters, TypeOK
  <2>3. CASE v = w
    <3>1. queue'[v] = Append(queue[v], h)
      BY <1>1, <2>3 DEF PoolInv, TypeOK
    <3>2. /\ Len(queue'[v]) = Len(queue[v]) + 1 /\ Len(queue[v]) \in Nat
          /\ queue'[v][Len(queue[v]) + 1] = h
          /\ \A i \in 1 .. Len(queue[v]) : queue'[v][i] = queue[v][i]
      BY <3>1, <1>2, <2>3
    <3>3. \A i \in 1 .. Len(queue'[v]) : i \in 1 .. Len(queue[v]) \/ i = Len(queue[v]) + 1
      BY <3>2
    <3>4. \A i \in 1 .. Len(queue'[v]) :
            state'[queue'[v][i]] = "waiting" /\ WorkerOf[queue'[v][i]] = v
      <4> TAKE i \in 1 .. Len(queue'[v])
      <4>1. CASE i \in 1 .. Len(queue[v])
        <5>1. queue'[v][i] = queue[v][i]
          BY <4>1, <3>2
        <5>2. /\ queue[v][i] \in Handlers \ {h}
              /\ state[queue[v][i]] = "waiting"
              /\ WorkerOf[queue[v][i]] = v
          BY <4>1, <2>2
        <5> QED BY <5>1, <5>2, <1>3
      <4>2. CASE i = Len(queue[v]) + 1
        <5>1. queue'[v][i] = h
          BY <4>2, <3>2
        <5> QED BY <5>1, <2>3, <1>3
      <4> QED BY <4>1, <4>2, <3>3
    <3>5. ASSUME NEW i \in 1 .. Len(queue'[v]), NEW j \in 1 .. Len(queue'[v]),
                 queue'[v][i] = queue'[v][j]
          PROVE  i = j
      <4>1. CASE i \in 1 .. Len(queue[v]) /\ j \in 1 .. Len(queue[v])
        BY <4>1, <3>2, <3>5, <2>2
      <4>2. CASE i \in 1 .. Len(queue[v]) /\ j = Len(queue[v]) + 1
        BY <4>2, <3>2, <3>5, <2>2
      <4>3. CASE i = Len(queue[v]) + 1 /\ j \in 1 .. Len(queue[v])
        BY <4>3, <3>2, <3>5, <2>2
      <4> QED BY <4>1, <4>2, <4>3, <3>3
    <3> QED BY <3>4, <3>5
  <2>4. CASE v # w
    <3>1. queue'[v] = queue[v]
      BY <1>1, <2>4 DEF PoolInv, TypeOK
    <3> QED BY <3>1, <2>2, <1>3
  <2> QED BY <2>3, <2>4
<1>7. Conserved'
  BY <1>1, <1>3, CountsUnchanged
<1> QED BY <1>4, <1>5, <1>6, <1>7 DEF PoolInv

LEMMA GrantKeepsPool ==
  ASSUME PoolInv, NEW w \in Workers, Grant(w)
  PROVE  PoolInv'
<1> DEFINE h == Head(queue[w])
<1>1. /\ free[w] \in Nat /\ free[w] > 0
      /\ queue[w] \in Seq(Handlers) /\ queue[w] # <<>>
      /\ free' = [free EXCEPT ![w] = @ - 1]
      /\ queue' = [queue EXCEPT ![w] = Tail(@)]
      /\ locks' = locks
  BY DEF Grant, PoolInv, TypeOK
<1>2. h = queue[w][1] /\ 1 \in 1 .. Len(queue[w]) /\ h \in Handlers
  BY <1>1
<1>3. state[h] = "waiting" /\ WorkerOf[h] = w
  BY <1>2 DEF PoolInv, QueueOfWaiters
<1>4. pc[h] # 0 /\ Script[h][pc[h]] \in {"query", "connect"}
  BY <1>2, <1>3 DEF PoolInv, WaitsAtStep
<1>5. QueueOfWaiters'
  <2>0. \A g \in Handlers \ {h} : state'[g] = state[g]
    BY <1>2 DEF Grant, PoolInv, TypeOK
  <2>1. SUFFICES ASSUME NEW v \in Workers
        PROVE  /\ \A i \in 1 .. Len(queue'[v]) :
                    state'[queue'[v][i]] = "waiting" /\ WorkerOf[queue'[v][i]] = v
               /\ \A i, j \in 1 .. Len(queue'[v]) : queue'[v][i] = queue'[v][j] => i = j
    BY DEF QueueOfWaiters
  <2>2. /\ \A i \in 1 .. Len(queue[v]) : /\ queue[v][i] \in Handlers
                                        /\ state[queue[v][i]] = "waiting"
                                        /\ WorkerOf[queue[v][i]] = v
        /\ \A i, j \in 1 .. Len(queue[v]) : queue[v][i] = queue[v][j] => i = j
    BY DEF PoolInv, QueueOfWaiters, TypeOK
  <2>3. CASE v = w
    <3>1. queue'[v] = Tail(queue[v])
      BY <1>1, <2>3 DEF PoolInv, TypeOK
    <3>2. /\ Len(queue'[v]) = Len(queue[v]) - 1 /\ Len(queue[v]) \in Nat
          /\ \A i \in 1 .. Len(queue[v]) - 1 : queue'[v][i] = queue[v][i + 1]
      BY <3>1, <1>1, <2>3
    <3>3. \A i \in 1 .. Len(queue'[v]) : i + 1 \in 1 .. Len(queue[v]) /\ i + 1 # 1
      BY <3>2
    <3>4. \A i \in 1 .. Len(queue'[v]) : queue[v][i + 1] # h
      BY <3>3, <2>2, <2>3, <1>2
    <3>5. \A i \in 1 .. Len(queue'[v]) :
            state'[queue'[v][i]] = "waiting" /\ WorkerOf[queue'[v][i]] = v
      <4>1. TAKE i \in 1 .. Len(queue'[v])
      <4>2. i + 1 \in 1 .. Len(queue[v]) /\ queue'[v][i] = queue[v][i + 1]
        BY <3>2, <3>3
      <4>3. /\ queue[v][i + 1] \in Handlers \ {h}
            /\ state[queue[v][i + 1]] = "waiting"
            /\ WorkerOf[queue[v][i + 1]] = v
        BY <4>2, <3>4, <2>2
      <4> QED BY <4>2, <4>3, <2>0
    <3>6. ASSUME NEW i \in 1 .. Len(queue'[v]), NEW j \in 1 .. Len(queue'[v]),
                 queue'[v][i] = queue'[v][j]
          PROVE  i = j
      <4>1. queue[v][i + 1] = queue[v][j + 1]
        BY <3>2, <3>6
      <4>2. i + 1 = j + 1
        BY <4>1, <3>3, <2>2
      <4> QED BY <4>2, <3>2
    <3> QED BY <3>5, <3>6
  <2>4. CASE v # w
    <3>1. queue'[v] = queue[v]
      BY <1>1, <2>4 DEF PoolInv, TypeOK
    <3>2. \A i \in 1 .. Len(queue[v]) : queue[v][i] # h
      BY <2>2, <2>4, <1>3
    <3> QED BY <3>1, <3>2, <2>0, <2>2
  <2> QED BY <2>3, <2>4
<1>6. CASE Script[h][pc[h]] = "query"
  <2>1. state' = [state EXCEPT ![h] = "running"] /\ UNCHANGED <<pc, client>>
    BY <1>6 DEF Grant
  <2>2. state'[h] = "running" /\ \A g \in Handlers \ {h} : state'[g] = state[g]
    BY <2>1, <1>2 DEF PoolInv, TypeOK
  <2>3. TypeOK'
    BY <1>1, <2>1 DEF PoolInv, TypeOK
  <2>4. WaitsAtStep' /\ ClientInTransaction'
    BY <2>1, <2>2, <1>4, <1>6 DEF PoolInv, WaitsAtStep, ClientInTransaction
  <2>5. Conserved'
    <3>1. SUFFICES ASSUME NEW v \in Workers
          PROVE  free'[v] + Cardinality(Clients(v)') + Cardinality(Running(v)') = PoolSize
      BY DEF Conserved
    <3>2. free[v] + Cardinality(Clients(v)) + Cardinality(Running(v)) = PoolSize
      BY DEF PoolInv, Conserved
    <3>3. Clients(v)' = Clients(v)
      BY <2>1 DEF Clients
    <3>4. CASE v = w
      <4>1. h \notin Running(v) /\ Running(v)' = Running(v) \cup {h}
        BY <2>2, <1>2, <1>3, <3>4 DEF Running
      <4>2. Cardinality(Running(v)') = Cardinality(Running(v)) + 1
        BY <4>1, OneMore, FiniteHandlers
      <4>3. free'[v] = free[v] - 1
        BY <1>1, <3>4 DEF PoolInv, TypeOK
      <4> QED BY <3>2, <3>3, <3>4, <4>2, <4>3, <1>1, FiniteHandlers
    <3>5. CASE v # w
      <4>1. Running(v)' = Running(v)
        BY <2>2, <1>2, <1>3, <3>5 DEF Running
      <4>2. free'[v] = free[v]
        BY <1>1, <3>5 DEF PoolInv, TypeOK
      <4> QED BY <3>2, <3>3, <4>1, <4>2
    <3> QED BY <3>4, <3>5
  <2> QED BY <1>5, <2>3, <2>4, <2>5 DEF PoolInv
<1>7. CASE Script[h][pc[h]] = "connect"
  <2>1. /\ state' = [state EXCEPT ![h] = "ready"]
        /\ client' = [client EXCEPT ![h] = TRUE]
        /\ Advance(h)
    BY <1>7 DEF Grant
  <2>2. /\ state'[h] = "ready" /\ \A g \in Handlers \ {h} : state'[g] = state[g]
        /\ client'[h] /\ \A g \in Handlers \ {h} : client'[g] = client[g]
    BY <2>1, <1>2 DEF PoolInv, TypeOK
  <2>3. /\ pc[h] \in 1 .. Len(Script[h]) /\ Len(Script[h]) \in Nat
        /\ pc[h] \in DOMAIN Script[h] /\ WellFormed(Script[h])
    BY <1>2, <1>4, Place, ConstantsAssumption
  <2>4. pc[h] # Len(Script[h])
    <3>1. Script[h][Len(Script[h])] = "release"
      BY <2>3, <1>7 DEF WellFormed
    <3> QED BY <3>1, <1>7
  <2>5. pc' = [pc EXCEPT ![h] = pc[h] + 1]
    BY <2>1, <2>4, <1>2 DEF Advance, PoolInv, TypeOK
  <2>6. pc'[h] = pc[h] + 1 /\ \A g \in Handlers \ {h} : pc'[g] = pc[g]
    BY <2>5, <1>2 DEF PoolInv, TypeOK
  <2>7. TypeOK'
    BY <1>1, <1>2, <2>1, <2>3, <2>4, <2>5, <2>6 DEF PoolInv, TypeOK
  <2>8. WaitsAtStep'
    BY <2>2, <2>6 DEF PoolInv, WaitsAtStep
  <2>9. ClientInTransaction'
    <3>1. pc[h] \in 1 .. pc'[h] - 1
      BY <2>3, <2>6
    <3> QED BY <3>1, <1>7, <2>2, <2>6 DEF PoolInv, ClientInTransaction
  <2>10. Conserved'
    <3>1. SUFFICES ASSUME NEW v \in Workers
          PROVE  free'[v] + Cardinality(Clients(v)') + Cardinality(Running(v)') = PoolSize
      BY DEF Conserved
    <3>2. free[v] + Cardinality(Clients(v)) + Cardinality(Running(v)) = PoolSize
      BY DEF PoolInv, Conserved
    <3>3. Running(v)' = Running(v)
      BY <2>2, <1>2, <1>3 DEF Running
    <3>4. CASE v = w
      <4>0. ~client[h]
        BY <1>2, <1>4, <1>7, NoClientAtConnect
      <4>1. h \notin Clients(v) /\ Clients(v)' = Clients(v) \cup {h}
        BY <2>2, <4>0, <1>2, <1>3, <3>4 DEF Clients
      <4>2. Cardinality(Clients(v)') = Cardinality(Clients(v)) + 1
        BY <4>1, OneMore, FiniteHandlers
      <4>3. free'[v] = free[v] - 1
        BY <1>1, <3>4 DEF PoolInv, TypeOK
      <4> QED BY <3>2, <3>3, <3>4, <4>2, <4>3, <1>1, FiniteHandlers
    <3>5. CASE v # w
      <4>1. Clients(v)' = Clients(v)
        BY <2>2, <1>2, <1>3, <3>5 DEF Clients
      <4>2. free'[v] = free[v]
        BY <1>1, <3>5 DEF PoolInv, TypeOK
      <4> QED BY <3>2, <3>3, <4>1, <4>2
    <3> QED BY <3>4, <3>5
  <2> QED BY <1>5, <2>7, <2>8, <2>9, <2>10 DEF PoolInv
<1> QED BY <1>4, <1>6, <1>7

LEMMA EndQueryKeepsPool ==
  ASSUME PoolInv, NEW h \in Handlers, EndQuery(h)
  PROVE  PoolInv'
<1>1. /\ state[h] = "running"
      /\ state' = [state EXCEPT ![h] = "ready"]
      /\ Advance(h) \/ Abandon(h)
      /\ free' = [free EXCEPT ![WorkerOf[h]] = @ + 1]
      /\ UNCHANGED <<client, queue, locks>>
  BY DEF EndQuery
<1>2. WorkerOf[h] \in Workers
  BY ConstantsAssumption
<1>3. pc[h] # 0 /\ Script[h][pc[h]] \notin {"connect", "release"}
  BY <1>1 DEF PoolInv, WaitsAtStep
<1>4. /\ pc' \in [Handlers -> Nat]
      /\ \A g \in Handlers : pc'[g] <= Len(Script[g])
      /\ ClientInTransaction'
      /\ \A g \in Handlers \ {h} : pc'[g] = pc[g]
  BY <1>1, <1>3, InsideKeepsClients
<1>5. state'[h] = "ready" /\ \A g \in Handlers \ {h} : state'[g] = state[g]
  BY <1>1 DEF PoolInv, TypeOK
<1>6. TypeOK'
  <2>1. free' \in [Workers -> Nat]
    BY <1>1, <1>2 DEF PoolInv, TypeOK
  <2>2. state' \in [Handlers -> {"ready", "waiting", "running", "locking"}]
    BY <1>1 DEF PoolInv, TypeOK
  <2> QED BY <1>1, <1>4, <2>1, <2>2 DEF PoolInv, TypeOK
<1>7. WaitsAtStep'
  BY <1>4, <1>5 DEF PoolInv, WaitsAtStep
<1>8. QueueOfWaiters'
  BY <1>1, <1>5, QueuesUnchanged
<1>9. Conserved'
  <2>1. SUFFICES ASSUME NEW v \in Workers
        PROVE  free'[v] + Cardinality(Clients(v)') + Cardinality(Running(v)') = PoolSize
    BY DEF Conserved
  <2>2. /\ free[v] + Cardinality(Clients(v)) + Cardinality(Running(v)) = PoolSize
        /\ free[v] \in Nat
    BY DEF PoolInv, Conserved, TypeOK
  <2>3. Clients(v)' = Clients(v)
    BY <1>1 DEF Clients
  <2>4. CASE v = WorkerOf[h]
    <3>1. h \in Running(v) /\ Running(v)' = Running(v) \ {h}
      BY <1>1, <1>5, <2>4 DEF Running
    <3>2. Cardinality(Running(v)') = Cardinality(Running(v)) - 1
      BY <3>1, OneFewer, FiniteHandlers
    <3>3. free'[v] = free[v] + 1
      BY <1>1, <2>4 DEF PoolInv, TypeOK
    <3> QED BY <2>2, <2>3, <3>2, <3>3, FiniteHandlers
  <2>5. CASE v # WorkerOf[h]
    <3>1. Running(v)' = Running(v)
      BY <1>5, <2>5 DEF Running
    <3>2. free'[v] = free[v]
      BY <1>1, <2>5 DEF PoolInv, TypeOK
    <3> QED BY <2>2, <2>3, <3>1, <3>2
  <2> QED BY <2>4, <2>5
<1> QED BY <1>4, <1>6, <1>7, <1>8, <1>9 DEF PoolInv

LEMMA AskLockKeepsPool ==
  ASSUME PoolInv, NEW h \in Handlers, AskLock(h)
  PROVE  PoolInv'
<1>1. /\ pc[h] # 0 /\ state[h] = "ready" /\ Script[h][pc[h]] = "lock"
      /\ UNCHANGED <<client, free, queue>>
  BY DEF AskLock, At
<1>2. KeyOf[h] \in Keys /\ locks \in [Keys -> Seq(Handlers)]
  BY ConstantsAssumption DEF PoolInv, TypeOK
<1>3. CASE /\ locks' = [locks EXCEPT ![KeyOf[h]] = Append(@, h)]
           /\ state' = [state EXCEPT ![h] = "locking"]
           /\ pc' = pc
  <2>1. state'[h] = "locking" /\ \A g \in Handlers \ {h} : state'[g] = state[g]
    BY <1>3 DEF PoolInv, TypeOK
  <2>2. TypeOK'
    BY <1>1, <1>2, <1>3 DEF PoolInv, TypeOK
  <2>3. WaitsAtStep' /\ ClientInTransaction'
    BY <1>1, <1>3, <2>1 DEF PoolInv, WaitsAtStep, ClientInTransaction
  <2>4. QueueOfWaiters' /\ Conserved'
    BY <1>1, <2>1, QueuesUnchanged, CountsUnchanged
  <2> QED BY <2>2, <2>3, <2>4 DEF PoolInv
<1>4. CASE Abandon(h) /\ UNCHANGED <<state, locks>>
  <2>1. /\ pc' \in [Handlers -> Nat]
        /\ \A g \in Handlers : pc'[g] <= Len(Script[g])
        /\ ClientInTransaction'
        /\ \A g \in Handlers \ {h} : pc'[g] = pc[g]
    BY <1>1, <1>4, InsideKeepsClients
  <2>2. TypeOK' /\ WaitsAtStep'
    BY <1>1, <1>4, <2>1 DEF PoolInv, TypeOK, WaitsAtStep
  <2>3. QueueOfWaiters' /\ Conserved'
    BY <1>1, <1>4, QueuesUnchanged, CountsUnchanged
  <2> QED BY <2>1, <2>2, <2>3 DEF PoolInv
<1> QED BY <1>3, <1>4 DEF AskLock

LEMMA TakeLockKeepsPool ==
  ASSUME PoolInv, NEW h \in Handlers, TakeLock(h)
  PROVE  PoolInv'
<1>1. /\ state[h] = "locking" /\ state' = [state EXCEPT ![h] = "ready"]
      /\ Advance(h) /\ UNCHANGED <<client, free, queue, locks>>
  BY DEF TakeLock
<1>2. pc[h] # 0 /\ Script[h][pc[h]] = "lock"
  BY <1>1 DEF PoolInv, WaitsAtStep
<1>3. /\ pc' \in [Handlers -> Nat]
      /\ \A g \in Handlers : pc'[g] <= Len(Script[g])
      /\ ClientInTransaction'
      /\ \A g \in Handlers \ {h} : pc'[g] = pc[g]
  BY <1>1, <1>2, InsideKeepsClients
<1>4. state'[h] = "ready" /\ \A g \in Handlers \ {h} : state'[g] = state[g]
  BY <1>1 DEF PoolInv, TypeOK
<1>5. TypeOK'
  BY <1>1, <1>3 DEF PoolInv, TypeOK
<1>6. WaitsAtStep'
  BY <1>1, <1>3, <1>4 DEF PoolInv, WaitsAtStep
<1>7. QueueOfWaiters' /\ Conserved'
  BY <1>1, <1>4, QueuesUnchanged, CountsUnchanged
<1> QED BY <1>3, <1>5, <1>6, <1>7 DEF PoolInv

LEMMA RunOnClientKeepsPool ==
  ASSUME PoolInv, NEW h \in Handlers, RunOnClient(h)
  PROVE  PoolInv'
<1>1. /\ pc[h] # 0 /\ state[h] = "ready" /\ Script[h][pc[h]] = "client"
      /\ Advance(h) \/ Abandon(h)
      /\ UNCHANGED <<state, client, free, queue, locks>>
  BY DEF RunOnClient, At
<1>2. /\ pc' \in [Handlers -> Nat]
      /\ \A g \in Handlers : pc'[g] <= Len(Script[g])
      /\ ClientInTransaction'
      /\ \A g \in Handlers \ {h} : pc'[g] = pc[g]
  BY <1>1, InsideKeepsClients
<1>3. TypeOK' /\ WaitsAtStep'
  BY <1>1, <1>2 DEF PoolInv, TypeOK, WaitsAtStep
<1>4. QueueOfWaiters' /\ Conserved'
  BY <1>1, QueuesUnchanged, CountsUnchanged
<1> QED BY <1>2, <1>3, <1>4 DEF PoolInv

LEMMA ReleaseKeepsPool ==
  ASSUME PoolInv, NEW h \in Handlers, Release(h)
  PROVE  PoolInv'
<1>1. /\ pc[h] # 0 /\ state[h] = "ready" /\ Script[h][pc[h]] = "release"
      /\ locks' = [locks EXCEPT ![KeyOf[h]] =
                     IF @ # <<>> /\ Head(@) = h THEN Tail(@) ELSE @]
      /\ client' = [client EXCEPT ![h] = FALSE]
      /\ free' = [free EXCEPT ![WorkerOf[h]] = @ + 1]
      /\ Advance(h)
      /\ UNCHANGED <<state, queue>>
  BY DEF Release, At
<1>2. /\ WorkerOf[h] \in Workers /\ KeyOf[h] \in Keys
      /\ Len(Script[h]) \in Nat
  BY Place, <1>1, ConstantsAssumption
<1>3. client[h]
  BY <1>1, ClientAtRelease
<1>4. pc[h] = Len(Script[h])
  BY <1>1, Place, ConstantsAssumption DEF WellFormed
<1>5. pc' = [pc EXCEPT ![h] = 0]
  BY <1>1, <1>4 DEF Advance, PoolInv, TypeOK
<1>6. /\ pc'[h] = 0 /\ \A g \in Handlers \ {h} : pc'[g] = pc[g]
      /\ ~client'[h] /\ \A g \in Handlers \ {h} : client'[g] = client[g]
  BY <1>1, <1>5 DEF PoolInv, TypeOK
<1>7. TypeOK'
  <2>1. locks' \in [Keys -> Seq(Handlers)]
    BY <1>1, <1>2 DEF PoolInv, TypeOK
  <2>2. free' \in [Workers -> Nat] /\ client' \in [Handlers -> BOOLEAN]
    BY <1>1, <1>2 DEF PoolInv, TypeOK
  <2>3. pc' \in [Handlers -> Nat] /\ \A g \in Handlers : pc'[g] <= Len(Script[g])
    BY <1>2, <1>5, <1>6 DEF PoolInv, TypeOK
  <2> QED BY <2>1, <2>2, <2>3, <1>1 DEF PoolInv, TypeOK
<1>8. WaitsAtStep'
  BY <1>1, <1>6 DEF PoolInv, WaitsAtStep
<1>9. ClientInTransaction'
  BY <1>6 DEF PoolInv, ClientInTransaction
<1>10. QueueOfWaiters'
  BY <1>1, QueuesUnchanged
<1>11. Conserved'
  <2>1. SUFFICES ASSUME NEW v \in Workers
        PROVE  free'[v] + Cardinality(Clients(v)') + Cardinality(Running(v)') = PoolSize
    BY DEF Conserved
  <2>2. /\ free[v] + Cardinality(Clients(v)) + Cardinality(Running(v)) = PoolSize
        /\ free[v] \in Nat
    BY DEF PoolInv, Conserved, TypeOK
  <2>3. Running(v)' = Running(v)
    BY <1>1 DEF Running
  <2>4. CASE v = WorkerOf[h]
    <3>1. h \in Clients(v) /\ Clients(v)' = Clients(v) \ {h}
      BY <1>3, <1>6, <2>4 DEF Clients
    <3>2. Cardinality(Clients(v)') = Cardinality(Clients(v)) - 1
      BY <3>1, OneFewer, FiniteHandlers
    <3>3. free'[v] = free[v] + 1
      BY <1>1, <2>4 DEF PoolInv, TypeOK
    <3> QED BY <2>2, <2>3, <3>2, <3>3, FiniteHandlers
  <2>5. CASE v # WorkerOf[h]
    <3>1. Clients(v)' = Clients(v)
      BY <1>6, <2>5 DEF Clients
    <3>2. free'[v] = free[v]
      BY <1>1, <2>5 DEF PoolInv, TypeOK
    <3> QED BY <2>2, <2>3, <3>1, <3>2
  <2> QED BY <2>4, <2>5
<1> QED BY <1>7, <1>8, <1>9, <1>10, <1>11 DEF PoolInv

-----------------------------------------------------------------------------
(* Advisory locks.                                                         *)

(* A transaction that runs a step moves forward in its script: one past    *)
(* its lock statement stays past it.                                       *)
LEMMA TransactionMovesForward ==
  ASSUME PoolInv, NEW h \in Handlers, pc[h] # 0, client[h],
         Script[h][pc[h]] \notin {"connect", "release"},
         Advance(h) \/ Abandon(h)
  PROVE  /\ pc'[h] \in Nat /\ pc'[h] > pc[h]
         /\ \A g \in Handlers \ {h} : pc'[g] = pc[g]
<1>1. /\ pc[h] \in 1 .. Len(Script[h]) /\ Len(Script[h]) \in Nat
      /\ DOMAIN Script[h] = 1 .. Len(Script[h])
      /\ WellFormed(Script[h])
      /\ pc \in [Handlers -> Nat]
  BY Place, ConstantsAssumption DEF PoolInv, TypeOK
<1>2. PICK j \in 1 .. pc[h] - 1 : Script[h][j] = "connect"
  BY DEF PoolInv, ClientInTransaction
<1>3. Script[h][Len(Script[h])] = "release"
  <2>1. j \in DOMAIN Script[h]
    BY <1>1
  <2> QED BY <1>1, <1>2, <2>1 DEF WellFormed
<1>4. pc[h] # Len(Script[h])
  BY <1>3
<1>5. CASE Advance(h)
  BY <1>1, <1>4, <1>5 DEF Advance
<1>6. CASE Abandon(h)
  BY <1>1, <1>4, <1>6 DEF Abandon
<1> QED BY <1>5, <1>6

LEMMA StaysPastLock ==
  ASSUME PoolInv, NEW h \in Handlers, PastLock(h),
         pc'[h] \in Nat, pc'[h] >= pc[h]
  PROVE  PastLock(h)'
<1>1. pc[h] \in Nat /\ Len(Script[h]) \in Nat
  BY ConstantsAssumption DEF PoolInv, TypeOK
<1>2. \A j \in pc'[h] .. Len(Script[h]) : j \in pc[h] .. Len(Script[h])
  BY <1>1
<1> QED BY <1>2 DEF PastLock

(* A step in which no line changes, no transaction ends and none in its    *)
(* lock statement or past it goes back.                                    *)
LEMMA LinesUnchanged ==
  ASSUME PoolInv, LinesOfTransactions, locks' = locks,
         \A g \in Handlers : client[g] =>
            /\ client'[g]
            /\ state[g] = "locking" => state'[g] = "locking"
            /\ PastLock(g) => PastLock(g)'
  PROVE  LinesOfTransactions'
<1>1. \A k \in Keys : \A i \in 1 .. Len(locks[k]) : locks[k][i] \in Handlers
  BY DEF PoolInv, TypeOK
<1> QED BY <1>1 DEF LinesOfTransactions

(* The step of one handler h inside its transaction, if it is in one.      *)
LEMMA LinesStayWhenOneMoves ==
  ASSUME PoolInv, LinesOfTransactions, NEW h \in Handlers, pc[h] # 0,
         Script[h][pc[h]] \notin {"connect", "release"},
         Advance(h) \/ Abandon(h),
         state[h] # "locking", UNCHANGED <<client, locks>>,
         \A g \in Handlers \ {h} : state'[g] = state[g]
  PROVE  LinesOfTransactions'
<1>1. ASSUME NEW g \in Handlers, client[g], PastLock(g)
      PROVE  PastLock(g)'
  <2>1. CASE g = h
    <3>1. pc'[h] \in Nat /\ pc'[h] > pc[h]
      BY <1>1, <2>1, TransactionMovesForward
    <3>2. pc[h] \in Nat
      BY DEF PoolInv, TypeOK
    <3> QED BY <1>1, <2>1, <3>1, <3>2, StaysPastLock
  <2>2. CASE g # h
    <3>1. pc'[g] = pc[g]
      BY <2>2 DEF Advance, Abandon, PoolInv, TypeOK
    <3> QED BY <1>1, <3>1 DEF PastLock
  <2> QED BY <2>1, <2>2
<1> QED BY <1>1, LinesUnchanged

LEMMA ArriveKeepsLines ==
  ASSUME PoolInv, LinesOfTransactions, NEW h \in Handlers, Arrive(h)
  PROVE  LinesOfTransactions'
<1>1. /\ ~client[h]
      /\ \A g \in Handlers \ {h} : pc'[g] = pc[g]
      /\ UNCHANGED <<state, client, locks>>
  BY DEF Arrive, PoolInv, TypeOK, ClientInTransaction
<1>2. \A g \in Handlers : client[g] /\ PastLock(g) => PastLock(g)'
  BY <1>1 DEF PastLock
<1> QED BY <1>1, <1>2, LinesUnchanged

LEMMA AskKeepsLines ==
  ASSUME PoolInv, LinesOfTransactions, NEW h \in Handlers, Ask(h)
  PROVE  LinesOfTransactions'
<1>1. /\ state[h] = "ready" /\ \A g \in Handlers \ {h} : state'[g] = state[g]
      /\ UNCHANGED <<pc, client, locks>>
  BY DEF Ask, At, PoolInv, TypeOK
<1>2. \A g \in Handlers : PastLock(g) => PastLock(g)'
  BY <1>1 DEF PastLock
<1> QED BY <1>1, <1>2, LinesUnchanged

LEMMA GrantKeepsLines ==
  ASSUME PoolInv, LinesOfTransactions, NEW w \in Workers, Grant(w)
  PROVE  LinesOfTransactions'
<1> DEFINE h == Head(queue[w])
<1>1. /\ queue[w] \in Seq(Handlers) /\ queue[w] # <<>> /\ locks' = locks
  BY DEF Grant, PoolInv, TypeOK
<1>2. h = queue[w][1] /\ 1 \in 1 .. Len(queue[w]) /\ h \in Handlers
  BY <1>1
<1>3. state[h] = "waiting"
  BY <1>2 DEF PoolInv, QueueOfWaiters
<1>4. pc[h] # 0
  BY <1>2, <1>3 DEF PoolInv, WaitsAtStep
<1>5. \A g \in Handlers \ {h} : state'[g] = state[g]
  BY <1>2 DEF Grant, PoolInv, TypeOK
<1>6. CASE Script[h][pc[h]] = "query"
  <2>1. UNCHANGED <<pc, client>>
    BY <1>6 DEF Grant
  <2>2. \A g \in Handlers : PastLock(g) => PastLock(g)'
    BY <2>1 DEF PastLock
  <2> QED BY <1>1, <1>3, <1>5, <2>1, <2>2, LinesUnchanged
<1>7. CASE Script[h][pc[h]] = "connect"
  <2>1. ~client[h]
    BY <1>2, <1>4, <1>7, NoClientAtConnect
  <2>2. client' = [client EXCEPT ![h] = TRUE] /\ Advance(h)
    BY <1>7 DEF Grant
  <2>3. \A g \in Handlers \ {h} : pc'[g] = pc[g] /\ client'[g] = client[g]
    BY <1>2, <2>2 DEF Advance, PoolInv, TypeOK
  <2>4. \A g \in Handlers : client[g] /\ PastLock(g) => PastLock(g)'
    BY <2>1, <2>3 DEF PastLock
  <2> QED BY <1>1, <1>5, <2>1, <2>3, <2>4, LinesUnchanged
<1> QED BY <1>6, <1>7 DEF Grant

LEMMA AskLockKeepsLines ==
  ASSUME PoolInv, LinesOfTransactions, NEW h \in Handlers, AskLock(h)
  PROVE  LinesOfTransactions'
<1> DEFINE k == KeyOf[h]
<1>1. /\ pc[h] # 0 /\ state[h] = "ready" /\ Script[h][pc[h]] = "lock"
      /\ UNCHANGED <<client, free, queue>>
  BY DEF AskLock, At
<1>2. client[h]
  BY <1>1, ClientAtRelease
<1>3. k \in Keys /\ locks \in [Keys -> Seq(Handlers)]
  BY ConstantsAssumption DEF PoolInv, TypeOK
<1>4. ~PastLock(h)
  BY <1>1, Place DEF PastLock
<1>5. CASE /\ locks' = [locks EXCEPT ![k] = Append(@, h)]
           /\ state' = [state EXCEPT ![h] = "locking"]
           /\ pc' = pc
  <2>1. state'[h] = "locking" /\ \A g \in Handlers \ {h} : state'[g] = state[g]
    BY <1>5 DEF PoolInv, TypeOK
  <2>2. \A g \in Handlers : PastLock(g)' <=> PastLock(g)
    BY <1>5 DEF PastLock
  <2>3. SUFFICES ASSUME NEW m \in Keys
        PROVE  /\ \A i \in 1 .. Len(locks'[m]) :
                    /\ KeyOf[locks'[m][i]] = m
                    /\ client'[locks'[m][i]]
                    /\ \/ state'[locks'[m][i]] = "locking"
                       \/ i = 1 /\ PastLock(locks[m][i])'
               /\ \A i, j \in 1 .. Len(locks'[m]) : locks'[m][i] = locks'[m][j] => i = j
    BY DEF LinesOfTransactions
  <2>4. /\ \A i \in 1 .. Len(locks[m]) :
             /\ locks[m][i] \in Handlers \ {h}
             /\ KeyOf[locks[m][i]] = m
             /\ client[locks[m][i]]
             /\ state[locks[m][i]] = "locking" \/ (i = 1 /\ PastLock(locks[m][i]))
        /\ \A i, j \in 1 .. Len(locks[m]) : locks[m][i] = locks[m][j] => i = j
    <3>1. \A i \in 1 .. Len(locks[m]) : locks[m][i] \in Handlers
      BY <1>3
    <3> QED BY <3>1, <1>1, <1>4 DEF LinesOfTransactions
  <2>5. CASE m = k
    <3>1. locks'[m] = Append(locks[m], h)
      BY <1>3, <1>5, <2>5
    <3>2. /\ Len(locks'[m]) = Len(locks[m]) + 1 /\ Len(locks[m]) \in Nat
          /\ locks'[m][Len(locks[m]) + 1] = h
          /\ \A i \in 1 .. Len(locks[m]) : locks'[m][i] = locks[m][i]
      BY <3>1, <1>3
    <3>3. \A i \in 1 .. Len(locks'[m]) : i \in 1 .. Len(locks[m]) \/ i = Len(locks[m]) + 1
      BY <3>2
    <3>4. ASSUME NEW i \in 1 .. Len(locks'[m])
          PROVE  /\ KeyOf[locks'[m][i]] = m
                 /\ client'[locks'[m][i]]
                 /\ \/ state'[locks'[m][i]] = "locking"
                    \/ i = 1 /\ PastLock(locks[m][i])'
      <4>1. CASE i \in 1 .. Len(locks[m])
        <5>1. locks'[m][i] = locks[m][i]
          BY <4>1, <3>2
        <5>2. /\ locks[m][i] \in Handlers \ {h}
              /\ KeyOf[locks[m][i]] = m
              /\ client[locks[m][i]]
              /\ state[locks[m][i]] = "locking" \/ (i = 1 /\ PastLock(locks[m][i]))
          BY <4>1, <2>4
        <5>3. PastLock(locks[m][i])' <=> PastLock(locks[m][i])
          BY <5>1, <1>5 DEF PastLock
        <5> QED BY <5>1, <5>2, <5>3, <1>1, <2>1
      <4>2. CASE i = Len(locks[m]) + 1
        <5>1. locks'[m][i] = h
          BY <4>2, <3>2
        <5> QED BY <5>1, <1>1, <1>2, <2>1, <2>5
      <4> QED BY <4>1, <4>2, <3>3
    <3>5. ASSUME NEW i \in 1 .. Len(locks'[m]), NEW j \in 1 .. Len(locks'[m]),
                 locks'[m][i] = locks'[m][j]
          PROVE  i = j
      <4>1. CASE i \in 1 .. Len(locks[m]) /\ j \in 1 .. Len(locks[m])
        BY <4>1, <3>2, <3>5, <2>4
      <4>2. CASE i \in 1 .. Len(locks[m]) /\ j = Len(locks[m]) + 1
        BY <4>2, <3>2, <3>5, <2>4
      <4>3. CASE i = Len(locks[m]) + 1 /\ j \in 1 .. Len(locks[m])
        BY <4>3, <3>2, <3>5, <2>4
      <4> QED BY <4>1, <4>2, <4>3, <3>3
    <3> QED BY <3>4, <3>5
  <2>6. CASE m # k
    <3>1. locks'[m] = locks[m]
      BY <1>3, <1>5, <2>6
    <3>2. \A i \in 1 .. Len(locks[m]) : PastLock(locks[m][i])' <=> PastLock(locks[m][i])
      BY <3>1, <1>5 DEF PastLock
    <3> QED BY <3>1, <3>2, <2>4, <2>1, <1>1
  <2> QED BY <2>5, <2>6
<1>6. CASE Abandon(h) /\ UNCHANGED <<state, locks>>
  BY <1>1, <1>6, LinesStayWhenOneMoves
<1> QED BY <1>5, <1>6 DEF AskLock

LEMMA TakeLockKeepsLines ==
  ASSUME PoolInv, LinesOfTransactions, NEW h \in Handlers, TakeLock(h)
  PROVE  LinesOfTransactions'
<1>1. /\ state[h] = "locking" /\ Head(locks[KeyOf[h]]) = h
      /\ Advance(h) /\ UNCHANGED <<client, free, queue, locks>>
      /\ \A g \in Handlers \ {h} : state'[g] = state[g]
  BY DEF TakeLock, PoolInv, TypeOK
<1>2. pc[h] # 0 /\ Script[h][pc[h]] = "lock"
  BY <1>1 DEF PoolInv, WaitsAtStep
<1>3. client[h]
  BY <1>2, ClientAtRelease
<1>4. /\ pc'[h] \in Nat /\ pc'[h] > pc[h]
      /\ \A g \in Handlers \ {h} : pc'[g] = pc[g]
  BY <1>1, <1>2, <1>3, TransactionMovesForward
<1>5. PastLock(h)'
  <2>1. /\ pc[h] \in DOMAIN Script[h] /\ pc[h] \in Nat /\ Len(Script[h]) \in Nat
        /\ DOMAIN Script[h] = 1 .. Len(Script[h]) /\ WellFormed(Script[h])
    BY <1>2, Place, ConstantsAssumption DEF PoolInv, TypeOK
  <2>2. \A j \in DOMAIN Script[h] : Script[h][j] = "lock" => j = pc[h]
    BY <1>2, <2>1 DEF WellFormed
  <2>3. \A j \in pc'[h] .. Len(Script[h]) : j \in DOMAIN Script[h] /\ j # pc[h]
    BY <1>4, <2>1
  <2> QED BY <2>2, <2>3 DEF PastLock
<1>6. SUFFICES ASSUME NEW k \in Keys, NEW i \in 1 .. Len(locks[k])
      PROVE  \/ state'[locks[k][i]] = "locking"
             \/ i = 1 /\ PastLock(locks[k][i])'
  BY <1>1 DEF LinesOfTransactions
<1>7. /\ locks[k][i] \in Handlers /\ KeyOf[locks[k][i]] = k
      /\ locks[k] \in Seq(Handlers)
      /\ state[locks[k][i]] = "locking" \/ (i = 1 /\ PastLock(locks[k][i]))
      /\ \A a, b \in 1 .. Len(locks[k]) : locks[k][a] = locks[k][b] => a = b
  BY DEF LinesOfTransactions, PoolInv, TypeOK
<1>8. CASE locks[k][i] = h
  <2>1. 1 \in 1 .. Len(locks[k]) /\ locks[k][1] = Head(locks[k])
    BY <1>7
  <2>2. i = 1
    BY <1>1, <1>7, <1>8, <2>1
  <2> QED BY <1>1, <1>5, <1>8, <2>2 DEF PastLock
<1>9. CASE locks[k][i] # h
  <2>1. pc'[locks[k][i]] = pc[locks[k][i]] /\ state'[locks[k][i]] = state[locks[k][i]]
    BY <1>1, <1>4, <1>7, <1>9
  <2>2. PastLock(locks[k][i]) => PastLock(locks[k][i])'
    BY <1>1, <2>1 DEF PastLock
  <2> QED BY <1>7, <2>1, <2>2
<1> QED BY <1>8, <1>9

LEMMA ReleaseKeepsLines ==
  ASSUME PoolInv, LinesOfTransactions, NEW h \in Handlers, Release(h)
  PROVE  LinesOfTransactions'
<1> DEFINE line(k) == IF k = KeyOf[h] /\ locks[k] # <<>> /\ Head(locks[k]) = h
                      THEN Tail(locks[k]) ELSE locks[k]
<1>1. /\ state[h] = "ready" /\ UNCHANGED state
      /\ client' = [client EXCEPT ![h] = FALSE]
      /\ Advance(h)
  BY DEF Release, At
<1>2. /\ \A g \in Handlers \ {h} : pc'[g] = pc[g] /\ client'[g] = client[g]
      /\ locks \in [Keys -> Seq(Handlers)]
  BY <1>1 DEF Advance, PoolInv, TypeOK
<1>3. \A k \in Keys : locks'[k] = line(k)
  BY <1>2 DEF Release
<1>4. SUFFICES ASSUME NEW k \in Keys
      PROVE  /\ \A i \in 1 .. Len(locks'[k]) :
                  /\ KeyOf[locks'[k][i]] = k
                  /\ client'[locks'[k][i]]
                  /\ \/ state'[locks'[k][i]] = "locking"
                     \/ i = 1 /\ PastLock(locks[k][i])'
             /\ \A i, j \in 1 .. Len(locks'[k]) : locks'[k][i] = locks'[k][j] => i = j
  BY DEF LinesOfTransactions
<1>5. /\ locks[k] \in Seq(Handlers) /\ Len(locks[k]) \in Nat
      /\ \A i \in 1 .. Len(locks[k]) :
           /\ locks[k][i] \in Handlers
           /\ KeyOf[locks[k][i]] = k
           /\ client[locks[k][i]]
           /\ state[locks[k][i]] = "locking" \/ (i = 1 /\ PastLock(locks[k][i]))
      /\ \A i, j \in 1 .. Len(locks[k]) : locks[k][i] = locks[k][j] => i = j
  <2>1. locks[k] \in Seq(Handlers)
    BY <1>2
  <2> QED BY <2>1 DEF LinesOfTransactions
<1>6. \A i \in 1 .. Len(locks[k]) : locks[k][i] = h => i = 1 /\ k = KeyOf[h]
  BY <1>1, <1>5
<1>7. CASE k = KeyOf[h] /\ locks[k] # <<>> /\ Head(locks[k]) = h
  <2>1. locks'[k] = Tail(locks[k])
    BY <1>3, <1>7
  <2>2. /\ Len(locks'[k]) = Len(locks[k]) - 1
        /\ \A i \in 1 .. Len(locks[k]) - 1 : locks'[k][i] = locks[k][i + 1]
    BY <2>1, <1>5, <1>7
  <2>3. ASSUME NEW i \in 1 .. Len(locks'[k])
        PROVE  /\ i + 1 \in 1 .. Len(locks[k]) /\ i + 1 # 1
               /\ locks'[k][i] = locks[k][i + 1]
    BY <2>2, <1>5
  <2>4. ASSUME NEW i \in 1 .. Len(locks'[k])
        PROVE  /\ KeyOf[locks'[k][i]] = k
               /\ client'[locks'[k][i]]
               /\ state'[locks'[k][i]] = "locking"
    <3>1. /\ locks[k][i + 1] \in Handlers \ {h}
          /\ KeyOf[locks[k][i + 1]] = k
          /\ client[locks[k][i + 1]]
          /\ state[locks[k][i + 1]] = "locking"
      BY <2>3, <1>5, <1>6
    <3> QED BY <3>1, <2>3, <1>1, <1>2
  <2>5. ASSUME NEW i \in 1 .. Len(locks'[k]), NEW j \in 1 .. Len(locks'[k]),
               locks'[k][i] = locks'[k][j]
        PROVE  i = j
    <3>1. i + 1 = j + 1
      BY <2>3, <2>5, <1>5
    <3> QED BY <3>1
  <2> QED BY <2>4, <2>5
<1>8. CASE ~(k = KeyOf[h] /\ locks[k] # <<>> /\ Head(locks[k]) = h)
  <2>1. locks'[k] = locks[k]
    BY <1>3, <1>8
  <2>2. \A i \in 1 .. Len(locks[k]) : locks[k][i] # h
    BY <1>5, <1>6, <1>8
  <2>3. \A i \in 1 .. Len(locks[k]) :
           /\ client'[locks'[k][i]]
           /\ PastLock(locks[k][i]) => PastLock(locks[k][i])'
    BY <1>2, <1>5, <2>1, <2>2 DEF PastLock
  <2> QED BY <1>1, <1>5, <2>1, <2>3
<1> QED BY <1>7, <1>8

-----------------------------------------------------------------------------
(* The theorems.                                                           *)

(* PoolInv is inductive: connections are never lost or handed out twice.   *)
LEMMA ConnectionsInvariant == Spec => []PoolInv
<1>1. Init => PoolInv
  <2> SUFFICES ASSUME Init PROVE PoolInv
    OBVIOUS
  <2>1. \A h \in Handlers : Len(Script[h]) \in Nat
    BY ConstantsAssumption
  <2>2. TypeOK
    BY <2>1, ConstantsAssumption DEF Init, TypeOK
  <2>3. WaitsAtStep /\ ClientInTransaction /\ QueueOfWaiters
    BY DEF Init, WaitsAtStep, ClientInTransaction, QueueOfWaiters
  <2>4. Conserved
    <3>1. \A w \in Workers : Clients(w) = {} /\ Running(w) = {} /\ free[w] = PoolSize
      BY DEF Init, Clients, Running
    <3>2. \A w \in Workers : Cardinality(Clients(w)) = 0 /\ Cardinality(Running(w)) = 0
      BY <3>1, FS_EmptySet
    <3> QED BY <3>1, <3>2, ConstantsAssumption DEF Conserved
  <2> QED BY <2>2, <2>3, <2>4 DEF PoolInv
<1>2. PoolInv /\ [Next]_vars => PoolInv'
  <2> SUFFICES ASSUME PoolInv, [Next]_vars PROVE PoolInv'
    OBVIOUS
  <2>1. ASSUME NEW h \in Handlers, Arrive(h) \/ Serve(h) PROVE PoolInv'
    BY <2>1, ArriveKeepsPool, AskKeepsPool, EndQueryKeepsPool, AskLockKeepsPool,
       TakeLockKeepsPool, RunOnClientKeepsPool, ReleaseKeepsPool DEF Serve
  <2>2. ASSUME NEW w \in Workers, Grant(w) PROVE PoolInv'
    BY <2>2, GrantKeepsPool
  <2>3. CASE UNCHANGED vars
    <3>1. QueueOfWaiters' /\ Conserved'
      BY <2>3, QueuesUnchanged, CountsUnchanged DEF vars
    <3> QED BY <2>3, <3>1 DEF vars, PoolInv, TypeOK, WaitsAtStep, ClientInTransaction
  <2> QED BY <2>1, <2>2, <2>3 DEF Next
<1> QED BY <1>1, <1>2, PTL DEF Spec

(* A pool with more connections than its worker opens transactions always  *)
(* has one that comes back by itself: its callers never wait for nobody    *)
(* but each other.  For any workers, routes, keys and pool size.           *)
THEOREM PoolNeverLocksUp == Spec => []SpareConnection
<1>1. PoolInv => SpareConnection
  <2> SUFFICES ASSUME PoolInv, NEW w \in Workers,
                      Cardinality(Transactions(w)) < PoolSize, ~(free[w] > 0)
               PROVE  Running(w) # {}
    BY DEF SpareConnection
  <2>1. Clients(w) \subseteq Transactions(w)
    <3>1. ASSUME NEW h \in Clients(w) PROVE HasTransaction(h)
      <4>1. PICK j \in 1 .. pc[h] - 1 : Script[h][j] = "connect"
        BY <3>1 DEF Clients, PoolInv, ClientInTransaction
      <4>2. pc[h] # 0 /\ h \in Handlers
        BY <4>1, <3>1 DEF Clients, PoolInv, TypeOK
      <4>3. j \in DOMAIN Script[h]
        BY <4>1, <4>2, Place
      <4> QED BY <4>1, <4>3 DEF HasTransaction
    <3> QED BY <3>1 DEF Clients, Transactions
  <2>2. IsFiniteSet(Transactions(w))
    BY FS_Subset, ConstantsAssumption DEF Transactions
  <2>3. Cardinality(Clients(w)) <= Cardinality(Transactions(w))
    BY <2>1, <2>2, FS_Subset
  <2>4. /\ Cardinality(Clients(w)) \in Nat /\ Cardinality(Transactions(w)) \in Nat
        /\ Cardinality(Running(w)) \in Nat /\ PoolSize \in Nat
    BY <2>2, FiniteHandlers, FS_CardinalityType, ConstantsAssumption
  <2>5. free[w] = 0 /\ free[w] + Cardinality(Clients(w)) + Cardinality(Running(w)) = PoolSize
    BY DEF PoolInv, TypeOK, Conserved
  <2>6. Cardinality(Running(w)) # 0
    BY <2>3, <2>4, <2>5
  <2> QED BY <2>6, FS_EmptySet
<1> QED BY <1>1, ConnectionsInvariant, PTL

(* With the lines for the advisory locks it still is: everybody in a       *)
(* key's line is an open transaction, and all but the first wait in their  *)
(* lock statement.  For any workers, routes, keys and pool size.           *)
THEOREM PoolInvariant == Spec => []PoolAndLocksInv
<1>1. Init => LinesOfTransactions
  BY DEF Init, LinesOfTransactions
<1>2. PoolInv /\ LinesOfTransactions /\ [Next]_vars => LinesOfTransactions'
  <2> SUFFICES ASSUME PoolInv, LinesOfTransactions, [Next]_vars
               PROVE  LinesOfTransactions'
    OBVIOUS
  <2>1. ASSUME NEW h \in Handlers, EndQuery(h) \/ RunOnClient(h)
        PROVE  LinesOfTransactions'
    <3>1. pc[h] # 0 /\ Script[h][pc[h]] \in {"query", "client"} /\ state[h] # "locking"
      BY <2>1 DEF EndQuery, RunOnClient, At, PoolInv, WaitsAtStep
    <3>2. /\ Advance(h) \/ Abandon(h)
          /\ UNCHANGED <<client, locks>>
          /\ \A g \in Handlers \ {h} : state'[g] = state[g]
      BY <2>1 DEF EndQuery, RunOnClient, PoolInv, TypeOK
    <3> QED BY <3>1, <3>2, LinesStayWhenOneMoves
  <2>2. ASSUME NEW h \in Handlers, Arrive(h) \/ Serve(h) PROVE LinesOfTransactions'
    BY <2>1, <2>2, ArriveKeepsLines, AskKeepsLines, AskLockKeepsLines,
       TakeLockKeepsLines, ReleaseKeepsLines DEF Serve
  <2>3. ASSUME NEW w \in Workers, Grant(w) PROVE LinesOfTransactions'
    BY <2>3, GrantKeepsLines
  <2>4. CASE UNCHANGED vars
    <3>1. \A g \in Handlers : PastLock(g) => PastLock(g)'
      BY <2>4 DEF PastLock, vars
    <3> QED BY <2>4, <3>1, LinesUnchanged DEF vars
  <2> QED BY <2>2, <2>3, <2>4 DEF Next
<1> QED BY <1>1, <1>2, ConnectionsInvariant, PTL DEF Spec, PoolAndLocksInv

(* An advisory lock is held only by a transaction that is still open: no   *)
(* way out of transaction() leaves the key locked.                         *)
THEOREM KeysFreedByTransactions == Spec => []KeyHeldByOpenTransaction
<1>1. PoolAndLocksInv => KeyHeldByOpenTransaction
  <2> SUFFICES ASSUME PoolInv, LinesOfTransactions, NEW k \in Keys, locks[k] # <<>>
               PROVE  client[Head(locks[k])]
    BY DEF KeyHeldByOpenTransaction, PoolAndLocksInv
  <2>1. locks[k] \in Seq(Handlers)
    BY DEF PoolInv, TypeOK
  <2>2. 1 \in 1 .. Len(locks[k]) /\ Head(locks[k]) = locks[k][1]
    BY <2>1
  <2> QED BY <2>2 DEF LinesOfTransactions
<1> QED BY <1>1, PoolInvariant, PTL

=============================================================================
