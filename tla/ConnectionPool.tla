--------------------------- MODULE ConnectionPool ---------------------------
(***************************************************************************)
(* The connections of RentGo's workers to PostgreSQL.  Every worker of the *)
(* PM2 cluster has one pool of PoolSize connections and a FIFO queue of    *)
(* callers waiting for one.  pool.query holds a connection for one         *)
(* statement; transaction() holds one from BEGIN to COMMIT or ROLLBACK.    *)
(* The transactions of the code call repositories that use pool.query, so  *)
(* they ask for a second connection while they hold the first.             *)
(*                                                                         *)
(* A handler runs a script of steps.  Advisory locks are PostgreSQL's, so  *)
(* they are shared by all workers, and granted in the order of arrival.    *)
(***************************************************************************)
EXTENDS Naturals, Sequences, FiniteSets

CONSTANTS
  Workers,    \* the processes of the cluster
  Handlers,   \* request handlers; each serves one request after the other
  WorkerOf,   \* the worker each handler runs on
  Script,     \* the steps of each handler, a sequence of Steps
  Keys,       \* the advisory lock keys
  KeyOf,      \* the key a handler's transaction locks
  PoolSize    \* pg-pool's max

Steps == {"query",     \* pool.query
          "connect",   \* pool.connect and BEGIN
          "lock",      \* pg_advisory_xact_lock(KeyOf[h]) on the client
          "client",    \* any other statement on the client
          "release"}   \* COMMIT or ROLLBACK, then client.release()

(* A script with a transaction has one, closed by its last step; it runs   *)
(* client statements only inside it, and locks its key at most once.       *)
HasTransaction(h) == \E i \in DOMAIN Script[h] : Script[h][i] = "connect"
WellFormed(s) ==
  \A i \in DOMAIN s :
    /\ s[i] = "release" => i = Len(s)
    /\ s[i] \in {"lock", "client", "release"} => \E j \in 1 .. i - 1 : s[j] = "connect"
    /\ s[i] = "connect" => /\ s[Len(s)] = "release"
                           /\ \A j \in DOMAIN s : s[j] = "connect" => j = i
    /\ s[i] = "lock" => \A j \in DOMAIN s : s[j] = "lock" => j = i

(* The number of transactions a worker can have open at once.              *)
Transactions(w) == {h \in Handlers : WorkerOf[h] = w /\ HasTransaction(h)}

ASSUME ConstantsAssumption ==
  /\ IsFiniteSet(Handlers)
  /\ WorkerOf \in [Handlers -> Workers]
  /\ Script \in [Handlers -> Seq(Steps)]
  /\ \A h \in Handlers : Script[h] # <<>> /\ WellFormed(Script[h])
  /\ KeyOf \in [Handlers -> Keys]
  /\ PoolSize \in Nat \ {0}

VARIABLES
  pc,       \* the step each handler is at, 0 while it serves no request
  state,    \* what the handler waits for
  client,   \* whether the handler holds a transaction's client
  free,     \* the idle connections of each pool
  queue,    \* the callers each pool keeps waiting
  locks     \* the transactions that hold (first) or await each key

vars == <<pc, state, client, free, queue, locks>>

Init ==
  /\ pc = [h \in Handlers |-> 0]
  /\ state = [h \in Handlers |-> "ready"]
  /\ client = [h \in Handlers |-> FALSE]
  /\ free = [w \in Workers |-> PoolSize]
  /\ queue = [w \in Workers |-> <<>>]
  /\ locks = [k \in Keys |-> <<>>]

At(h, step) == pc[h] # 0 /\ state[h] = "ready" /\ Script[h][pc[h]] = step

(* The step after the one at pc, or the end of the request.                *)
Advance(h) == pc' = [pc EXCEPT ![h] = IF @ = Len(Script[h]) THEN 0 ELSE @ + 1]

(* A request arrives for an idle handler.                                  *)
Arrive(h) ==
  /\ pc[h] = 0
  /\ pc' = [pc EXCEPT ![h] = 1]
  /\ UNCHANGED <<state, client, free, queue, locks>>

(* pool.query and pool.connect: the caller joins the queue.                *)
Ask(h) ==
  /\ At(h, "query") \/ At(h, "connect")
  /\ state' = [state EXCEPT ![h] = "waiting"]
  /\ queue' = [queue EXCEPT ![WorkerOf[h]] = Append(@, h)]
  /\ UNCHANGED <<pc, client, free, locks>>

(* The pool hands an idle connection to the first caller.                  *)
Grant(w) ==
  /\ free[w] > 0
  /\ queue[w] # <<>>
  /\ LET h == Head(queue[w]) IN
       \/ /\ Script[h][pc[h]] = "connect"
          /\ client' = [client EXCEPT ![h] = TRUE]
          /\ state' = [state EXCEPT ![h] = "ready"]
          /\ Advance(h)
       \/ /\ Script[h][pc[h]] = "query"
          /\ state' = [state EXCEPT ![h] = "running"]
          /\ UNCHANGED <<pc, client>>
  /\ free' = [free EXCEPT ![w] = @ - 1]
  /\ queue' = [queue EXCEPT ![w] = Tail(@)]
  /\ UNCHANGED locks

(* A throw ends the request, or inside a transaction leads to its ROLLBACK.*)
Abandon(h) == pc' = [pc EXCEPT ![h] = IF client[h] THEN Len(Script[h]) ELSE 0]

(* Mutant: the connection of a failed statement is not given back.         *)
EndQueryLeaking(h) ==
  /\ state[h] = "running"
  /\ state' = [state EXCEPT ![h] = "ready"]
  /\ \/ /\ Advance(h)
        /\ free' = [free EXCEPT ![WorkerOf[h]] = @ + 1]
     \/ Abandon(h) /\ UNCHANGED free
  /\ UNCHANGED <<client, queue, locks>>

(* PostgreSQL answers; the connection goes back whether or not the         *)
(* statement failed.                                                       *)
EndQuery(h) ==
  /\ state[h] = "running"
  /\ state' = [state EXCEPT ![h] = "ready"]
  /\ Advance(h) \/ Abandon(h)
  /\ free' = [free EXCEPT ![WorkerOf[h]] = @ + 1]
  /\ UNCHANGED <<client, queue, locks>>

(* The lock statement queues behind the transactions that hold or await    *)
(* the key, or PostgreSQL rejects it.                                      *)
AskLock(h) ==
  /\ At(h, "lock")
  /\ \/ /\ locks' = [locks EXCEPT ![KeyOf[h]] = Append(@, h)]
        /\ state' = [state EXCEPT ![h] = "locking"]
        /\ UNCHANGED pc
     \/ Abandon(h) /\ UNCHANGED <<state, locks>>
  /\ UNCHANGED <<client, free, queue>>

TakeLock(h) ==
  /\ state[h] = "locking"
  /\ Head(locks[KeyOf[h]]) = h
  /\ state' = [state EXCEPT ![h] = "ready"]
  /\ Advance(h)
  /\ UNCHANGED <<client, free, queue, locks>>

RunOnClient(h) ==
  /\ At(h, "client")
  /\ Advance(h) \/ Abandon(h)
  /\ UNCHANGED <<state, client, free, queue, locks>>

(* Mutant: a session-level lock, which COMMIT and ROLLBACK do not free.     *)
ReleaseKeepsKey(h) ==
  /\ At(h, "release")
  /\ client' = [client EXCEPT ![h] = FALSE]
  /\ free' = [free EXCEPT ![WorkerOf[h]] = @ + 1]
  /\ Advance(h)
  /\ UNCHANGED <<state, queue, locks>>

(* Mutant: transaction() without its finally.                              *)
ReleaseNoFinally(h) ==
  /\ At(h, "release")
  /\ locks' = [locks EXCEPT ![KeyOf[h]] = IF @ # <<>> /\ Head(@) = h THEN Tail(@) ELSE @]
  /\ client' = [client EXCEPT ![h] = FALSE]
  /\ Advance(h)
  /\ UNCHANGED <<state, queue, free>>

(* COMMIT or ROLLBACK frees the key if the transaction got it; release()   *)
(* returns the client.                                                     *)
Release(h) ==
  /\ At(h, "release")
  /\ locks' = [locks EXCEPT ![KeyOf[h]] = IF @ # <<>> /\ Head(@) = h THEN Tail(@) ELSE @]
  /\ client' = [client EXCEPT ![h] = FALSE]
  /\ free' = [free EXCEPT ![WorkerOf[h]] = @ + 1]
  /\ Advance(h)
  /\ UNCHANGED <<state, queue>>

Serve(h) ==
  Ask(h) \/ EndQuery(h) \/ AskLock(h) \/ TakeLock(h) \/ RunOnClient(h) \/ Release(h)

Next ==
  \/ \E h \in Handlers : Arrive(h) \/ Serve(h)
  \/ \E w \in Workers : Grant(w)

Spec == Init /\ [][Next]_vars

(* Node runs every continuation, PostgreSQL answers every statement and    *)
(* grants a lock to the first in line, pg-pool pulses its queue whenever a *)
(* connection is idle.                                                     *)
FairSpec ==
  /\ Spec
  /\ \A h \in Handlers : WF_vars(Serve(h))
  /\ \A w \in Workers : WF_vars(Grant(w))

-----------------------------------------------------------------------------
(* Properties.                                                             *)

(* Every variable keeps its type.                                          *)
TypeOK ==
  /\ pc \in [Handlers -> Nat]
  /\ \A h \in Handlers : pc[h] <= Len(Script[h])
  /\ state \in [Handlers -> {"ready", "waiting", "running", "locking"}]
  /\ client \in [Handlers -> BOOLEAN]
  /\ free \in [Workers -> Nat]
  /\ queue \in [Workers -> Seq(Handlers)]
  /\ locks \in [Keys -> Seq(Handlers)]

Clients(w) == {h \in Handlers : WorkerOf[h] = w /\ client[h]}
Running(w) == {h \in Handlers : WorkerOf[h] = w /\ state[h] = "running"}

(* No connection is lost or handed out twice, whatever statement fails: a  *)
(* pool's connections are idle, held by a transaction or running a query.  *)
Conserved ==
  \A w \in Workers :
     free[w] + Cardinality(Clients(w)) + Cardinality(Running(w)) = PoolSize

(* A pool that can open more connections than its worker opens             *)
(* transactions never has its callers wait for nobody but each other: a    *)
(* connection is idle, or one runs a query and comes back by itself.       *)
SpareConnection ==
  \A w \in Workers :
     /\ Cardinality(Transactions(w)) < PoolSize
     /\ queue[w] # <<>>
     => free[w] > 0 \/ Running(w) # {}

(* An advisory lock is held only by a transaction that is still open: no   *)
(* way out of transaction() leaves the key locked.                         *)
KeyHeldByOpenTransaction ==
  \A k \in Keys : locks[k] # <<>> => client[Head(locks[k])]

(* Every request a worker takes is answered.                               *)
EveryRequestEnds == \A h \in Handlers : pc[h] # 0 ~> pc[h] = 0

-----------------------------------------------------------------------------
(* The inductive invariant behind Conserved and SpareConnection.           *)

(* A handler waits only at the steps that wait.                            *)
WaitsAtStep ==
  \A h \in Handlers :
     /\ state[h] # "ready" => pc[h] # 0
     /\ state[h] = "waiting" => Script[h][pc[h]] \in {"query", "connect"}
     /\ state[h] = "running" => Script[h][pc[h]] = "query"
     /\ state[h] = "locking" => Script[h][pc[h]] = "lock"

(* A handler holds a client exactly between connect and release.           *)
ClientInTransaction ==
  \A h \in Handlers :
     client[h] <=> \E j \in 1 .. pc[h] - 1 : Script[h][j] = "connect"

(* The callers in a pool's queue are handlers of that worker, each once,   *)
(* that wait.                                                              *)
QueueOfWaiters ==
  \A w \in Workers :
     /\ \A i \in 1 .. Len(queue[w]) :
          state[queue[w][i]] = "waiting" /\ WorkerOf[queue[w][i]] = w
     /\ \A i, j \in 1 .. Len(queue[w]) : queue[w][i] = queue[w][j] => i = j

PoolInv ==
  /\ TypeOK
  /\ WaitsAtStep
  /\ ClientInTransaction
  /\ QueueOfWaiters
  /\ Conserved

-----------------------------------------------------------------------------
(* The inductive invariant behind KeyHeldByOpenTransaction, with PoolInv.  *)

(* The handler's script has no lock statement left to run.                 *)
PastLock(h) == \A j \in pc[h] .. Len(Script[h]) : Script[h][j] # "lock"

(* The transactions in line for a key are open ones that lock it, each in  *)
(* line once; all but the first still wait in their lock statement.        *)
LinesOfTransactions ==
  \A k \in Keys :
     /\ \A i \in 1 .. Len(locks[k]) :
          /\ KeyOf[locks[k][i]] = k
          /\ client[locks[k][i]]
          /\ state[locks[k][i]] = "locking" \/ (i = 1 /\ PastLock(locks[k][i]))
     /\ \A i, j \in 1 .. Len(locks[k]) : locks[k][i] = locks[k][j] => i = j

PoolAndLocksInv == PoolInv /\ LinesOfTransactions

=============================================================================
