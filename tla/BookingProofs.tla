--------------------------- MODULE BookingProofs ---------------------------
(***************************************************************************)
(* Proofs about Booking, for every set of cars, users, requests and status *)
(* handlers, every horizon and any number of faults.                       *)
(***************************************************************************)
EXTENDS Booking, TLAPS

USE ConstantsAssumption

-----------------------------------------------------------------------------
(* Facts about the helpers.                                                *)

(* The price of a row is a natural number, its dates being days.           *)
LEMMA RowTotal ==
  ASSUME NEW s \in Days, NEW e \in Days, NEW p \in Prices \cup {0}
  PROVE  DiffDays(s, e) * p \in Nat
<1>1. DiffDays(s, e) \in Nat /\ p \in Nat
  BY DEF DiffDays, Days
<1>2. \A m, n \in Nat : m * n \in Nat
  OBVIOUS
<1> QED BY <1>1, <1>2

(* Overlapping is symmetric.                                               *)
LEMMA OverlapsSymmetric ==
  ASSUME NEW s1 \in Days, NEW e1 \in Days, NEW s2 \in Days, NEW e2 \in Days
  PROVE  Overlaps(s1, e1, s2, e2) <=> Overlaps(s2, e2, s1, e1)
BY DEF Overlaps, Days

(* The row a request inserts is a pending booking of what it asked for.    *)
LEMMA NewRowType ==
  ASSUME TypeOK, NEW r \in Requests
  PROVE  /\ NewRow(r) \in Booking
         /\ NewRow(r).car = ask[r].car
         /\ NewRow(r).start = ask[r].start
         /\ NewRow(r).end = ask[r].end
<1>1. ask[r] \in Ask /\ quote[r] \in Prices \cup {0}
  BY DEF TypeOK
<1>2. /\ ask[r].car \in Cars /\ ask[r].renter \in Users
      /\ ask[r].start \in Days /\ ask[r].end \in Days
  BY <1>1 DEF Ask
<1>3. DiffDays(ask[r].start, ask[r].end) * quote[r] \in Nat
  BY <1>1, <1>2, RowTotal
<1> QED BY <1>2, <1>3 DEF NewRow, Booking, Statuses

(* What a step keeps of a row.                                             *)
SameRow(a) ==
  /\ bookings'[a].car = bookings[a].car /\ bookings'[a].renter = bookings[a].renter
  /\ bookings'[a].start = bookings[a].start /\ bookings'[a].end = bookings[a].end
  /\ bookings'[a].total = bookings[a].total

(* A row whose status is rewritten is still that row.                      *)
LEMMA SetStatusType ==
  ASSUME TypeOK, NEW b \in Requests, NEW s \in Statuses, Stored(b),
         SetStatus(b, s)
  PROVE  /\ bookings' \in [Requests -> Booking \cup {NoBooking}]
         /\ unguarded' \in SUBSET Requests
         /\ bookings' = [bookings EXCEPT ![b] = [bookings[b] EXCEPT !.status = s]]
         /\ bookings'[b] \in Booking
         /\ bookings'[b] = [bookings[b] EXCEPT !.status = s]
         /\ \A a \in Requests : Stored(a)' <=> Stored(a)
         /\ \A a \in Requests : Stored(a) => SameRow(a)
<1>1. bookings[b] \in Booking
  BY DEF TypeOK, Stored
<1>2. [bookings[b] EXCEPT !.status = s] \in Booking
  BY <1>1 DEF Booking
<1>3. bookings' = [bookings EXCEPT ![b] = [bookings[b] EXCEPT !.status = s]]
  BY DEF SetStatus
<1>4. bookings' \in [Requests -> Booking \cup {NoBooking}]
  BY <1>2, <1>3 DEF TypeOK
<1>5. unguarded' \in SUBSET Requests
  BY DEF SetStatus, TypeOK
<1>6. /\ bookings'[b] = [bookings[b] EXCEPT !.status = s]
      /\ \A a \in Requests : a # b => bookings'[a] = bookings[a]
  BY <1>3 DEF TypeOK
<1>7. \A a \in Requests : Stored(a)' <=> Stored(a)
  BY <1>2, <1>6 DEF Stored
<1>8. \A a \in Requests : Stored(a) => SameRow(a)
  BY <1>1, <1>6 DEF Booking, SameRow
<1> QED BY <1>2, <1>3, <1>4, <1>5, <1>6, <1>7, <1>8

-----------------------------------------------------------------------------
(* Type correctness.                                                       *)

LEMMA InitType == Init => TypeOK
<1> SUFFICES ASSUME Init PROVE TypeOK
  OBVIOUS
<1>1. cars \in [Cars -> Car]
  BY DEF Init
<1>2. lock \in [Cars -> SUBSET Requests]
  BY DEF Init
<1>3. /\ bookings \in [Requests -> Booking \cup {NoBooking}]
      /\ \A b \in Requests : ~Stored(b)
  BY DEF Init, Stored
<1>4. /\ ask \in [Requests -> Ask]
      /\ phase \in [Requests -> Phases]
      /\ quote \in [Requests -> Prices \cup {0}]
      /\ code \in [Requests -> {0, 201, 400, 404, 500}]
      /\ update \in [Updaters -> Update \cup {NoUpdate}]
  BY DEF Init, Phases
<1>5. today \in 0 .. LastToday /\ faults \in 0 .. MaxFaults /\ unguarded \in SUBSET Requests
  BY DEF Init
<1> QED BY <1>1, <1>2, <1>3, <1>4, <1>5 DEF TypeOK

(* The steps of a POST.  Insert and OrphanInsert write a row and need its  *)
(* dates to have been tested.                                              *)
LEMMA PostType ==
  ASSUME TypeOK, DatesChecked, NEW r \in Requests, Post(r)
  PROVE  TypeOK'
<1>0. /\ ask[r] \in Ask /\ ask[r].car \in Cars
      /\ cars[ask[r].car] \in Car
  BY DEF TypeOK, Ask
<1>1. CASE Begin(r)
  BY <1>1 DEF Begin, TypeOK, Goto, carVars, Phases, InFlight, Stored
<1>2. CASE AcquireLock(r)
  BY <1>0, <1>2 DEF AcquireLock, TypeOK, Goto, carVars, Phases, InFlight, Stored
<1>3. CASE LockKeyRejected(r)
  BY <1>3 DEF LockKeyRejected, Throw, TypeOK, Goto, carVars, Phases, InFlight, Stored
<1>4. CASE ReadCar(r)
  <2>1. /\ quote' \in [Requests -> Prices \cup {0}]
        /\ code' \in [Requests -> {0, 201, 400, 404, 500}]
        /\ phase' \in [Requests -> Phases]
    BY <1>0, <1>4 DEF ReadCar, Throw, TypeOK, Goto, Phases, InFlight, Car
  <2> QED BY <1>4, <2>1 DEF ReadCar, TypeOK, carVars, Stored
<1>5. CASE CheckOverlap(r)
  BY <1>5 DEF CheckOverlap, Throw, TypeOK, Goto, carVars, Phases, InFlight, Stored
<1>6. CASE Insert(r)
  <2>1. /\ bookings' \in [Requests -> Booking \cup {NoBooking}]
        /\ \A b \in Requests : Stored(b)' => bookings'[b].start < bookings'[b].end
    BY <1>6, NewRowType DEF Insert, TypeOK, DatesChecked, Stored
  <2> QED BY <1>6, <2>1 DEF Insert, TypeOK, Goto, carVars, Phases, InFlight
<1>7. CASE Commit(r)
  BY <1>0, <1>7 DEF Commit, Release, TypeOK, Goto, carVars, Phases, InFlight, Stored
<1>8. CASE Rollback(r)
  BY <1>0, <1>8 DEF Rollback, Release, TypeOK, Goto, carVars, Phases, InFlight, Stored
<1>9. CASE Crash(r)
  BY <1>0, <1>9 DEF Crash, Release, TypeOK, Goto, carVars, Phases, InFlight, Stored
<1>10. CASE OrphanInsert(r)
  <2>1. /\ NewRow(r) \in Booking
        /\ NewRow(r).start < NewRow(r).end
    BY <1>10, NewRowType DEF OrphanInsert, DatesChecked
  <2>2. /\ bookings' \in [Requests -> Booking \cup {NoBooking}]
        /\ unguarded' \in SUBSET Requests
    BY <1>10, <2>1 DEF OrphanInsert, TypeOK
  <2>3. \A b \in Requests : Stored(b)' => bookings'[b].start < bookings'[b].end
    <3>1. CASE UNCHANGED bookings
      BY <3>1 DEF TypeOK, Stored
    <3>2. CASE bookings' = [bookings EXCEPT ![r] = NewRow(r)]
      BY <2>1, <3>2 DEF TypeOK, Stored
    <3> QED BY <1>10, <3>1, <3>2 DEF OrphanInsert
  <2> QED BY <1>10, <2>2, <2>3 DEF OrphanInsert, TypeOK, Goto, carVars, Phases, InFlight
<1>11. CASE CommitLost(r)
  BY <1>0, <1>11 DEF CommitLost, Release, TypeOK, Goto, carVars, Phases, InFlight, Stored
<1> QED BY <1>1, <1>2, <1>3, <1>4, <1>5, <1>6, <1>7, <1>8, <1>9, <1>10, <1>11
        DEF Post, Serve

(* A status write, by a handler or by an admin.                            *)
LEMMA StatusWriteType ==
  ASSUME TypeOK, NEW b \in Requests, NEW s \in Statuses, Stored(b),
         SetStatus(b, s), update' \in [Updaters -> Update \cup {NoUpdate}],
         UNCHANGED <<carVars, lock, createVars, faults>>
  PROVE  TypeOK'
<1>1. /\ bookings' \in [Requests -> Booking \cup {NoBooking}]
      /\ unguarded' \in SUBSET Requests
      /\ \A a \in Requests : Stored(a)' => bookings'[a].start < bookings'[a].end
  BY SetStatusType DEF TypeOK, SameRow
<1> QED BY <1>1 DEF TypeOK, carVars, createVars

LEMMA PatchType ==
  ASSUME TypeOK, HandlersHoldRows, NEW u \in Updaters, Patch(u)
  PROVE  TypeOK'
<1>0. update[u] # NoUpdate => update[u] \in Update
  BY DEF TypeOK
<1>1. CASE ReadForStatus(u)
  <2>1. PICK b \in Requests, caller \in Users, to \in Statuses :
          /\ Stored(b)
          /\ update' = [update EXCEPT ![u] =
               [phase |-> "read", booking |-> b, caller |-> caller, to |-> to,
                seen |-> bookings[b].status]]
    BY <1>1 DEF ReadForStatus
  <2>2. bookings[b].status \in Statuses
    BY <2>1 DEF TypeOK, Stored, Booking
  <2>3. update' \in [Updaters -> Update \cup {NoUpdate}]
    BY <2>1, <2>2 DEF TypeOK, Update
  <2> QED BY <1>1, <2>3 DEF ReadForStatus, TypeOK, carVars, createVars, Stored
<1>2. CASE CheckStatus(u)
  <2>1. [update[u] EXCEPT !.phase = "allowed"] \in Update
    BY <1>0, <1>2 DEF CheckStatus, Update
  <2>2. update' \in [Updaters -> Update \cup {NoUpdate}]
    BY <1>2, <2>1 DEF CheckStatus, TypeOK
  <2> QED BY <1>2, <2>2 DEF CheckStatus, TypeOK, carVars, createVars, Stored
<1>3. CASE WriteStatus(u)
  <2>1. update' \in [Updaters -> Update \cup {NoUpdate}]
    BY <1>3 DEF WriteStatus, TypeOK
  <2>2. update[u].booking \in Requests /\ update[u].to \in Statuses
    BY <1>0, <1>3 DEF WriteStatus, Update
  <2>3. Stored(update[u].booking)
    BY <1>3 DEF WriteStatus, HandlersHoldRows
  <2> QED BY <1>3, <2>1, <2>2, <2>3, StatusWriteType DEF WriteStatus
<1> QED BY <1>1, <1>2, <1>3 DEF Patch

LEMMA CarWriteType ==
  ASSUME TypeOK, NEW c \in Cars, CarWrite(c)
  PROVE  TypeOK'
<1>1. PICK car \in Car : SetCar(c, car)
  <2>0. cars[c] \in Car
    BY DEF TypeOK
  <2>1. ASSUME NEW available \in BOOLEAN, NEW price \in Prices,
               EditCar(c, available, price)
        PROVE  \E car \in Car : SetCar(c, car)
    <3>1. [cars[c] EXCEPT !.available = available, !.price = price] \in Car
      BY <2>0 DEF Car
    <3> QED BY <2>1, <3>1 DEF EditCar
  <2>2. ASSUME DeleteCar(c)
        PROVE  \E car \in Car : SetCar(c, car)
    <3>1. [cars[c] EXCEPT !.deleted = TRUE] \in Car
      BY <2>0 DEF Car
    <3> QED BY <2>2, <3>1 DEF DeleteCar
  <2>3. ASSUME NEW status \in {"approved", "rejected"}, ModerateCar(c, status)
        PROVE  \E car \in Car : SetCar(c, car)
    <3>1. [cars[c] EXCEPT !.status = status] \in Car
      BY <2>0 DEF Car, CarStatuses
    <3> QED BY <2>3, <3>1 DEF ModerateCar
  <2> QED BY <2>1, <2>2, <2>3 DEF CarWrite
<1> QED BY <1>1 DEF SetCar, TypeOK, createVars, Stored

LEMMA NextType ==
  ASSUME TypeOK, DatesChecked, HandlersHoldRows, [Next]_vars
  PROVE  TypeOK'
<1>1. ASSUME NEW r \in Requests, Post(r) PROVE TypeOK'
  BY <1>1, PostType
<1>2. ASSUME NEW u \in Updaters, Patch(u) PROVE TypeOK'
  BY <1>2, PatchType
<1>3. ASSUME NEW b \in Requests, NEW s \in Statuses, AdminSetStatus(b, s)
      PROVE  TypeOK'
  <2>1. update' \in [Updaters -> Update \cup {NoUpdate}]
    BY <1>3 DEF AdminSetStatus, TypeOK
  <2> QED BY <1>3, <2>1, StatusWriteType DEF AdminSetStatus
<1>4. ASSUME NEW c \in Cars, CarWrite(c) PROVE TypeOK'
  BY <1>4, CarWriteType
<1>5. CASE NextDay
  BY <1>5 DEF NextDay, TypeOK, createVars, Stored
<1>6. CASE UNCHANGED vars
  BY <1>6 DEF vars, TypeOK, Stored
<1> QED BY <1>1, <1>2, <1>3, <1>4, <1>5, <1>6 DEF Next

-----------------------------------------------------------------------------
(* What a step can do to the locks and phases, and to the rows.            *)

(* Only a POST moves a lock or a phase; nothing changes what was asked.    *)
LEMMA LockStep ==
  ASSUME [Next]_vars
  PROVE  /\ ask' = ask
         /\ \/ UNCHANGED <<lock, phase>>
            \/ \E r \in Requests : Post(r)
<1>1. ASSUME NEW r \in Requests, Post(r) PROVE ask' = ask
  BY <1>1 DEF Post, Serve, Begin, AcquireLock, LockKeyRejected, ReadCar,
              CheckOverlap, Insert, Commit, Rollback, Crash, OrphanInsert,
              CommitLost
<1>2. ASSUME NEW u \in Updaters, Patch(u) PROVE UNCHANGED <<ask, lock, phase>>
  BY <1>2 DEF Patch, ReadForStatus, CheckStatus, WriteStatus, createVars
<1>3. ASSUME NEW b \in Requests, NEW s \in Statuses, AdminSetStatus(b, s)
      PROVE  UNCHANGED <<ask, lock, phase>>
  BY <1>3 DEF AdminSetStatus, createVars
<1>4. ASSUME NEW c \in Cars, CarWrite(c) PROVE UNCHANGED <<ask, lock, phase>>
  BY <1>4 DEF CarWrite, EditCar, DeleteCar, ModerateCar, SetCar, createVars
<1>5. NextDay => UNCHANGED <<ask, lock, phase>>
  BY DEF NextDay, createVars
<1>6. UNCHANGED vars => UNCHANGED <<ask, lock, phase>>
  BY DEF vars
<1> QED BY <1>1, <1>2, <1>3, <1>4, <1>5, <1>6 DEF Next

(* A row is inserted by its request or gets a new status; nothing else     *)
(* touches the table.                                                      *)
LEMMA RowStep ==
  ASSUME TypeOK, HandlersHoldRows, [Next]_vars
  PROVE  \/ UNCHANGED <<bookings, unguarded>>
         \/ \E r \in Requests : Insert(r)
         \/ \E r \in Requests :
              /\ OrphanInsert(r)
              /\ bookings' = [bookings EXCEPT ![r] = NewRow(r)]
              /\ unguarded' = unguarded \cup {r}
         \/ \E b \in Requests, s \in Statuses :
              /\ Stored(b)
              /\ SetStatus(b, s)
              /\ UNCHANGED <<lock, phase>>
<1>1. ASSUME NEW r \in Requests, Post(r)
      PROVE  \/ UNCHANGED <<bookings, unguarded>>
             \/ Insert(r)
             \/ /\ OrphanInsert(r)
                /\ bookings' = [bookings EXCEPT ![r] = NewRow(r)]
                /\ unguarded' = unguarded \cup {r}
  BY <1>1 DEF Post, Serve, Begin, AcquireLock, LockKeyRejected, ReadCar,
              CheckOverlap, Commit, Rollback, Crash, OrphanInsert, CommitLost
<1>2. ASSUME NEW u \in Updaters, Patch(u)
      PROVE  \/ UNCHANGED <<bookings, unguarded>>
             \/ \E b \in Requests, s \in Statuses :
                  /\ Stored(b)
                  /\ SetStatus(b, s)
                  /\ UNCHANGED <<lock, phase>>
  <2>1. CASE ReadForStatus(u) \/ CheckStatus(u)
    BY <2>1 DEF ReadForStatus, CheckStatus
  <2>2. CASE WriteStatus(u)
    <3>1. update[u] \in Update /\ Stored(update[u].booking)
      BY <2>2 DEF WriteStatus, TypeOK, HandlersHoldRows
    <3>2. update[u].booking \in Requests /\ update[u].to \in Statuses
      BY <3>1 DEF Update
    <3> QED BY <2>2, <3>1, <3>2 DEF WriteStatus, createVars
  <2> QED BY <1>2, <2>1, <2>2 DEF Patch
<1>3. ASSUME NEW b \in Requests, NEW s \in Statuses, AdminSetStatus(b, s)
      PROVE  Stored(b) /\ SetStatus(b, s) /\ UNCHANGED <<lock, phase>>
  BY <1>3 DEF AdminSetStatus, createVars
<1>4. ASSUME NEW c \in Cars, CarWrite(c) PROVE UNCHANGED <<bookings, unguarded>>
  BY <1>4 DEF CarWrite, EditCar, DeleteCar, ModerateCar, SetCar
<1>5. NextDay => UNCHANGED <<bookings, unguarded>>
  BY DEF NextDay
<1>6. UNCHANGED vars => UNCHANGED <<bookings, unguarded>>
  BY DEF vars
<1> QED BY <1>1, <1>2, <1>3, <1>4, <1>5, <1>6 DEF Next

-----------------------------------------------------------------------------
(* The lock: who holds it, and that it does not leak.                      *)

LEMMA LockInvariant ==
  ASSUME TypeOK, LockCoversWindow, NoLeakedLock, [Next]_vars
  PROVE  LockCoversWindow' /\ NoLeakedLock'
<1>0. ask' = ask
  BY LockStep
<1>1. CASE UNCHANGED <<lock, phase>>
  BY <1>0, <1>1 DEF LockCoversWindow, NoLeakedLock
<1>2. ASSUME NEW r \in Requests, Post(r)
      PROVE  LockCoversWindow' /\ NoLeakedLock'
  <2>0. /\ \A q \in Requests : ask[q].car \in Cars
        /\ phase \in [Requests -> Phases]
        /\ lock \in [Cars -> SUBSET Requests]
    BY DEF TypeOK, Ask
  <2>1. CASE AcquireLock(r)
    BY <1>0, <2>0, <2>1 DEF AcquireLock, Goto, LockCoversWindow, NoLeakedLock,
                            Holding, InFlight
  <2>2. CASE Commit(r) \/ Rollback(r) \/ Crash(r) \/ CommitLost(r)
    <3>1. /\ lock' = [lock EXCEPT ![ask[r].car] = @ \ {r}]
          /\ phase'[r] \in {"done", "orphan", "crashed"}
          /\ \A q \in Requests : q # r => phase'[q] = phase[q]
      BY <2>0, <2>2 DEF Commit, Rollback, Crash, CommitLost, Release, Goto
    <3>2. LockCoversWindow'
      BY <1>0, <2>0, <3>1 DEF LockCoversWindow, Holding
    <3>3. NoLeakedLock'
      <4> SUFFICES ASSUME NEW c \in Cars, NEW q \in lock'[c]
                   PROVE  phase'[q] \in InFlight /\ ask[q].car = c
        BY <1>0 DEF NoLeakedLock
      <4>1. q \in lock[c] /\ ask[q].car = c
        BY <2>0, <3>1 DEF NoLeakedLock
      <4>2. q # r
        BY <2>0, <3>1, <4>1
      <4> QED BY <2>0, <3>1, <4>1, <4>2 DEF NoLeakedLock
    <3> QED BY <3>2, <3>3
  <2>3. CASE OrphanInsert(r)
    BY <1>0, <2>0, <2>3 DEF OrphanInsert, Goto, LockCoversWindow, NoLeakedLock,
                            Holding, InFlight
  <2>4. CASE \/ Begin(r) \/ LockKeyRejected(r) \/ ReadCar(r)
             \/ CheckOverlap(r) \/ Insert(r)
    <3>1. /\ lock' = lock
          /\ phase'[r] \in InFlight
          /\ phase'[r] \in Holding => phase[r] \in Holding
          /\ \A q \in Requests : q # r => phase'[q] = phase[q]
      BY <2>0, <2>4 DEF Begin, LockKeyRejected, ReadCar, CheckOverlap, Insert,
                        Throw, Goto, InFlight, Holding
    <3> QED BY <1>0, <2>0, <3>1 DEF LockCoversWindow, NoLeakedLock
  <2> QED BY <1>2, <2>1, <2>2, <2>3, <2>4 DEF Post, Serve
<1> QED BY <1>1, <1>2, LockStep

-----------------------------------------------------------------------------
(* Rows and phases.                                                        *)

LEMMA DatesInvariant ==
  ASSUME TypeOK, DatesChecked, [Next]_vars
  PROVE  DatesChecked'
<1>0. ask' = ask
  BY LockStep
<1>1. CASE UNCHANGED <<lock, phase>>
  BY <1>0, <1>1 DEF DatesChecked
<1>2. ASSUME NEW r \in Requests, Post(r) PROVE DatesChecked'
  <2>1. phase \in [Requests -> Phases]
    BY DEF TypeOK
  <2>2. /\ phase'[r] \in {"quoted", "inserting", "orphan"} => ask[r].start < ask[r].end
        /\ \A q \in Requests : q # r => phase'[q] = phase[q]
    BY <1>2, <2>1 DEF Post, Serve, Begin, AcquireLock, LockKeyRejected, ReadCar,
       CheckOverlap, Insert, Commit, Rollback, Crash, OrphanInsert, CommitLost,
       Throw, Goto, DatesChecked
  <2> QED BY <1>0, <2>2 DEF DatesChecked
<1> QED BY <1>1, <1>2, LockStep

(* Rows stay: a step keeps every row but for its status.                   *)
LEMMA RowsStay ==
  ASSUME TypeOK, RowWhenInserted, HandlersHoldRows, [Next]_vars,
         NEW b \in Requests, Stored(b)
  PROVE  Stored(b)' /\ SameRow(b)
<1>1. CASE UNCHANGED <<bookings, unguarded>>
  BY <1>1 DEF Stored, SameRow
<1>2. ASSUME NEW r \in Requests, bookings' = [bookings EXCEPT ![r] = NewRow(r)],
             phase[r] \in {"inserting", "orphan"}
      PROVE  Stored(b)' /\ bookings'[b] = bookings[b]
  <2>1. ~Stored(r)
    BY <1>2 DEF RowWhenInserted
  <2> QED BY <1>2, <2>1 DEF Stored
<1>3. ASSUME NEW r \in Requests, NEW s \in Statuses, Stored(r), SetStatus(r, s)
      PROVE  Stored(b)' /\ SameRow(b)
  BY <1>3, SetStatusType
<1> QED BY <1>1, <1>2, <1>3, RowStep DEF Insert, OrphanInsert, SameRow

(* The price of a row was read before the row was there.                   *)
LEMMA QuoteStays ==
  ASSUME TypeOK, RowWhenInserted, [Next]_vars, NEW r \in Requests,
         Stored(r) \/ phase[r] # "locked"
  PROVE  quote'[r] = quote[r]
<1>0. phase[r] # "locked" /\ quote \in [Requests -> Prices \cup {0}]
  BY DEF RowWhenInserted, TypeOK
<1>1. ASSUME NEW q \in Requests, Post(q) PROVE quote'[r] = quote[r]
  <2>1. CASE ReadCar(q)
    <3>1. q # r
      BY <1>0, <2>1 DEF ReadCar
    <3> QED BY <1>0, <2>1, <3>1 DEF ReadCar
  <2>2. CASE ~ReadCar(q)
    BY <1>1, <2>2 DEF Post, Serve, Begin, AcquireLock, LockKeyRejected, CheckOverlap, Insert,
       Commit, Rollback, Crash, OrphanInsert, CommitLost
  <2> QED BY <2>1, <2>2
<1>2. ASSUME ~\E q \in Requests : Post(q) PROVE quote' = quote
  BY <1>2 DEF Next, vars, createVars, Patch, ReadForStatus, CheckStatus, WriteStatus,
     AdminSetStatus, CarWrite, EditCar, DeleteCar, ModerateCar, SetCar, NextDay
<1> QED BY <1>1, <1>2

LEMMA HandlersInvariant ==
  ASSUME TypeOK, RowWhenInserted, HandlersHoldRows, [Next]_vars
  PROVE  HandlersHoldRows'
<1> SUFFICES ASSUME NEW u \in Updaters, update'[u] # NoUpdate
             PROVE  bookings'[update'[u].booking] # NoBooking
  BY DEF HandlersHoldRows, Stored
<1>0. update \in [Updaters -> Update \cup {NoUpdate}]
  BY DEF TypeOK
<1>1. CASE update'[u] = update[u]
  <2>1. Stored(update[u].booking) /\ update[u].booking \in Requests
    BY <1>0, <1>1 DEF HandlersHoldRows, Update
  <2> QED BY <1>1, <2>1, RowsStay DEF Stored
<1>2. ASSUME NEW v \in Updaters, Patch(v), update'[u] # update[u]
      PROVE  bookings'[update'[u].booking] # NoBooking
  <2>1. v = u
    BY <1>0, <1>2 DEF Patch, ReadForStatus, CheckStatus, WriteStatus
  <2>2. CASE ReadForStatus(u)
    <3>1. PICK b \in Requests, caller \in Users, to \in Statuses :
            /\ Stored(b)
            /\ update' = [update EXCEPT ![u] =
                 [phase |-> "read", booking |-> b, caller |-> caller, to |-> to,
                  seen |-> bookings[b].status]]
      BY <2>2 DEF ReadForStatus
    <3>2. update'[u].booking = b
      BY <1>0, <3>1
    <3> QED BY <3>1, <3>2, RowsStay DEF Stored
  <2>3. CASE CheckStatus(u)
    <3>1. update[u] \in Update /\ Stored(update[u].booking)
      BY <1>0, <2>3 DEF CheckStatus, HandlersHoldRows
    <3>2. update'[u] = [update[u] EXCEPT !.phase = "allowed"]
      BY <1>0, <2>3 DEF CheckStatus
    <3>3. update'[u].booking = update[u].booking /\ update[u].booking \in Requests
      BY <3>1, <3>2 DEF Update
    <3> QED BY <3>1, <3>3, RowsStay DEF Stored
  <2>4. CASE WriteStatus(u)
    BY <1>0, <2>4 DEF WriteStatus
  <2> QED BY <1>2, <2>1, <2>2, <2>3, <2>4 DEF Patch
<1>3. CASE ~\E v \in Updaters : Patch(v)
  <2>1. update' = update
    BY <1>3 DEF Next, vars, Post, Serve, Begin, AcquireLock, LockKeyRejected,
       ReadCar, CheckOverlap, Insert, Commit, Rollback, Crash, OrphanInsert,
       CommitLost, AdminSetStatus, CarWrite, EditCar, DeleteCar, ModerateCar,
       SetCar, NextDay
  <2> QED BY <1>1, <2>1
<1> QED BY <1>1, <1>2, <1>3

LEMMA RowInvariant ==
  ASSUME TypeOK, RowWhenInserted, HandlersHoldRows, [Next]_vars
  PROVE  RowWhenInserted'
<1>0. /\ ask' = ask
      /\ phase \in [Requests -> Phases]
      /\ bookings \in [Requests -> Booking \cup {NoBooking}]
  BY LockStep DEF TypeOK
<1> DEFINE Early == {"idle", "waiting", "locked", "quoted", "inserting",
                     "rollback", "orphan"}
<1> SUFFICES ASSUME NEW r \in Requests
             PROVE  /\ phase'[r] \in Early => ~Stored(r)'
                    /\ phase'[r] = "inserted" => Stored(r)'
                    /\ Stored(r)' => AsAsked(r)'
  BY DEF RowWhenInserted
<1>1. CASE Insert(r) \/ (OrphanInsert(r) /\ bookings' = [bookings EXCEPT ![r] = NewRow(r)])
  <2>1. /\ bookings'[r] = NewRow(r)
        /\ phase'[r] \in {"inserted", "crashed"}
    BY <1>0, <1>1 DEF Insert, OrphanInsert, Goto
  <2>2. quote'[r] = quote[r]
    BY <1>1, QuoteStays DEF Insert, OrphanInsert
  <2>3. Stored(r)' /\ AsAsked(r)'
    BY <1>0, <2>1, <2>2, NewRowType DEF Stored, AsAsked, NewRow
  <2> QED BY <2>1, <2>3
<1>2. CASE ~(Insert(r) \/ (OrphanInsert(r) /\ bookings' = [bookings EXCEPT ![r] = NewRow(r)]))
  <2>1. (Stored(r)' <=> Stored(r)) /\ (Stored(r) => AsAsked(r)')
    <3>1. CASE Stored(r)
      BY <1>0, <3>1, RowsStay, QuoteStays DEF RowWhenInserted, SameRow, AsAsked
    <3>2. CASE ~Stored(r)
      <4>1. ASSUME NEW q \in Requests, NEW s \in Statuses, Stored(q), SetStatus(q, s)
            PROVE  ~Stored(r)'
        BY <3>2, <4>1, SetStatusType
      <4>2. ASSUME NEW q \in Requests, q # r, bookings' = [bookings EXCEPT ![q] = NewRow(q)]
            PROVE  ~Stored(r)'
        BY <1>0, <3>2, <4>2 DEF Stored
      <4>3. CASE UNCHANGED bookings
        BY <3>2, <4>3 DEF Stored
      <4> QED BY <1>2, <3>2, <4>1, <4>2, <4>3, RowStep DEF Insert
    <3> QED BY <3>1, <3>2
  <2>2. (phase'[r] \in Early => phase[r] \in Early) /\ (phase'[r] = "inserted" => phase[r] = "inserted")
    <3>1. ASSUME NEW q \in Requests, Post(q), q # r PROVE phase'[r] = phase[r]
      BY <1>0, <3>1 DEF Post, Serve, Begin, AcquireLock, LockKeyRejected, ReadCar,
         CheckOverlap, Insert, Commit, Rollback, Crash, OrphanInsert, CommitLost,
         Throw, Goto
    <3>2. ASSUME Post(r)
          PROVE  /\ phase'[r] \in Early => phase[r] \in Early
                 /\ phase'[r] = "inserted" => phase[r] = "inserted"
      BY <1>0, <1>2, <3>2 DEF Post, Serve, Begin, AcquireLock, LockKeyRejected, ReadCar,
         CheckOverlap, Commit, Rollback, Crash, OrphanInsert, CommitLost,
         Throw, Goto, Early
    <3> QED BY <3>1, <3>2, LockStep
  <2> QED BY <1>0, <2>1, <2>2 DEF RowWhenInserted
<1> QED BY <1>1, <1>2

-----------------------------------------------------------------------------
(* The two conjuncts the advisory lock is for.                             *)

(* Which bookings a step can newly make active: the row an Insert writes,  *)
(* which was not active; everything else that becomes active is unguarded. *)
LEMMA NewlyActive ==
  ASSUME TypeOK, RowWhenInserted, HandlersHoldRows, [Next]_vars
  PROVE  /\ unguarded \subseteq unguarded'
         /\ \A b \in Requests :
              Active(b)' => Active(b) \/ Insert(b) \/ b \in unguarded'
<1>0. bookings \in [Requests -> Booking \cup {NoBooking}]
  BY DEF TypeOK
<1>1. CASE UNCHANGED <<bookings, unguarded>>
  BY <1>1 DEF Active, Stored
<1>2. ASSUME NEW r \in Requests, Insert(r)
      PROVE  /\ unguarded' = unguarded
             /\ \A b \in Requests : b # r => bookings'[b] = bookings[b]
  BY <1>0, <1>2 DEF Insert
<1>3. ASSUME NEW r \in Requests, bookings' = [bookings EXCEPT ![r] = NewRow(r)],
             unguarded' = unguarded \cup {r}
      PROVE  \A b \in Requests : b # r => bookings'[b] = bookings[b]
  BY <1>0, <1>3
<1>4. ASSUME NEW r \in Requests, NEW s \in Statuses, Stored(r), SetStatus(r, s)
      PROVE  /\ unguarded \subseteq unguarded'
             /\ \A b \in Requests : Active(b)' => Active(b) \/ b \in unguarded'
  <2>1. \A b \in Requests : b # r => bookings'[b] = bookings[b]
    BY <1>0, <1>4 DEF SetStatus
  <2>2. bookings'[r].status = s
    <3>1. bookings[r] \in Booking
      BY <1>0, <1>4 DEF Stored
    <3>2. bookings'[r] = [bookings[r] EXCEPT !.status = s]
      BY <1>4, SetStatusType
    <3> QED BY <3>1, <3>2 DEF Booking
  <2>3. Active(r)' => s \in ActiveStatuses
    BY <2>2 DEF Active
  <2>4. unguarded \subseteq unguarded' /\ (s \in ActiveStatuses => Active(r) \/ r \in unguarded')
    BY <1>4 DEF SetStatus
  <2> QED BY <2>1, <2>3, <2>4 DEF Active, Stored
<1> QED BY <1>1, <1>2, <1>3, <1>4, RowStep DEF Active, Stored

(* The overlap query of a request that holds the lock stays valid: a       *)
(* guarded booking that becomes active is an Insert, whose request would   *)
(* hold the same lock.                                                     *)
LEMMA CheckInvariant ==
  ASSUME TypeOK, LockCoversWindow, RowWhenInserted, HandlersHoldRows,
         CheckStillValid, [Next]_vars
  PROVE  CheckStillValid'
<1>0. /\ ask' = ask
      /\ phase \in [Requests -> Phases]
      /\ bookings \in [Requests -> Booking \cup {NoBooking}]
  BY LockStep DEF TypeOK
<1> SUFFICES ASSUME NEW r \in Requests, phase'[r] = "inserting",
                    NEW b \in Requests, b \in Conflicts(r)'
             PROVE  b \in unguarded'
  BY DEF CheckStillValid, Conflicts
<1>1. /\ Active(b)'
      /\ bookings'[b].car = ask[r].car
      /\ Overlaps(bookings'[b].start, bookings'[b].end, ask[r].start, ask[r].end)
  BY <1>0 DEF Conflicts
<1>2. CASE phase[r] = "inserting"
  <2>1. CASE Active(b)
    <3>1. /\ bookings'[b].car = bookings[b].car
          /\ bookings'[b].start = bookings[b].start
          /\ bookings'[b].end = bookings[b].end
      BY <2>1, RowsStay DEF Active, SameRow
    <3>2. b \in Conflicts(r)
      BY <1>1, <2>1, <3>1 DEF Conflicts
    <3> QED BY <1>2, <3>2, NewlyActive DEF CheckStillValid
  <2>2. CASE Insert(b)
    <3>1. bookings'[b].car = ask[b].car
      BY <1>0, <2>2, NewRowType DEF Insert
    <3>2. lock[ask[r].car] = {r} /\ lock[ask[r].car] = {b}
      BY <1>1, <1>2, <2>2, <3>1 DEF LockCoversWindow, Holding, Insert
    <3>3. b = r /\ phase'[r] = "inserted"
      BY <1>0, <2>2, <3>2 DEF Insert, Goto
    <3> QED BY <3>3
  <2> QED BY <1>1, <2>1, <2>2, NewlyActive
<1>3. CASE phase[r] # "inserting"
  <2>1. CheckOverlap(r) /\ Conflicts(r) = {}
    <3>1. ASSUME NEW q \in Requests, Post(q) PROVE CheckOverlap(r) /\ Conflicts(r) = {}
      <4>1. q = r
        BY <1>0, <1>3, <3>1 DEF Post, Serve, Begin, AcquireLock, LockKeyRejected,
           ReadCar, CheckOverlap, Insert, Commit, Rollback, Crash, OrphanInsert,
           CommitLost, Throw, Goto
      <4> QED BY <1>0, <1>3, <3>1, <4>1 DEF Post, Serve, Begin, AcquireLock, LockKeyRejected,
           ReadCar, CheckOverlap, Insert, Commit, Rollback, Crash, OrphanInsert,
           CommitLost, Throw, Goto
    <3> QED BY <1>0, <1>3, <3>1, LockStep
  <2>2. bookings' = bookings
    BY <2>1 DEF CheckOverlap
  <2>3. b \in Conflicts(r)
    BY <1>1, <2>2 DEF Conflicts, Active, Stored
  <2> QED BY <2>1, <2>3
<1> QED BY <1>2, <1>3

(* The row an Insert writes collides with no guarded booking.              *)
LEMMA InsertCollides ==
  ASSUME TypeOK, RowWhenInserted, CheckStillValid,
         NEW r \in Requests, Insert(r),
         NEW b \in Requests, b # r, Collide(r, b)'
  PROVE  b \in unguarded
<1>1. /\ bookings'[r] = NewRow(r)
      /\ bookings'[b] = bookings[b]
  BY DEF Insert, TypeOK
<1>2. Active(b)
  BY <1>1 DEF Collide, Active, Stored
<1>3. /\ bookings[b].car = ask[r].car
      /\ Overlaps(ask[r].start, ask[r].end, bookings[b].start, bookings[b].end)
  BY <1>1, NewRowType DEF Collide
<1>4. /\ bookings[b].start \in Days /\ bookings[b].end \in Days
      /\ ask[r].start \in Days /\ ask[r].end \in Days
  BY <1>2 DEF TypeOK, Active, Stored, Booking, Ask
<1>5. b \in Conflicts(r)
  BY <1>2, <1>3, <1>4, OverlapsSymmetric DEF Conflicts
<1> QED BY <1>5 DEF CheckStillValid, Insert

LEMMA GuardedInvariant ==
  ASSUME TypeOK, TypeOK', RowWhenInserted, HandlersHoldRows, CheckStillValid,
         GuardedNoDoubleBooking, [Next]_vars
  PROVE  GuardedNoDoubleBooking'
<1> SUFFICES ASSUME NEW a \in Requests, NEW b \in Requests, a # b, Collide(a, b)'
             PROVE  a \in unguarded' \/ b \in unguarded'
  BY DEF GuardedNoDoubleBooking
<1>1. Collide(b, a)'
  <2>1. /\ bookings'[a].start \in Days /\ bookings'[a].end \in Days
        /\ bookings'[b].start \in Days /\ bookings'[b].end \in Days
    BY DEF Collide, TypeOK, Active, Stored, Booking
  <2> QED BY <2>1, OverlapsSymmetric DEF Collide
<1>2. CASE Insert(a)
  BY <1>2, InsertCollides, NewlyActive
<1>3. CASE Insert(b)
  BY <1>1, <1>3, InsertCollides, NewlyActive
<1>4. CASE Active(a) /\ Active(b)
  <2>1. /\ bookings'[a].car = bookings[a].car
        /\ bookings'[a].start = bookings[a].start
        /\ bookings'[a].end = bookings[a].end
    BY <1>4, RowsStay DEF Active, SameRow
  <2>2. /\ bookings'[b].car = bookings[b].car
        /\ bookings'[b].start = bookings[b].start
        /\ bookings'[b].end = bookings[b].end
    BY <1>4, RowsStay DEF Active, SameRow
  <2>3. Collide(a, b)
    BY <1>4, <2>1, <2>2 DEF Collide
  <2> QED BY <2>3, NewlyActive DEF GuardedNoDoubleBooking
<1> QED BY <1>2, <1>3, <1>4, NewlyActive DEF Collide

-----------------------------------------------------------------------------
(* Answers, and a single writer of statuses.                               *)

(* A POST changes its own row, phase and answer; nothing else changes a    *)
(* phase, an answer or which rows there are.                               *)
LEMMA AnswerStep ==
  ASSUME TypeOK, HandlersHoldRows, [Next]_vars
  PROVE  \/ /\ UNCHANGED <<phase, code, faults>>
            /\ \A q \in Requests : Stored(q)' <=> Stored(q)
         \/ \E r \in Requests :
              /\ Post(r)
              /\ \A q \in Requests : q # r =>
                   /\ phase'[q] = phase[q] /\ code'[q] = code[q]
                   /\ bookings'[q] = bookings[q]
<1>1. ASSUME NEW r \in Requests, Post(r), NEW q \in Requests, q # r
      PROVE  phase'[q] = phase[q] /\ code'[q] = code[q] /\ bookings'[q] = bookings[q]
  BY <1>1 DEF TypeOK, Post, Serve, Begin, AcquireLock, LockKeyRejected, ReadCar,
     CheckOverlap, Insert, Commit, Rollback, Crash, OrphanInsert, CommitLost,
     Throw, Goto
<1>2. CASE ~\E r \in Requests : Post(r)
  <2>1. UNCHANGED <<phase, code, faults>>
    BY <1>2 DEF Next, vars, Patch, ReadForStatus, CheckStatus, WriteStatus,
       AdminSetStatus, CarWrite, EditCar, DeleteCar, ModerateCar, SetCar, NextDay,
       createVars
  <2>2. ASSUME NEW b \in Requests, NEW s \in Statuses, Stored(b), SetStatus(b, s),
               NEW q \in Requests
        PROVE  Stored(q)' <=> Stored(q)
    BY <2>2, SetStatusType
  <2>3. ~\E r \in Requests : Insert(r) \/ OrphanInsert(r)
    BY <1>2 DEF Post, Serve
  <2>4. \A q \in Requests : Stored(q)' <=> Stored(q)
    BY <2>2, <2>3, RowStep DEF Stored
  <2> QED BY <2>1, <2>4
<1> QED BY <1>1, <1>2

LEMMA AnswersInvariant ==
  ASSUME TypeOK, RowWhenInserted, HandlersHoldRows, AnswersKept, [Next]_vars
  PROVE  AnswersKept'
<1>1. CASE /\ UNCHANGED <<phase, code, faults>>
           /\ \A q \in Requests : Stored(q)' <=> Stored(q)
  BY <1>1 DEF AnswersKept
<1>2. ASSUME NEW r \in Requests, Post(r),
             \A q \in Requests : q # r =>
               /\ phase'[q] = phase[q] /\ code'[q] = code[q]
               /\ bookings'[q] = bookings[q]
      PROVE  AnswersKept'
  <2>1. faults' = 0 => faults = 0
    BY <1>2 DEF TypeOK, Post, Serve, Begin, AcquireLock, LockKeyRejected, ReadCar,
       CheckOverlap, Insert, Commit, Rollback, Crash, OrphanInsert, CommitLost
  <2>2. \A q \in Requests : q # r =>
          /\ phase'[q] = "rollback" => code'[q] # 201
          /\ phase'[q] = "done" /\ code'[q] = 201 => Stored(q)'
          /\ faults' = 0 => /\ phase'[q] = "done" /\ Stored(q)' => code'[q] = 201
                            /\ phase'[q] # "orphan"
    BY <1>2, <2>1 DEF AnswersKept, Stored
  <2>3. /\ phase'[r] = "rollback" => code'[r] # 201
        /\ phase'[r] = "done" /\ code'[r] = 201 => Stored(r)'
        /\ faults' = 0 => /\ phase'[r] = "done" /\ Stored(r)' => code'[r] = 201
                          /\ phase'[r] # "orphan"
    <3>0. /\ phase \in [Requests -> Phases] /\ faults \in Nat
          /\ code \in [Requests -> {0, 201, 400, 404, 500}]
      BY ConstantsAssumption DEF TypeOK
    <3>1. CASE Begin(r) \/ AcquireLock(r) \/ Insert(r)
      BY <3>0, <3>1 DEF Begin, AcquireLock, Insert, Goto
    <3>2. CASE LockKeyRejected(r) \/ ReadCar(r) \/ CheckOverlap(r)
      BY <3>0, <3>2 DEF LockKeyRejected, ReadCar, CheckOverlap, Throw, Goto
    <3>3. CASE Commit(r)
      BY <3>0, <3>3 DEF Commit, Goto, RowWhenInserted, Stored
    <3>4. CASE Rollback(r)
      BY <3>0, <3>4 DEF Rollback, Goto, RowWhenInserted, AnswersKept, Stored
    <3>5. CASE Crash(r) \/ CommitLost(r)
      BY <3>0, <3>5 DEF Crash, CommitLost, Goto
    <3>6. CASE OrphanInsert(r)
      BY <3>0, <3>6 DEF OrphanInsert, Goto
    <3> QED BY <1>2, <3>1, <3>2, <3>3, <3>4, <3>5, <3>6 DEF Post, Serve
  <2> QED BY <2>2, <2>3 DEF AnswersKept
<1> QED BY <1>1, <1>2, AnswerStep

(* The table of transitions revives no booking.                            *)
LEMMA AllowedFromActive ==
  ASSUME NEW row, NEW caller, NEW from, NEW to, MayMove(row, caller, from, to)
  PROVE  from \in ActiveStatuses
BY DEF MayMove, Allowed, ActiveStatuses

(* The row a handler holds keeps the status it has read.                   *)
LEMMA SeenInvariant ==
  ASSUME TypeOK, RowWhenInserted, HandlersHoldRows, AnswersKept, SeenIsCurrent, [Next]_vars
  PROVE  SeenIsCurrent'
<1> SUFFICES ASSUME SingleWriter
             PROVE  /\ \A u \in Updaters : update'[u] # NoUpdate =>
                         /\ bookings'[update'[u].booking].status = update'[u].seen
                         /\ update'[u].phase = "allowed" =>
                              MayMove(bookings'[update'[u].booking], update'[u].caller,
                                      update'[u].seen, update'[u].to)
                    /\ faults' = 0 => unguarded' = {}
  BY DEF SeenIsCurrent, SingleWriter
<1>0. /\ update \in [Updaters -> Update \cup {NoUpdate}]
      /\ bookings \in [Requests -> Booking \cup {NoBooking}]
      /\ faults \in Nat
  BY ConstantsAssumption DEF TypeOK
<1>a. /\ \A u \in Updaters : update[u] # NoUpdate =>
           /\ bookings[update[u].booking].status = update[u].seen
           /\ update[u].phase = "allowed" =>
                MayMove(bookings[update[u].booking], update[u].caller,
                        update[u].seen, update[u].to)
      /\ faults = 0 => unguarded = {}
  BY DEF SeenIsCurrent
<1>b. \A u \in Updaters : update[u] # NoUpdate =>
        /\ update[u] \in Update /\ Stored(update[u].booking)
        /\ update[u].booking \in Requests
  BY <1>0 DEF HandlersHoldRows, Update
<1>1. CASE UNCHANGED <<bookings, update, unguarded>> /\ (faults' = 0 => faults = 0)
  BY <1>1, <1>a
<1>2. ASSUME NEW r \in Requests, Post(r)
      PROVE  /\ \A u \in Updaters : update'[u] # NoUpdate =>
                  /\ bookings'[update'[u].booking].status = update'[u].seen
                  /\ update'[u].phase = "allowed" =>
                       MayMove(bookings'[update'[u].booking], update'[u].caller,
                               update'[u].seen, update'[u].to)
             /\ faults' = 0 => unguarded' = {}
  <2>1. update' = update /\ (faults' = 0 => faults = 0)
    BY <1>0, <1>2 DEF Post, Serve, Begin, AcquireLock, LockKeyRejected, ReadCar,
       CheckOverlap, Insert, Commit, Rollback, Crash, OrphanInsert, CommitLost
  <2>2. faults' = 0 => unguarded' = unguarded
    BY <1>2, <2>1 DEF Post, Serve, Begin, AcquireLock, LockKeyRejected, ReadCar,
       CheckOverlap, Insert, Commit, Rollback, Crash, OrphanInsert, CommitLost,
       AnswersKept
  <2>3. \A q \in Requests : Stored(q) => bookings'[q] = bookings[q]
    <3>1. \/ bookings' = bookings
          \/ /\ phase[r] \in {"inserting", "orphan"}
             /\ bookings' = [bookings EXCEPT ![r] = NewRow(r)]
      BY <1>2 DEF Post, Serve, Begin, AcquireLock, LockKeyRejected, ReadCar,
         CheckOverlap, Insert, Commit, Rollback, Crash, OrphanInsert, CommitLost
    <3> QED BY <1>0, <3>1 DEF RowWhenInserted
  <2> QED BY <1>a, <1>b, <2>1, <2>2, <2>3
<1>3. ASSUME NEW u \in Updaters, Patch(u)
      PROVE  /\ update'[u] # NoUpdate =>
                  /\ bookings'[update'[u].booking].status = update'[u].seen
                  /\ update'[u].phase = "allowed" =>
                       MayMove(bookings'[update'[u].booking], update'[u].caller,
                               update'[u].seen, update'[u].to)
             /\ faults' = faults /\ (unguarded = {} => unguarded' = {})
  <2>1. CASE ReadForStatus(u)
    <3>1. PICK b \in Requests, caller \in Users, to \in Statuses :
            /\ Stored(b)
            /\ update' = [update EXCEPT ![u] =
                 [phase |-> "read", booking |-> b, caller |-> caller, to |-> to,
                  seen |-> bookings[b].status]]
      BY <2>1 DEF ReadForStatus
    <3>2. /\ update'[u].booking = b /\ update'[u].seen = bookings[b].status
          /\ update'[u].phase = "read"
      BY <1>0, <3>1
    <3> QED BY <2>1, <3>2 DEF ReadForStatus
  <2>2. CASE CheckStatus(u)
    <3>1. update[u] \in Update /\ update[u] # NoUpdate
      BY <1>0, <2>2 DEF CheckStatus
    <3>2. CASE update'[u] = NoUpdate
      BY <2>2, <3>2 DEF CheckStatus
    <3>3. CASE update'[u] # NoUpdate
      <4>1. /\ update'[u] = [update[u] EXCEPT !.phase = "allowed"]
            /\ MayMove(bookings[update[u].booking], update[u].caller,
                       update[u].seen, update[u].to)
        BY <1>0, <2>2, <3>3 DEF CheckStatus
      <4>2. /\ update'[u].booking = update[u].booking
            /\ update'[u].caller = update[u].caller
            /\ update'[u].seen = update[u].seen /\ update'[u].to = update[u].to
        BY <3>1, <4>1 DEF Update
      <4> QED BY <1>a, <2>2, <3>1, <4>1, <4>2 DEF CheckStatus
    <3> QED BY <3>2, <3>3
  <2>3. CASE WriteStatus(u)
    <3>1. update[u] # NoUpdate /\ update[u].phase = "allowed" /\ update'[u] = NoUpdate
      BY <1>0, <2>3 DEF WriteStatus
    <3>2. /\ update[u].booking \in Requests /\ Stored(update[u].booking)
          /\ bookings[update[u].booking].status \in ActiveStatuses
      BY <1>a, <1>b, <3>1, AllowedFromActive
    <3> QED BY <2>3, <3>1, <3>2 DEF WriteStatus, SetStatus, Active
  <2> QED BY <1>3, <2>1, <2>2, <2>3 DEF Patch
<1>4. ASSUME NEW u \in Updaters, Patch(u)
      PROVE  /\ \A v \in Updaters : update'[v] # NoUpdate =>
                  /\ bookings'[update'[v].booking].status = update'[v].seen
                  /\ update'[v].phase = "allowed" =>
                       MayMove(bookings'[update'[v].booking], update'[v].caller,
                               update'[v].seen, update'[v].to)
             /\ faults' = 0 => unguarded' = {}
  <2>1. \A v \in Updaters : v = u
    BY DEF SingleWriter
  <2> QED BY <1>3, <1>4, <1>a, <2>1
<1>5. ASSUME NEW b \in Requests, NEW s \in Statuses PROVE ~AdminSetStatus(b, s)
  BY DEF AdminSetStatus, SingleWriter
<1>6. ASSUME NEW c \in Cars, CarWrite(c)
      PROVE  UNCHANGED <<bookings, update, unguarded, faults>>
  BY <1>6 DEF CarWrite, EditCar, DeleteCar, ModerateCar, SetCar
<1>7. NextDay \/ UNCHANGED vars => UNCHANGED <<bookings, update, unguarded, faults>>
  BY DEF NextDay, vars
<1> QED BY <1>1, <1>2, <1>4, <1>5, <1>6, <1>7 DEF Next

-----------------------------------------------------------------------------
(* The invariant.                                                          *)

LEMMA InitInv == Init => IInv
<1> SUFFICES ASSUME Init PROVE IInv
  OBVIOUS
<1>1. TypeOK
  BY InitType
<1>2. \A r \in Requests : phase[r] = "idle" /\ ~Stored(r)
  BY DEF Init, Stored
<1>3. \A c \in Cars : lock[c] = {}
  BY DEF Init
<1>4. \A u \in Updaters : update[u] = NoUpdate
  BY DEF Init
<1>5. SeenIsCurrent
  BY <1>4 DEF Init, SeenIsCurrent
<1> QED BY <1>1, <1>2, <1>3, <1>4, <1>5 DEF IInv, LockCoversWindow, RowWhenInserted,
        DatesChecked, HandlersHoldRows, NoLeakedLock, CheckStillValid,
        GuardedNoDoubleBooking, Holding, Collide, Active, AnswersKept

LEMMA StepInv == IInv /\ [Next]_vars => IInv'
BY NextType, LockInvariant, RowInvariant, DatesInvariant, HandlersInvariant,
   CheckInvariant, GuardedInvariant, AnswersInvariant, SeenInvariant DEF IInv

(* The inductive invariant holds in every reachable state.                 *)
THEOREM Invariant == Spec => []IInv
BY InitInv, StepInv, PTL DEF Spec

(* Every variable of the booking service keeps its type, and no row breaks *)
(* the CHECK of the table.                                                 *)
THEOREM TypeCorrect == Spec => []TypeOK
<1>1. IInv => TypeOK
  BY DEF IInv
<1> QED BY <1>1, Invariant, PTL

(* createBooking never double-books: two colliding bookings always include *)
(* one that a status write revived or a dead worker's INSERT created.      *)
THEOREM NoGuardedDoubleBooking == Spec => []GuardedNoDoubleBooking
<1>1. IInv => GuardedNoDoubleBooking
  BY DEF IInv
<1> QED BY <1>1, Invariant, PTL

(* However createBooking ends, it leaves no advisory lock behind.          *)
THEOREM LockNeverLeaks == Spec => []NoLeakedLock
<1>1. IInv => NoLeakedLock
  BY DEF IInv
<1> QED BY <1>1, Invariant, PTL

(* A POST answered 201 has its row, as it asked for it, and while no process and no connection *)
(* has failed a POST answered with an error has left none behind.          *)
THEOREM AnswersAreTrue == Spec => [](faults = 0 => AnswerMatchesTable)
<1>1. IInv => (faults = 0 => AnswerMatchesTable)
  BY DEF IInv, RowWhenInserted, AnswersKept, AnswerMatchesTable
<1> QED BY <1>1, Invariant, PTL

(* As long as nothing fails, the lock, the overlap query and the table of  *)
(* transitions keep every two active bookings of a car apart, if statuses  *)
(* are written by one handler at a time.                                   *)
THEOREM NeverDoubleBooked ==
  ASSUME SingleWriter
  PROVE  Spec => [](faults = 0 => NoDoubleBooking)
<1>1. IInv => (faults = 0 => NoDoubleBooking)
  BY DEF IInv, SeenIsCurrent, GuardedNoDoubleBooking, NoDoubleBooking
<1> QED BY <1>1, Invariant, PTL

(* A single status handler only makes the transitions its caller may make, *)
(* though its UPDATE repeats none of its tests: crashes, cars withdrawn    *)
(* and the days that pass in between do not change the status it has read. *)
THEOREM OneHandlerIsStrict ==
  ASSUME SingleWriter
  PROVE  Spec => StrictTransitions
<1>1. ASSUME IInv, [Next]_vars, NEW b \in Requests, Stored(b),
             bookings'[b].status # bookings[b].status
      PROVE  \E u \in Updaters :
               /\ update[u] # NoUpdate /\ update[u].booking = b
               /\ MayMove(bookings[b], update[u].caller,
                          bookings[b].status, bookings'[b].status)
  <2>0. /\ TypeOK /\ HandlersHoldRows /\ SeenIsCurrent /\ RowWhenInserted
        /\ bookings \in [Requests -> Booking \cup {NoBooking}]
        /\ update \in [Updaters -> Update \cup {NoUpdate}]
    BY <1>1 DEF IInv, TypeOK
  <2>1. ASSUME NEW r \in Requests, Post(r) PROVE bookings'[b] = bookings[b]
    <3>1. \/ bookings' = bookings
          \/ /\ phase[r] \in {"inserting", "orphan"}
             /\ bookings' = [bookings EXCEPT ![r] = NewRow(r)]
      BY <2>1 DEF Post, Serve, Begin, AcquireLock, LockKeyRejected, ReadCar,
         CheckOverlap, Insert, Commit, Rollback, Crash, OrphanInsert, CommitLost
    <3> QED BY <1>1, <2>0, <3>1 DEF RowWhenInserted
  <2>2. ASSUME NEW u \in Updaters, WriteStatus(u)
        PROVE  /\ update[u] # NoUpdate /\ update[u].booking = b
               /\ MayMove(bookings[b], update[u].caller,
                          bookings[b].status, bookings'[b].status)
    <3>1. update[u] # NoUpdate /\ update[u].phase = "allowed"
      BY <2>2 DEF WriteStatus
    <3>2. /\ update[u] \in Update /\ Stored(update[u].booking)
          /\ update[u].booking \in Requests
      BY <2>0, <3>1 DEF HandlersHoldRows, Update
    <3>3. bookings' = [bookings EXCEPT ![update[u].booking].status = update[u].to]
      BY <2>2 DEF WriteStatus, SetStatus
    <3>4. b = update[u].booking
      BY <1>1, <2>0, <3>2, <3>3
    <3>5. bookings[b] \in Booking
      BY <1>1, <2>0 DEF Stored
    <3>6. bookings'[b].status = update[u].to
      BY <2>0, <3>3, <3>4, <3>5 DEF Booking
    <3> QED BY <2>0, <3>1, <3>4, <3>6 DEF SeenIsCurrent
  <2>3. ASSUME NEW u \in Updaters, ReadForStatus(u) \/ CheckStatus(u) PROVE bookings' = bookings
    BY <2>3 DEF ReadForStatus, CheckStatus
  <2>4. ASSUME NEW d \in Requests, NEW s \in Statuses PROVE ~AdminSetStatus(d, s)
    BY DEF AdminSetStatus, SingleWriter
  <2>5. ASSUME NEW c \in Cars, CarWrite(c) PROVE bookings' = bookings
    BY <2>5 DEF CarWrite, EditCar, DeleteCar, ModerateCar, SetCar
  <2>6. NextDay \/ UNCHANGED vars => bookings' = bookings
    BY DEF NextDay, vars
  <2> QED BY <1>1, <2>1, <2>2, <2>3, <2>4, <2>5, <2>6 DEF Next, Patch
<1>2. IInv /\ [Next]_vars =>
        [\A b \in Requests :
           Stored(b) /\ bookings'[b].status # bookings[b].status =>
             \E u \in Updaters :
               /\ update[u] # NoUpdate /\ update[u].booking = b
               /\ MayMove(bookings[b], update[u].caller,
                          bookings[b].status, bookings'[b].status)]_vars
  BY <1>1
<1> QED BY <1>2, Invariant, PTL DEF Spec, StrictTransitions

-----------------------------------------------------------------------------
(* The service implements the calendar of BookingCalendar.                 *)

LEMMA SlotType ==
  ASSUME TypeOK, NEW b \in Requests
  PROVE  /\ Active(b) => SlotOf(b) \in Calendar!Slot /\ SlotOf(b) # NoBooking
         /\ ~Active(b) => SlotOf(b) = NoBooking
<1>1. CASE Active(b)
  <2>1. /\ bookings[b] \in Booking
        /\ bookings[b].start < bookings[b].end
    BY <1>1 DEF TypeOK, Active, Stored
  <2>2. SlotOf(b) \in Slot
    BY <1>1, <2>1 DEF SlotOf, Slot, Booking
  <2>3. SlotOf(b) \in Calendar!Slot
    BY <1>1, <2>1, <2>2 DEF SlotOf, Slot, Calendar!Slot, Booking
  <2> QED BY <1>1, <2>2, <2>3
<1>2. CASE ~Active(b)
  BY <1>2 DEF SlotOf
<1> QED BY <1>1, <1>2

LEMMA CalendarInit == Init => Calendar!Init
<1> SUFFICES ASSUME Init PROVE Calendar!Init
  OBVIOUS
<1>1. \A b \in Requests : ~Stored(b) /\ ~Active(b) /\ SlotOf(b) = NoBooking
  BY DEF Init, Stored, Active, SlotOf
<1>2. unguarded = {}
  BY DEF Init
<1> QED BY <1>1, <1>2 DEF Calendar!Init

LEMMA CalendarStep == IInv /\ IInv' /\ [Next]_vars => [Calendar!Next]_(Calendar!vars)
<1> DEFINE reserved == {b \in Requests : Stored(b)}
           taken == [b \in Requests |-> SlotOf(b)]
<1> SUFFICES ASSUME IInv, IInv', [Next]_vars
             PROVE  \/ \E b \in Requests : \/ Calendar!Reserve(b)
                                           \/ Calendar!GiveBack(b)
                                           \/ Calendar!TakeUnchecked(b)
                    \/ UNCHANGED <<reserved, taken, unguarded>>
  BY DEF Calendar!Next, Calendar!vars
<1>0. TypeOK /\ TypeOK' /\ RowWhenInserted /\ CheckStillValid /\ HandlersHoldRows
  BY DEF IInv
<1>1. CASE UNCHANGED <<bookings, unguarded>>
  BY <1>1 DEF Stored, Active, SlotOf
<1>2. ASSUME NEW r \in Requests, bookings' = [bookings EXCEPT ![r] = NewRow(r)],
             phase[r] \in {"inserting", "orphan"}
      PROVE  /\ ~Stored(r) /\ SlotOf(r) = NoBooking
             /\ reserved' = reserved \cup {r}
             /\ Active(r)'
             /\ SlotOf(r)' \in Calendar!Slot
             /\ taken' = [taken EXCEPT ![r] = SlotOf(r)']
  <2>1. ~Stored(r) /\ SlotOf(r) = NoBooking
    BY <1>0, <1>2 DEF RowWhenInserted, Active, SlotOf
  <2>2. bookings'[r] = NewRow(r) /\ \A b \in Requests : b # r => bookings'[b] = bookings[b]
    BY <1>0, <1>2 DEF TypeOK
  <2>3. Stored(r)' /\ Active(r)'
    BY <1>0, <2>2, NewRowType DEF Stored, Active, NewRow, ActiveStatuses
  <2>4. reserved' = reserved \cup {r}
    BY <2>1, <2>2, <2>3 DEF Stored
  <2>5. \A b \in Requests : b # r => SlotOf(b)' = SlotOf(b)
    BY <2>2 DEF SlotOf, Active, Stored
  <2>6. taken' = [taken EXCEPT ![r] = SlotOf(r)']
    BY <2>5
  <2>7. SlotOf(r)' \in Calendar!Slot
    <3>1. [car |-> bookings'[r].car, start |-> bookings'[r].start,
           end |-> bookings'[r].end] \in Calendar!Slot
      <4>1. bookings'[r] \in Booking /\ bookings'[r].start < bookings'[r].end
        BY <1>0, <2>3 DEF TypeOK, Stored
      <4> QED BY <4>1 DEF Booking, Calendar!Slot
    <3> QED BY <2>3, <3>1 DEF SlotOf
  <2> QED BY <2>1, <2>3, <2>4, <2>6, <2>7
<1>3. ASSUME NEW r \in Requests, Insert(r) PROVE Calendar!Reserve(r)
  <2>1. /\ ~Stored(r)
        /\ reserved' = reserved \cup {r}
        /\ Active(r)'
        /\ SlotOf(r)' \in Calendar!Slot
        /\ taken' = [taken EXCEPT ![r] = SlotOf(r)']
    BY <1>2, <1>3 DEF Insert
  <2>2. bookings'[r] = NewRow(r)
    BY <1>0, <1>3 DEF Insert, TypeOK
  <2>3. /\ SlotOf(r)'.car = ask[r].car
        /\ SlotOf(r)'.start = ask[r].start
        /\ SlotOf(r)'.end = ask[r].end
    BY <1>0, <2>1, <2>2, NewRowType DEF SlotOf
  <2>4. ASSUME NEW o \in Requests \ unguarded, taken[o] # NoBooking
        PROVE  ~Calendar!Clash(taken[o], SlotOf(r)')
    <3>1. Active(o)
      BY <2>4 DEF SlotOf
    <3>2. o \notin Conflicts(r)
      BY <1>0, <1>3, <2>4 DEF CheckStillValid, Insert
    <3>3. /\ taken[o].car = bookings[o].car
          /\ taken[o].start = bookings[o].start
          /\ taken[o].end = bookings[o].end
      BY <3>1 DEF SlotOf
    <3> QED BY <2>3, <3>1, <3>2, <3>3 DEF Conflicts, Calendar!Clash,
           Calendar!Overlaps, Overlaps
  <2>5. unguarded' = unguarded
    BY <1>3 DEF Insert
  <2> QED BY <2>1, <2>4, <2>5 DEF Calendar!Reserve
<1>4. ASSUME NEW r \in Requests, OrphanInsert(r),
             bookings' = [bookings EXCEPT ![r] = NewRow(r)],
             unguarded' = unguarded \cup {r}
      PROVE  Calendar!TakeUnchecked(r)
  <2>1. /\ SlotOf(r) = NoBooking
        /\ reserved' = reserved \cup {r}
        /\ SlotOf(r)' \in Calendar!Slot
        /\ taken' = [taken EXCEPT ![r] = SlotOf(r)']
    BY <1>2, <1>4 DEF OrphanInsert
  <2> QED BY <1>4, <2>1 DEF Calendar!TakeUnchecked
<1>5. ASSUME NEW b \in Requests, NEW s \in Statuses, Stored(b), SetStatus(b, s)
      PROVE  \/ Calendar!GiveBack(b) \/ Calendar!TakeUnchecked(b)
             \/ UNCHANGED <<reserved, taken, unguarded>>
  <2>1. reserved' = reserved
    BY <1>0, <1>5, SetStatusType DEF Stored
  <2>2. \A a \in Requests : a # b => SlotOf(a)' = SlotOf(a)
    BY <1>0, <1>5 DEF SetStatus, TypeOK, SlotOf, Active, Stored
  <2>3. taken' = [taken EXCEPT ![b] = SlotOf(b)']
    BY <2>2
  <2>4. bookings'[b].status = s /\ Stored(b)'
    <3>1. bookings[b] \in Booking
      BY <1>0, <1>5 DEF Stored, TypeOK
    <3>2. bookings'[b] = [bookings[b] EXCEPT !.status = s] /\ Stored(b)'
      BY <1>0, <1>5, SetStatusType
    <3> QED BY <3>1, <3>2 DEF Booking
  <2>5. CASE Active(b) /\ s \in ActiveStatuses
    <3>1. SlotOf(b)' = SlotOf(b)
      BY <1>0, <1>5, <2>4, <2>5, SetStatusType DEF SlotOf, Active, SameRow
    <3> QED BY <1>5, <2>1, <2>2, <2>5, <3>1 DEF SetStatus
  <2>6. CASE Active(b) /\ s \notin ActiveStatuses
    <3>1. SlotOf(b) # NoBooking /\ SlotOf(b)' = NoBooking
      BY <1>0, <2>4, <2>6, SlotType DEF SlotOf, Active
    <3> QED BY <1>5, <2>1, <2>3, <2>6, <3>1 DEF Calendar!GiveBack, SetStatus
  <2>7. CASE ~Active(b) /\ s \in ActiveStatuses
    <3>1. Active(b)'
      BY <2>4, <2>7 DEF Active
    <3>2. SlotOf(b)' \in Calendar!Slot
      <4>1. bookings'[b] \in Booking /\ bookings'[b].start < bookings'[b].end
        BY <1>0, <2>4 DEF TypeOK, Stored
      <4>2. [car |-> bookings'[b].car, start |-> bookings'[b].start,
             end |-> bookings'[b].end] \in Calendar!Slot
        BY <4>1 DEF Booking, Calendar!Slot
      <4> QED BY <3>1, <4>2 DEF SlotOf
    <3>3. unguarded' = unguarded \cup {b} /\ SlotOf(b) = NoBooking
      BY <1>5, <2>7 DEF SetStatus, SlotOf
    <3>4. reserved' = reserved \cup {b}
      BY <1>5, <2>1
    <3> QED BY <2>3, <3>2, <3>3, <3>4 DEF Calendar!TakeUnchecked
  <2>8. CASE ~Active(b) /\ s \notin ActiveStatuses
    <3>1. SlotOf(b)' = SlotOf(b)
      BY <2>4, <2>8 DEF SlotOf, Active
    <3>2. taken' = taken
      BY <2>2, <3>1
    <3>3. unguarded' = unguarded
      BY <1>5, <2>8 DEF SetStatus
    <3> QED BY <2>1, <3>2, <3>3
  <2> QED BY <2>5, <2>6, <2>7, <2>8
<1> QED BY <1>0, <1>1, <1>3, <1>4, <1>5, RowStep

(* Every behaviour of the booking service is one of the calendar: whatever *)
(* interleaving of statements, its visible effect is atomic reservations.  *)
THEOREM RefinesCalendar == Spec => ImplementsCalendar
<1>1. IInv /\ IInv' /\ [Next]_vars => [Calendar!Next]_(Calendar!vars)
  BY CalendarStep
<1> QED BY <1>1, CalendarInit, Invariant, PTL DEF Spec, ImplementsCalendar, Calendar!Spec
=============================================================================
