------------------------------ MODULE Booking ------------------------------
(***************************************************************************)
(* The booking service of RentGo: POST /bookings, PATCH                    *)
(* /bookings/:id/status and PATCH /admin/bookings/:id/status, over the     *)
(* tables "bookings" and "cars", with the owners' and moderators' writes   *)
(* to the cars as they interleave with them.                               *)
(*                                                                         *)
(* One step is one database statement together with the JavaScript that    *)
(* runs until the next await.  A POST is a request r of Requests: it runs  *)
(* once and creates at most one row, which bookings[r] holds.  Its         *)
(* statements go over two connections: the transaction's client (BEGIN,    *)
(* the advisory lock, the overlap query, COMMIT) and the pool (the car     *)
(* read and the INSERT, which commits on its own).                         *)
(***************************************************************************)
EXTENDS Intervals

CONSTANTS
  Cars,            \* the cars, all listed by their owners at the start
  Users,
  OwnerOf,         \* the owner of each car (owner_id is never updated)
  Admins,          \* the users whose role is 'admin'
  Requests,        \* the POST /bookings requests
  Updaters,        \* concurrent PATCH /bookings/:id/status handlers
  Prices,          \* the values price_per_day takes
  MaxDay,          \* the days modelled are 0 .. MaxDay
  LastToday,       \* bound on the clock: today stops there
  BigintKeys,      \* the cars whose id PostgreSQL reads as a bigint;
                   \* no UUID, which is what schema.sql gives a car, is one
  AdminOverrides,  \* whether admins use PATCH /admin/bookings/:id/status
  MaxFaults,       \* bound on process crashes and lost connections
  NoBooking        \* the value of bookings[r] while no row exists

Days == 0 .. MaxDay
CarStatuses == {"pending", "approved", "rejected"}
Statuses == {"pending", "confirmed", "in_progress",
             "cancelled", "rejected", "completed"}
ActiveStatuses == {"pending", "confirmed", "in_progress"}

Car == [status : CarStatuses, available : BOOLEAN,
        price : Prices, deleted : BOOLEAN]
Booking == [car : Cars, renter : Users, start : Days, end : Days,
            total : Nat, status : Statuses]
(* The days of a car a booking takes.                                      *)
Slot == [car : Cars, start : Days, end : Days]
(* A body that createBookingSchema lets through.  The schema compares      *)
(* instants, so both dates may still fall on one calendar day.             *)
Ask == {a \in [car : Cars, renter : Users, start : Days, end : Days] :
          a.start <= a.end}

ASSUME ConstantsAssumption ==
  /\ OwnerOf \in [Cars -> Users]
  /\ Admins \subseteq Users
  /\ Prices \subseteq Nat
  /\ MaxDay \in Nat
  /\ LastToday \in Nat
  /\ BigintKeys \subseteq Cars
  /\ AdminOverrides \in BOOLEAN
  /\ MaxFaults \in Nat
  /\ NoBooking \notin Booking \cup Slot

VARIABLES
  cars,       \* table cars
  bookings,   \* table bookings, by the request that inserted the row
  lock,       \* the holders of each car's advisory lock
  ask,        \* the body and the user of each POST
  phase,      \* how far each POST has come
  quote,      \* the price_per_day each POST read
  code,       \* the HTTP status each POST answers, 0 while undecided
  update,     \* the state of each status handler
  today,      \* the current day
  faults,     \* crashes and lost connections so far
  unguarded   \* history: bookings made active outside the lock's protection

carVars == <<cars, today>>
createVars == <<ask, phase, quote, code>>
vars == <<cars, bookings, lock, ask, phase, quote, code, update, today,
          faults, unguarded>>

-----------------------------------------------------------------------------
(* Tables, locks and the state of a handler.                               *)

Stored(b) == bookings[b] # NoBooking
Active(b) == Stored(b) /\ bookings[b].status \in ActiveStatuses

(* Mutant: the overlap query forgets bookings not yet confirmed.           *)
ConflictsConfirmedOnly(r) ==
  {b \in Requests :
     /\ Stored(b)
     /\ bookings[b].status \in {"confirmed", "in_progress"}
     /\ bookings[b].car = ask[r].car
     /\ Overlaps(bookings[b].start, bookings[b].end, ask[r].start, ask[r].end)}

(* The rows findOverlapping returns for the dates of request r.            *)
Conflicts(r) ==
  {b \in Requests :
     /\ Active(b)
     /\ bookings[b].car = ask[r].car
     /\ Overlaps(bookings[b].start, bookings[b].end, ask[r].start, ask[r].end)}

(* CarService.getCar without a user, and with user u.                      *)
VisibleToGuest(c) == ~cars[c].deleted /\ cars[c].status = "approved"
VisibleTo(c, u) ==
  /\ ~cars[c].deleted
  /\ cars[c].status = "approved" \/ OwnerOf[c] = u \/ u \in Admins

Release(r) == lock' = [lock EXCEPT ![ask[r].car] = @ \ {r}]
Goto(r, p) == phase' = [phase EXCEPT ![r] = p]

(* Mutant: transaction() swallows the error and resolves.                  *)
SwallowedThrow(r, status) ==
  /\ Goto(r, "rollback")
  /\ code' = [code EXCEPT ![r] = 201]

(* What a throw inside transaction() leads to: ROLLBACK comes next.        *)
Throw(r, status) ==
  /\ Goto(r, "rollback")
  /\ code' = [code EXCEPT ![r] = status]

NewRow(r) ==
  [car |-> ask[r].car, renter |-> ask[r].renter,
   start |-> ask[r].start, end |-> ask[r].end,
   total |-> DiffDays(ask[r].start, ask[r].end) * quote[r],
   status |-> "pending"]

InFlight == {"waiting", "locked", "quoted", "inserting", "inserted", "rollback"}
Phases == InFlight \cup {"idle", "done", "orphan", "crashed"}

NoUpdate == [phase |-> "idle"]
Update == [phase : {"read", "allowed"}, booking : Requests, caller : Users,
           to : Statuses, seen : Statuses]

Init ==
  /\ cars \in [Cars -> {c \in Car : /\ c.status = "pending"
                                    /\ c.available
                                    /\ ~c.deleted}]
  /\ bookings = [r \in Requests |-> NoBooking]
  /\ lock = [c \in Cars |-> {}]
  /\ ask \in [Requests -> Ask]
  /\ phase = [r \in Requests |-> "idle"]
  /\ quote = [r \in Requests |-> 0]
  /\ code = [r \in Requests |-> 0]
  /\ update = [u \in Updaters |-> NoUpdate]
  /\ today = 0
  /\ faults = 0
  /\ unguarded = {}

-----------------------------------------------------------------------------
(* POST /bookings: BookingService.createBooking inside transaction().      *)

(* pool.connect, BEGIN, and the lock statement is sent.                    *)
Begin(r) ==
  /\ phase[r] = "idle"
  /\ Goto(r, "waiting")
  /\ UNCHANGED <<carVars, bookings, lock, ask, quote, code, update, faults, unguarded>>

(* Mutant: no advisory lock, only the overlap query.                       *)
AcquireNoLock(r) ==
  /\ phase[r] = "waiting"
  /\ ask[r].car \in BigintKeys
  /\ Goto(r, "locked")
  /\ UNCHANGED <<carVars, bookings, lock, ask, quote, code, update, faults, unguarded>>

(* pg_advisory_xact_lock(car_id) returns: nobody else holds the key.       *)
AcquireLock(r) ==
  /\ phase[r] = "waiting"
  /\ ask[r].car \in BigintKeys
  /\ lock[ask[r].car] = {}
  /\ lock' = [lock EXCEPT ![ask[r].car] = {r}]
  /\ Goto(r, "locked")
  /\ UNCHANGED <<carVars, bookings, ask, quote, code, update, faults, unguarded>>

(* The function takes a bigint; a UUID is invalid input syntax for it.     *)
LockKeyRejected(r) ==
  /\ phase[r] = "waiting"
  /\ ask[r].car \notin BigintKeys
  /\ Throw(r, 500)
  /\ UNCHANGED <<carVars, bookings, lock, ask, quote, update, faults, unguarded>>

(* Mutant: the date test is left out.                                      *)
ReadCarUndated(r) ==
  /\ phase[r] = "locked"
  /\ quote' = [quote EXCEPT ![r] = cars[ask[r].car].price]
  /\ Goto(r, "quoted")
  /\ UNCHANGED <<carVars, bookings, lock, ask, code, update, faults, unguarded>>

(* getCar over the pool, the availability test and the date test.          *)
ReadCar(r) ==
  /\ phase[r] = "locked"
  /\ LET car == cars[ask[r].car] IN
       \/ /\ ~VisibleToGuest(ask[r].car)
          /\ Throw(r, 404)
          /\ UNCHANGED quote
       \/ /\ VisibleToGuest(ask[r].car)
          /\ ~car.available \/ ask[r].start >= ask[r].end
          /\ Throw(r, 400)
          /\ UNCHANGED quote
       \/ /\ VisibleToGuest(ask[r].car)
          /\ car.available
          /\ ask[r].start < ask[r].end
          /\ quote' = [quote EXCEPT ![r] = car.price]
          /\ Goto(r, "quoted")
          /\ UNCHANGED code
  /\ UNCHANGED <<carVars, bookings, lock, ask, update, faults, unguarded>>

(* findOverlapping on the client.  With a conflict the handler goes on to  *)
(* findUpcomingBookings, whose SQL template names BOOKING_STATUS, which    *)
(* bookings.repository.js does not import: a ReferenceError, answered 500. *)
CheckOverlap(r) ==
  /\ phase[r] = "quoted"
  /\ \/ Conflicts(r) # {} /\ Throw(r, 500)
     \/ Conflicts(r) = {} /\ Goto(r, "inserting") /\ UNCHANGED code
  /\ UNCHANGED <<carVars, bookings, lock, ask, quote, update, faults, unguarded>>

(* The INSERT runs over the pool and commits by itself.                    *)
Insert(r) ==
  /\ phase[r] = "inserting"
  /\ bookings' = [bookings EXCEPT ![r] = NewRow(r)]
  /\ Goto(r, "inserted")
  /\ UNCHANGED <<carVars, lock, ask, quote, code, update, faults, unguarded>>

(* COMMIT ends the client's transaction and with it the advisory lock.     *)
Commit(r) ==
  /\ phase[r] = "inserted"
  /\ Release(r)
  /\ Goto(r, "done")
  /\ code' = [code EXCEPT ![r] = 201]
  /\ UNCHANGED <<carVars, bookings, ask, quote, update, faults, unguarded>>

(* Mutant: a session-level lock, which ROLLBACK does not free.             *)
RollbackKeepsLock(r) ==
  /\ phase[r] = "rollback"
  /\ Goto(r, "done")
  /\ UNCHANGED <<carVars, bookings, lock, ask, quote, code, update, faults, unguarded>>

(* ROLLBACK after a throw; the error middleware answers code[r].           *)
Rollback(r) ==
  /\ phase[r] = "rollback"
  /\ Release(r)
  /\ Goto(r, "done")
  /\ UNCHANGED <<carVars, bookings, ask, quote, code, update, faults, unguarded>>

-----------------------------------------------------------------------------
(* Failures of the process that runs a POST, and of its connections.       *)

(* The worker dies: PostgreSQL sees the client's connection close and      *)
(* frees the lock.  An INSERT already sent on the other connection is not  *)
(* recalled.                                                               *)
Crash(r) ==
  /\ phase[r] \in InFlight
  /\ faults < MaxFaults
  /\ faults' = faults + 1
  /\ Release(r)
  /\ Goto(r, IF phase[r] = "inserting" THEN "orphan" ELSE "crashed")
  /\ code' = [code EXCEPT ![r] = 0]
  /\ UNCHANGED <<carVars, bookings, ask, quote, update, unguarded>>

(* PostgreSQL reads the INSERT of a dead worker from its socket, or not.   *)
OrphanInsert(r) ==
  /\ phase[r] = "orphan"
  /\ \/ /\ bookings' = [bookings EXCEPT ![r] = NewRow(r)]
        /\ unguarded' = unguarded \cup {r}
     \/ UNCHANGED <<bookings, unguarded>>
  /\ Goto(r, "crashed")
  /\ UNCHANGED <<carVars, lock, ask, quote, code, update, faults>>

(* The client's connection is lost during COMMIT: transaction() rejects    *)
(* and the caller gets a 500, but the row is already committed.            *)
CommitLost(r) ==
  /\ phase[r] = "inserted"
  /\ faults < MaxFaults
  /\ faults' = faults + 1
  /\ Release(r)
  /\ Goto(r, "done")
  /\ code' = [code EXCEPT ![r] = 500]
  /\ UNCHANGED <<carVars, bookings, ask, quote, update, unguarded>>

-----------------------------------------------------------------------------
(* PATCH /bookings/:id/status: BookingService.updateBookingStatus.  The    *)
(* booking, then the car are read; the UPDATE comes after both and names   *)
(* the booking by id only.                                                 *)

SetStatus(b, s) ==
  /\ bookings' = [bookings EXCEPT ![b].status = s]
  /\ unguarded' = IF ~Active(b) /\ s \in ActiveStatuses
                  THEN unguarded \cup {b} ELSE unguarded

(* allowedTransitions: what a caller may turn a status into.               *)
Allowed(from, to, isOwner, isRenter, isAdmin) ==
  \/ /\ <<from, to>> \in {<<"pending", "confirmed">>, <<"pending", "rejected">>,
                          <<"confirmed", "in_progress">>,
                          <<"in_progress", "completed">>}
     /\ isOwner \/ isAdmin
  \/ /\ from \in {"pending", "confirmed"} /\ to = "cancelled"
     /\ isRenter \/ isAdmin

(* The same, of a caller and the row of a booking.                         *)
MayMove(row, caller, from, to) ==
  Allowed(from, to, OwnerOf[row.car] = caller, row.renter = caller, caller \in Admins)

(* A renter cancels a confirmed booking at least 24 hours before its       *)
(* first day; both ends are midnights.                                     *)
WithinDeadline(b, from, to, isAdmin) ==
  (to = "cancelled" /\ ~isAdmin /\ from = "confirmed")
     => bookings[b].start - today >= 1

ReadForStatus(u) ==
  /\ update[u] = NoUpdate
  /\ \E b \in Requests, caller \in Users, to \in Statuses :
       /\ Stored(b)
       /\ update' = [update EXCEPT ![u] =
            [phase |-> "read", booking |-> b, caller |-> caller, to |-> to,
             seen |-> bookings[b].status]]
  /\ UNCHANGED <<carVars, bookings, lock, createVars, faults, unguarded>>

(* Mutant: only the caller's role is tested, not the transition.           *)
CheckRoleOnly(u) ==
  /\ update[u] # NoUpdate
  /\ update[u].phase = "read"
  /\ update' = [update EXCEPT ![u].phase = "allowed"]
  /\ UNCHANGED <<carVars, bookings, lock, createVars, faults, unguarded>>

(* getCar, the transition table and the deadline; the handler answers 404, *)
(* 403 or 400 and ends, or goes on to its UPDATE.                          *)
CheckStatus(u) ==
  /\ update[u] # NoUpdate
  /\ update[u].phase = "read"
  /\ LET h == update[u]
         row == bookings[h.booking]
     IN update' = [update EXCEPT ![u] =
          IF /\ VisibleTo(row.car, h.caller)
             /\ MayMove(row, h.caller, h.seen, h.to)
             /\ WithinDeadline(h.booking, h.seen, h.to, h.caller \in Admins)
          THEN [h EXCEPT !.phase = "allowed"] ELSE NoUpdate]
  /\ UNCHANGED <<carVars, bookings, lock, createVars, faults, unguarded>>

WriteStatus(u) ==
  /\ update[u] # NoUpdate
  /\ update[u].phase = "allowed"
  /\ SetStatus(update[u].booking, update[u].to)
  /\ update' = [update EXCEPT ![u] = NoUpdate]
  /\ UNCHANGED <<carVars, lock, createVars, faults>>

(* PATCH /admin/bookings/:id/status: one UPDATE, whatever the status was.  *)
AdminSetStatus(b, s) ==
  /\ AdminOverrides
  /\ Stored(b)
  /\ SetStatus(b, s)
  /\ UNCHANGED <<carVars, lock, createVars, update, faults>>

-----------------------------------------------------------------------------
(* Writes to the cars, each one UPDATE; owner_id, which decides whether an *)
(* owner may, never changes.                                               *)

SetCar(c, car) ==
  /\ cars' = [cars EXCEPT ![c] = car]
  /\ UNCHANGED <<bookings, lock, createVars, update, today, faults, unguarded>>

(* PATCH /cars/:id: WHERE deleted_at IS NULL.                              *)
EditCar(c, available, price) ==
  /\ ~cars[c].deleted
  /\ SetCar(c, [cars[c] EXCEPT !.available = available, !.price = price])

(* DELETE /cars/:id, whatever bookings the car has.                        *)
DeleteCar(c) ==
  /\ ~cars[c].deleted
  /\ SetCar(c, [cars[c] EXCEPT !.deleted = TRUE])

(* PATCH /admin/cars/:id/approve and /reject, deleted or not.              *)
ModerateCar(c, status) == SetCar(c, [cars[c] EXCEPT !.status = status])

NextDay ==
  /\ today < LastToday
  /\ today' = today + 1
  /\ UNCHANGED <<cars, bookings, lock, createVars, update, faults, unguarded>>

-----------------------------------------------------------------------------
(* What the server itself does for a POST it has begun.                    *)
Serve(r) ==
  AcquireLock(r) \/ LockKeyRejected(r) \/ ReadCar(r) \/ CheckOverlap(r)
    \/ Insert(r) \/ Commit(r) \/ Rollback(r)

Post(r) == Begin(r) \/ Serve(r) \/ Crash(r) \/ OrphanInsert(r) \/ CommitLost(r)

Patch(u) == ReadForStatus(u) \/ CheckStatus(u) \/ WriteStatus(u)

CarWrite(c) ==
  \/ \E available \in BOOLEAN, price \in Prices : EditCar(c, available, price)
  \/ DeleteCar(c)
  \/ \E status \in {"approved", "rejected"} : ModerateCar(c, status)

Next ==
  \/ \E r \in Requests : Post(r)
  \/ \E u \in Updaters : Patch(u)
  \/ \E b \in Requests, s \in Statuses : AdminSetStatus(b, s)
  \/ \E c \in Cars : CarWrite(c)
  \/ NextDay

Spec == Init /\ [][Next]_vars

(* Node runs the continuation of every statement PostgreSQL answers, and   *)
(* PostgreSQL answers every statement and grants a free lock.              *)
FairSpec == Spec /\ \A r \in Requests : WF_vars(Serve(r))

-----------------------------------------------------------------------------
(* Properties.                                                             *)

(* Every variable keeps its type; a row always satisfies the table's       *)
(* CHECK (end_date > start_date), so the INSERT never fails on it.         *)
TypeOK ==
  /\ cars \in [Cars -> Car]
  /\ bookings \in [Requests -> Booking \cup {NoBooking}]
  /\ \A b \in Requests : Stored(b) => bookings[b].start < bookings[b].end
  /\ lock \in [Cars -> SUBSET Requests]
  /\ ask \in [Requests -> Ask]
  /\ phase \in [Requests -> Phases]
  /\ quote \in [Requests -> Prices \cup {0}]
  /\ code \in [Requests -> {0, 201, 400, 404, 500}]
  /\ update \in [Updaters -> Update \cup {NoUpdate}]
  /\ today \in 0 .. LastToday
  /\ faults \in 0 .. MaxFaults
  /\ unguarded \in SUBSET Requests

Collide(a, b) ==
  /\ Active(a) /\ Active(b)
  /\ bookings[a].car = bookings[b].car
  /\ Overlaps(bookings[a].start, bookings[a].end,
              bookings[b].start, bookings[b].end)

(* No car is promised to two active bookings on the same day: what the     *)
(* advisory lock and the overlap query of createBooking are for.           *)
NoDoubleBooking == \A a, b \in Requests : a # b => ~Collide(a, b)

(* The same, in the presence of every other writer: two bookings collide   *)
(* only if one of them was made active outside the lock, by a status       *)
(* write that revived it or by the INSERT of a worker that had died.       *)
GuardedNoDoubleBooking ==
  \A a, b \in Requests :
     a # b /\ Collide(a, b) => a \in unguarded \/ b \in unguarded

(* No advisory lock outlives its request: whatever way createBooking ends, *)
(* by COMMIT, ROLLBACK or the death of its worker, the key is free again.  *)
NoLeakedLock ==
  \A c \in Cars : \A r \in lock[c] : phase[r] \in InFlight /\ ask[r].car = c

(* Row r is of the car, the renter and the dates of its request, for as    *)
(* many times the price it read as there are days between them.            *)
AsAsked(r) ==
  /\ bookings[r].car = ask[r].car /\ bookings[r].renter = ask[r].renter
  /\ bookings[r].start = ask[r].start /\ bookings[r].end = ask[r].end
  /\ bookings[r].total = DiffDays(ask[r].start, ask[r].end) * quote[r]

(* A POST answered 201 has its row, as it asked for it and at the price it *)
(* read, whatever became of the car meanwhile; a POST answered with an     *)
(* error has left no row behind.                                           *)
AnswerMatchesTable ==
  \A r \in Requests : phase[r] = "done" =>
    /\ code[r] = 201 => Stored(r) /\ AsAsked(r)
    /\ code[r] # 201 => ~Stored(r)

(* As long as one status handler runs at a time, and no administrator      *)
(* overrides a status: whatever days pass, cars are withdrawn or workers   *)
(* die between its reads and its UPDATE, a status changes by a handler     *)
(* whose very caller may turn the status of that moment into the new one   *)
(* ("Strict State Machine Transitions").                                   *)
StrictTransitions ==
  [][\A b \in Requests :
       Stored(b) /\ bookings'[b].status # bookings[b].status =>
         \E u \in Updaters :
           /\ update[u] # NoUpdate /\ update[u].booking = b
           /\ MayMove(bookings[b], update[u].caller,
                      bookings[b].status, bookings'[b].status)]_vars

(* A POST that finds an overlapping booking is refused with a 4xx, as an   *)
(* error of the client, not of the server.                                 *)
ConflictIsClientError ==
  [][\A r \in Requests :
       (phase[r] = "quoted" /\ phase'[r] = "rollback") => code'[r] = 400]_vars

(* PostgreSQL takes the advisory lock on the car a POST names: the lock    *)
(* statement never ends a POST with a 500.                                 *)
LockKeyAccepted ==
  [][\A r \in Requests :
       (phase[r] = "waiting" /\ phase'[r] # "waiting") => code'[r] # 500]_vars

(* Every POST the server has begun is answered or dies with its worker.    *)
EveryPostEnds ==
  \A r \in Requests :
     phase[r] = "waiting" ~> phase[r] \in {"done", "orphan", "crashed"}

(* The service implements the calendar: an active row holds its days, and  *)
(* Insert is where the days are taken.                                     *)
SlotOf(b) ==
  IF Active(b) THEN [car |-> bookings[b].car, start |-> bookings[b].start,
                     end |-> bookings[b].end]
  ELSE NoBooking

Calendar == INSTANCE BookingCalendar WITH
  Bookings <- Requests,
  NoSlot <- NoBooking,
  reserved <- {b \in Requests : Stored(b)},
  taken <- [b \in Requests |-> SlotOf(b)],
  loose <- unguarded

ImplementsCalendar == Calendar!Spec

-----------------------------------------------------------------------------
(* The inductive invariant behind GuardedNoDoubleBooking.                  *)

(* From the grant of the lock to COMMIT or ROLLBACK a request is the only  *)
(* holder of its car's key.                                                *)
Holding == {"locked", "quoted", "inserting", "inserted"}
LockCoversWindow ==
  \A r \in Requests : phase[r] \in Holding => lock[ask[r].car] = {r}

(* The row appears in Insert and not before, and stays what was asked.     *)
RowWhenInserted ==
  \A r \in Requests :
     /\ phase[r] \in {"idle", "waiting", "locked", "quoted", "inserting",
                      "rollback", "orphan"} => ~Stored(r)
     /\ phase[r] = "inserted" => Stored(r)
     /\ Stored(r) => AsAsked(r)

(* A request between its date test and its INSERT has non-empty dates.     *)
DatesChecked ==
  \A r \in Requests :
     phase[r] \in {"quoted", "inserting", "orphan"} => ask[r].start < ask[r].end

(* What the overlap query saw stays true until the INSERT: no guarded      *)
(* booking comes to conflict with it in between.                           *)
CheckStillValid ==
  \A r \in Requests : phase[r] = "inserting" => Conflicts(r) \subseteq unguarded

(* A status handler works on a row that is there: no row is ever removed.  *)
HandlersHoldRows ==
  \A u \in Updaters : update[u] # NoUpdate => Stored(update[u].booking)

(* An answer is true of the table.  A POST that rolls back is not answered *)
(* 201; a 500 over a row that is there, and an INSERT nobody waits for,    *)
(* take a fault.                                                           *)
AnswersKept ==
  \A r \in Requests :
     /\ phase[r] = "rollback" => code[r] # 201
     /\ phase[r] = "done" /\ code[r] = 201 => Stored(r)
     /\ faults = 0 => /\ phase[r] = "done" /\ Stored(r) => code[r] = 201
                      /\ phase[r] # "orphan"

(* One handler at a time writes statuses: no admin's override, no second   *)
(* PATCH.                                                                  *)
SingleWriter == ~AdminOverrides /\ \A u, v \in Updaters : u = v

(* Then the status a handler read is still the row's when it is tested and *)
(* when it is overwritten, its caller may still overwrite it, and only a   *)
(* fault makes a booking active outside the lock.                          *)
SeenIsCurrent ==
  SingleWriter =>
    /\ \A u \in Updaters : update[u] # NoUpdate =>
         /\ bookings[update[u].booking].status = update[u].seen
         /\ update[u].phase = "allowed" =>
              MayMove(bookings[update[u].booking], update[u].caller,
                      update[u].seen, update[u].to)
    /\ faults = 0 => unguarded = {}

IInv ==
  /\ TypeOK
  /\ LockCoversWindow
  /\ RowWhenInserted
  /\ DatesChecked
  /\ HandlersHoldRows
  /\ NoLeakedLock
  /\ CheckStillValid
  /\ GuardedNoDoubleBooking
  /\ AnswersKept
  /\ SeenIsCurrent
=============================================================================
